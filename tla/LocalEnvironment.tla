-------------------------- MODULE LocalEnvironment --------------------------
(***************************************************************************)
(* The poc-framework's LocalEnvironment: a bank in the process of the      *)
(* caller.  build() makes the bank and ticks it to its first blockhash     *)
(* after genesis; the caller then builds transactions on the latest        *)
(* blockhash, executes them, possibly again, and may ask for the next      *)
(* blockhash.  The bank refuses a message it has executed before, which it *)
(* recognises by the message and the blockhash in it; a message that could *)
(* not be loaded was not executed and may be tried again.                  *)
(*                                                                         *)
(* A blockhash is its number: 0 is the genesis hash.  A transaction is its *)
(* blockhash and its body, the instructions and signers it was built from: *)
(* the signature is a function of these.                                   *)
(***************************************************************************)
EXTENDS Integers

CONSTANTS TicksPerSlot,   \* ticks_per_slot of the genesis configuration
          Bodies          \* what transactions are made of

ASSUME TicksAssumption == TicksPerSlot \in Nat \ {0}

MaxTickHeight == TicksPerSlot   \* (slot + 1) * ticks_per_slot, in slot 0

Outcome == {"ok", "err"}

VARIABLES tick_height,     \* of the bank
          last_blockhash,  \* newest hash of the bank's blockhash queue
          running,         \* what the caller runs: "build", "advance" or "none"
          before,          \* the loop variable last_blockhash of advance_blockhash
          built,           \* transactions the caller has made
          status_cache,    \* the outcome of every executed transaction
          executions       \* how often each body was executed

localVars == <<tick_height, last_blockhash, running, before, built, status_cache, executions>>

LocalInit ==
    /\ tick_height = 0
    /\ last_blockhash = 0
    /\ running = "build"
    /\ before = 0
    /\ built = {}
    /\ status_cache = <<>>
    /\ executions = [b \in Bodies |-> 0]

-----------------------------------------------------------------------------
is_block_boundary_Passed(t) == t >= MaxTickHeight

(* All features are active, fix_recent_blockhashes among them. *)
is_block_boundary(t) == t = MaxTickHeight

(* tick_height + 1.  Only its comparison with MaxTickHeight matters, so    *)
(* heights beyond it alternate between two values.                         *)
NextTick(t) == IF t < MaxTickHeight + 2 THEN t + 1 ELSE MaxTickHeight + 1

register_tick_Silent ==
    /\ running # "none"
    /\ last_blockhash = before
    /\ tick_height' = NextTick(tick_height)
    /\ UNCHANGED <<last_blockhash, running, before, built, status_cache, executions>>

(* One turn of the loop of advance_blockhash. *)
register_tick ==
    /\ running # "none"
    /\ last_blockhash = before
    /\ last_blockhash' = IF is_block_boundary(NextTick(tick_height))
                         THEN last_blockhash + 1 ELSE last_blockhash
    /\ tick_height' = NextTick(tick_height)
    /\ UNCHANGED <<running, before, built, status_cache, executions>>

(* The loop ends, and build() or advance_blockhash() with it. *)
Return ==
    /\ running # "none"
    /\ last_blockhash # before
    /\ running' = "none"
    /\ UNCHANGED <<tick_height, last_blockhash, before, built, status_cache, executions>>

advance_blockhash ==
    /\ running = "none"
    /\ running' = "advance"
    /\ before' = last_blockhash
    /\ UNCHANGED <<tick_height, last_blockhash, built, status_cache, executions>>

-----------------------------------------------------------------------------
tx_with_instructions(b) ==
    /\ running = "none"
    /\ built' = built \cup {[blockhash |-> last_blockhash, body |-> b]}
    /\ UNCHANGED <<tick_height, last_blockhash, running, before, status_cache, executions>>

Executed(tx, result) ==
    /\ status_cache' = [t \in DOMAIN status_cache \cup {tx} |->
                           IF t = tx THEN result ELSE status_cache[t]]
    /\ executions' = [executions EXCEPT ![tx.body] = @ + 1]
    /\ UNCHANGED <<tick_height, last_blockhash, running, before, built>>

(* check_status_cache finds the message under its blockhash. *)
already_processed(tx) == tx \in DOMAIN status_cache

(* The bank executes the transaction: it succeeds or it fails, and is      *)
(* recorded in both cases.  max_age is usize::MAX, so that no blockhash is *)
(* too old.                                                                *)
execute_transaction(tx, result) ==
    /\ running = "none"
    /\ ~already_processed(tx)
    /\ Executed(tx, result)

(* The transaction is not executed, because an account of it cannot be     *)
(* loaded or its payer cannot pay: the caller gets the error, and nothing  *)
(* is recorded.                                                            *)
execute_not_loaded(tx) ==
    /\ running = "none"
    /\ ~already_processed(tx)
    /\ UNCHANGED localVars

(* The bank refuses the transaction: AlreadyProcessed, nothing changes. *)
execute_refused(tx) ==
    /\ running = "none"
    /\ already_processed(tx)
    /\ UNCHANGED localVars

LocalNext ==
    \/ register_tick
    \/ Return
    \/ advance_blockhash
    \/ \E b \in Bodies : tx_with_instructions(b)
    \/ \E tx \in built, r \in Outcome : execute_transaction(tx, r)
    \/ \E tx \in built : execute_not_loaded(tx)
    \/ \E tx \in built : execute_refused(tx)

(* The thread of the caller keeps running while it is inside a call. *)
LocalSpec == LocalInit /\ [][LocalNext]_localVars /\ WF_localVars(register_tick \/ Return)

-----------------------------------------------------------------------------
(* build() returns (advance_blockhash, register_tick): the loop that waits *)
(* for the first blockhash after genesis ends.                             *)
BuildReturns == <>(running # "build")

(* "Advance the bank to the next blockhash" (the documentation of          *)
(* advance_blockhash): a call of it returns.                               *)
AdvanceReturns == (running = "advance") ~> (running = "none")

(* One execution (register_tick, check_status_cache): an environment has   *)
(* one blockhash to build on for all its life, so that the same            *)
(* instructions and signers always give the same message.  They are        *)
(* executed at most once, whatever is built, tried and advanced in         *)
(* between: a call that was executed and failed cannot be repeated.        *)
OneExecution == \A b \in Bodies : executions[b] <= 1

=============================================================================
