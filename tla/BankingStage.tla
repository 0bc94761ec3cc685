---------------------------- MODULE BankingStage ----------------------------
(***************************************************************************)
(* The leader's side of a block: the threads of the banking stage, the PoH *)
(* recorder that gives their transactions a place in the block, and the    *)
(* banks, which execute them and are frozen when the last tick has come.   *)
(*                                                                         *)
(* A thread takes a batch from its buffer through the steps of             *)
(* process_and_record_transactions: reserve block cost, lock accounts,     *)
(* check, load and execute, take the bank's freeze lock, record, store,    *)
(* note the statuses, drop the freeze lock, drop the account locks, and    *)
(* settle the costs.  Each step touches one lock-protected structure, and  *)
(* between two of them any other thread may run.                           *)
(***************************************************************************)
EXTENDS Entries, Sequences, FiniteSets, Functions

CONSTANTS Threads,       \* banking threads
          Packets,       \* what packets the threads may receive (bound)
          BatchSize,     \* MAX_NUM_TRANSACTIONS_PER_BATCH
          BufferLimit,   \* capacity of a thread's buffer
          Priority,      \* of a transaction in it
          RetryAge,      \* an older transaction is not kept for a retry
          Block, Vote, Data,          \* the cost tracker's totals
          BlockLimit, VoteLimit, AccountLimit,
          DataBlockLimit,             \* account data a block may allocate
          DataTotalLimit,             \* and what is left when a bank starts
          Votes,         \* the simple vote transactions
          Estimate,      \* cost reserved for a transaction
          Actual,        \* its cost once executed
          DataSize       \* account data it allocates

ASSUME StageAssumption ==
    /\ IsFiniteSet(Threads) /\ IsFiniteSet(Txs)
    /\ Packets \subseteq [Threads -> SUBSET Txs]
    /\ BatchSize \in Nat \ {0} /\ BufferLimit \in Nat \ {0}
    /\ Priority \in [Txs -> Nat] /\ RetryAge \in 0 .. MaxAge
    /\ {Block, Vote, Data} \cap Keys = {}
    /\ Block # Vote /\ Block # Data /\ Vote # Data
    /\ {BlockLimit, VoteLimit, AccountLimit, DataBlockLimit} \subseteq Nat
    /\ DataTotalLimit \in [Slots -> Nat]
    /\ Estimate \in [Txs -> Nat]
    /\ Actual \in [Txs -> Nat]
    /\ DataSize \in [Txs -> Nat]

VARIABLES incoming,  \* packets on their way to each thread
          buffer,    \* unprocessed packets of each thread
          pc,        \* where each thread is
          slot,      \* the bank it works for
          batch,     \* the batch it works on
          included,  \* those of it that fit into the block
          refused,   \* those of it for which no account data is left at all
          locked,    \* those of them whose accounts it holds
          executed,  \* those of them it executed
          results,   \* the accounts after each of these
          committed, \* those of them that are recorded
          phase,     \* of each bank: unborn, open, complete or frozen
          locks,     \* account locks of each bank
          status,    \* transactions each bank has noted as processed
          store,     \* accounts of each bank
          cost,      \* cost tracker of each bank
          blocks     \* entries recorded for each slot

queueVars == <<incoming, buffer>>
batchVars == <<slot, batch, included, refused>>
execVars == <<locked, executed, results, committed>>
bankVars == <<phase, locks, status, store, cost, blocks>>

vars == <<queueVars, pc, batchVars, execVars, bankVars>>

-----------------------------------------------------------------------------
NoLocks == [write |-> {}, read |-> [k \in Keys |-> 0]]

Tracked == Keys \cup {Block, Vote, Data}

NoCost == [d \in Tracked |-> 0]

Init ==
    /\ incoming \in Packets
    /\ buffer = [th \in Threads |-> {}]
    /\ pc = [th \in Threads |-> "idle"]
    /\ slot = [th \in Threads |-> 1]
    /\ batch = [th \in Threads |-> {}]
    /\ included = [th \in Threads |-> {}]
    /\ refused = [th \in Threads |-> {}]
    /\ locked = [th \in Threads |-> {}]
    /\ executed = [th \in Threads |-> {}]
    /\ results = [th \in Threads |-> <<>>]
    /\ committed = [th \in Threads |-> {}]
    /\ phase = [s \in Slots |-> IF s = 1 THEN "open" ELSE "unborn"]
    /\ locks = [s \in Slots |-> NoLocks]
    /\ status = [s \in Slots |-> {}]
    /\ store = [s \in Slots |-> GenesisStore]
    /\ cost = [s \in Slots |-> NoCost]
    /\ blocks = [s \in Slots |-> <<>>]

(* get_status looks a transaction up in the bank and its ancestors. *)
AlreadyProcessed(s) == UNION {status[a] : a \in 1 .. s}

-----------------------------------------------------------------------------
(* Costs.  A transaction is charged to the totals and to every account it  *)
(* writes: its units, but its data to Data, and to Vote only if it votes.  *)
Charged(t) == Writable[t] \cup {Block, Vote, Data}

Price(units, d) ==
    [t \in Txs |-> CASE d = Data -> DataSize[t]
                     [] d = Vote -> IF t \in Votes THEN units[t] ELSE 0
                     [] OTHER -> units[t]]

Total(units, e, d) == SumFunctionOnSet(Price(units, d), {t \in e : d \in Charged(t)})

(* The checks of would_fit_internal of a transaction t, when those in p    *)
(* were added to what the tracker has spent.                               *)
Exceeds(t, p, spent, d, limit) == spent[d] + Total(Estimate, p \cup {t}, d) > limit

OverCost(t, p, spent) ==
    \/ Exceeds(t, p, spent, Block, BlockLimit)
    \/ Exceeds(t, p, spent, Vote, VoteLimit)
    \/ Estimate[t] > AccountLimit

OverTotal(t, p, spent, s) == Exceeds(t, p, spent, Data, DataTotalLimit[s])

OverAccount(t, p, spent) ==
    \/ Exceeds(t, p, spent, Data, DataBlockLimit)
    \/ \E k \in Writable[t] : Exceeds(t, p, spent, k, AccountLimit)

Fits(t, p, spent, s) ==
    ~OverCost(t, p, spent) /\ ~OverTotal(t, p, spent, s) /\ ~OverAccount(t, p, spent)

(* The limit on all account data comes before the one of the block, and    *)
(* alone makes a transaction give up.                                      *)
GivesUp(t, p, spent, s) == ~OverCost(t, p, spent) /\ OverTotal(t, p, spent, s)

(* select_transactions_per_cost: try_add takes the transactions of a batch *)
(* in order, e of them fit, and x give up.                                 *)
Selected(e, x, b, spent, s) ==
    /\ \A t \in e : Fits(t, e \ {t}, spent, s)
    /\ \A t \in x : \E p \in SUBSET e : GivesUp(t, p, spent, s)
    /\ \A t \in b \ (e \cup x) : \E p \in SUBSET e :
          ~Fits(t, p, spent, s) /\ ~GivesUp(t, p, spent, s)

(* A reservation is given back only for what was committed. *)
Settled_KeepsRefused(spent, reserved, kept) ==
    [d \in DOMAIN spent |->
        spent[d] - Total(Estimate, kept, d) + Total(Actual, kept, d)]

(* update_execution_cost and remove, with saturating_sub. *)
Settled(spent, reserved, kept) ==
    [d \in DOMAIN spent |->
        LET gone == Total(Estimate, reserved, d)
            left == IF spent[d] > gone THEN spent[d] - gone ELSE 0
        IN  left + Total(Actual, kept, d)]

-----------------------------------------------------------------------------
(* Locks.  lock_account: what is written must be free, what is read must   *)
(* not be written.                                                         *)
Free(t, l) ==
    /\ \A k \in Writable[t] : k \notin l.write /\ l.read[k] = 0
    /\ \A k \in Readonly[t] : k \notin l.write

Readers(e, k) == Cardinality({t \in e : k \in Readonly[t]})

(* lock_accounts_inner goes through the batch in order under one mutex. *)
Lockable(e, wanted, l) ==
    /\ \A t \in e : Free(t, l)
    /\ Compatible(e)
    /\ \A t \in wanted \ e : ~Free(t, l) \/ ~Compatible(e \cup {t})

Lock(e, l) ==
    [write |-> l.write \cup UNION {Writable[t] : t \in e},
     read |-> [k \in Keys |-> l.read[k] + Readers(e, k)]]

Unlock(e, l) ==
    [write |-> l.write \ UNION {Writable[t] : t \in e},
     read |-> [k \in Keys |-> IF l.read[k] > Readers(e, k)
                              THEN l.read[k] - Readers(e, k) ELSE 0]]

-----------------------------------------------------------------------------
(* The steps of a thread. *)
At(th, l) == pc[th] = l

Goto(th, l) == pc' = [pc EXCEPT ![th] = l]

(* push: the buffer holds a message once, and when it is full the packet   *)
(* of the lowest weight goes.                                              *)
Lowest(b) == {t \in b : \A u \in b : Priority[t] <= Priority[u]}

Pushed(b, t) ==
    IF t \in b \/ Cardinality(b) # BufferLimit
    THEN {b \cup {t}}
    ELSE {(b \cup {t}) \ {u} : u \in Lowest(b \cup {t})}

(* receive_and_buffer_packets *)
Receive(th, t) ==
    /\ At(th, "idle")
    /\ t \in incoming[th]
    /\ incoming' = [incoming EXCEPT ![th] = @ \ {t}]
    /\ \E b \in Pushed(buffer[th], t) : buffer' = [buffer EXCEPT ![th] = b]
    /\ UNCHANGED <<pc, batchVars, execVars, bankVars>>

(* A batch from the buffer, while the recorder has a working bank, and the *)
(* cost it reserves.                                                       *)
SelectTransactions(th) ==
    /\ At(th, "idle")
    /\ \E s \in Slots, b \in SUBSET buffer[th] : \E e \in SUBSET b : \E x \in SUBSET (b \ e) :
          /\ phase[s] = "open"
          /\ b # {} /\ Cardinality(b) <= BatchSize
          /\ Selected(e, x, b, cost[s], s)
          /\ slot' = [slot EXCEPT ![th] = s]
          /\ batch' = [batch EXCEPT ![th] = b]
          /\ included' = [included EXCEPT ![th] = e]
          /\ refused' = [refused EXCEPT ![th] = x]
          /\ cost' = [cost EXCEPT ![s] =
                [d \in DOMAIN @ |-> @[d] + Total(Estimate, e, d)]]
    /\ Goto(th, "lock")
    /\ UNCHANGED <<queueVars, execVars, phase, locks, status, store, blocks>>

(* A thread waits for accounts in use instead of giving them up. *)
LockAccounts_Waits(th) ==
    LET e == included[th] IN
    /\ At(th, "lock")
    /\ \A t \in e : Free(t, locks[slot[th]])
    /\ Compatible(e)
    /\ locks' = [locks EXCEPT ![slot[th]] = Lock(e, @)]
    /\ locked' = [locked EXCEPT ![th] = e]
    /\ Goto(th, "check")
    /\ UNCHANGED <<queueVars, batchVars, executed, results, committed,
                   phase, status, store, cost, blocks>>

LockAccounts(th) ==
    /\ At(th, "lock")
    /\ \E e \in SUBSET included[th] :
          /\ Lockable(e, included[th], locks[slot[th]])
          /\ locks' = [locks EXCEPT ![slot[th]] = Lock(e, @)]
          /\ locked' = [locked EXCEPT ![th] = e]
    /\ Goto(th, "check")
    /\ UNCHANGED <<queueVars, batchVars, executed, results, committed,
                   phase, status, store, cost, blocks>>

(* last_blockhash: the last tick of a bank registers a new one. *)
Blockhash(s) == IF phase[s] = "open" THEN s - 1 ELSE s

(* check_transactions: what is too old, or has been processed, is not      *)
(* executed.                                                               *)
CheckTransactions(th) ==
    LET s == slot[th] IN
    /\ At(th, "check")
    /\ executed' = [executed EXCEPT ![th] =
            {t \in locked[th] \ AlreadyProcessed(s) : Age(t, Blockhash(s)) <= MaxAge}]
    /\ Goto(th, "load")
    /\ UNCHANGED <<queueVars, batchVars, locked, results, committed, bankVars>>

(* load_accounts and the execution of what loads; the blockhash that the   *)
(* commit will use is read before the freeze lock is taken.                *)
LoadAndExecute(th) ==
    LET s == slot[th]
        e == {t \in executed[th] : Loads(t, LoadedBy(t, store[s]))} IN
    /\ At(th, "load")
    /\ executed' = [executed EXCEPT ![th] = e]
    /\ results' = [results EXCEPT ![th] = Results(e, Blockhash(s), store[s])]
    /\ Goto(th, "freeze_lock")
    /\ UNCHANGED <<queueVars, batchVars, locked, committed, bankVars>>

(* freeze holds the lock for writing in one step, so a reader never waits. *)
FreezeLock(th) ==
    /\ At(th, "freeze_lock")
    /\ Goto(th, "record")
    /\ UNCHANGED <<queueVars, batchVars, execVars, bankVars>>

(* The slot of the working bank is not compared. *)
Recorded_AnySlot(th) == \E s \in Slots : phase[s] = "open"

(* The recorder answers MaxHeightReached when it has no working bank, or   *)
(* one of another slot.                                                    *)
Recorded(th) == phase[slot[th]] = "open"

(* record_transactions: what was executed, if anything, becomes an entry,  *)
(* or is refused.                                                          *)
RecordTransactions(th) ==
    /\ At(th, "record")
    /\ \/ /\ executed[th] = {} \/ ~Recorded(th)
          /\ Goto(th, "release")
          /\ UNCHANGED <<committed, blocks>>
       \/ /\ executed[th] # {} /\ Recorded(th)
          /\ Goto(th, "store")
          /\ committed' = [committed EXCEPT ![th] = executed[th]]
          /\ blocks' = [blocks EXCEPT ![slot[th]] = Append(@, executed[th])]
    /\ UNCHANGED <<queueVars, batchVars, locked, executed, results,
                   phase, locks, status, store, cost>>

(* commit_transactions: store_cached ... *)
StoreAccounts(th) ==
    /\ At(th, "store")
    /\ store' = [store EXCEPT ![slot[th]] = Stored(executed[th], results[th], @)]
    /\ Goto(th, "status")
    /\ UNCHANGED <<queueVars, batchVars, execVars, phase, locks, status, cost, blocks>>

(* ... and update_transaction_statuses. *)
UpdateStatuses(th) ==
    /\ At(th, "status")
    /\ status' = [status EXCEPT ![slot[th]] = @ \cup committed[th]]
    /\ Goto(th, "release")
    /\ UNCHANGED <<queueVars, batchVars, execVars, phase, locks, store, cost, blocks>>

ReleaseFreezeLock(th) ==
    /\ At(th, "release")
    /\ Goto(th, "unlock")
    /\ UNCHANGED <<queueVars, batchVars, execVars, bankVars>>

(* The transactions refused with AccountInUse are unlocked as well. *)
UnlockAccounts_Refused(th) ==
    /\ At(th, "unlock")
    /\ locks' = [locks EXCEPT ![slot[th]] = Unlock(included[th], @)]
    /\ Goto(th, "costs")
    /\ UNCHANGED <<queueVars, batchVars, execVars, phase, status, store, cost, blocks>>

(* The batch is dropped. *)
UnlockAccounts(th) ==
    /\ At(th, "unlock")
    /\ locks' = [locks EXCEPT ![slot[th]] = Unlock(locked[th], @)]
    /\ Goto(th, "costs")
    /\ UNCHANGED <<queueVars, batchVars, execVars, phase, status, store, cost, blocks>>

(* What was executed and not recorded is forgotten. *)
Retryable_OnlyUnlocked(th) == batch[th] \ (locked[th] \cup refused[th])

(* What a limit of the cost tracker or a lock kept out, and what the       *)
(* recorder refused.                                                       *)
Retryable(th) ==
    (batch[th] \ (locked[th] \cup refused[th])) \cup (executed[th] \ committed[th])

(* filter_pending_packets_from_pending_txs: those of them that have not    *)
(* been processed meanwhile and are young enough for another leader.       *)
Rebuffered(th) ==
    {t \in Retryable(th) \ AlreadyProcessed(slot[th]) :
        Age(t, Blockhash(slot[th])) <= RetryAge}

(* update_or_remove_transaction_costs; of the batch only the pending       *)
(* transactions stay in the buffer.                                        *)
SettleCosts(th) ==
    /\ At(th, "costs")
    /\ cost' = [cost EXCEPT ![slot[th]] = Settled(@, included[th], committed[th])]
    /\ buffer' = [buffer EXCEPT ![th] = (@ \ batch[th]) \cup Rebuffered(th)]
    /\ Goto(th, "idle")
    /\ slot' = [slot EXCEPT ![th] = 1]
    /\ batch' = [batch EXCEPT ![th] = {}]
    /\ included' = [included EXCEPT ![th] = {}]
    /\ refused' = [refused EXCEPT ![th] = {}]
    /\ locked' = [locked EXCEPT ![th] = {}]
    /\ executed' = [executed EXCEPT ![th] = {}]
    /\ results' = [results EXCEPT ![th] = <<>>]
    /\ committed' = [committed EXCEPT ![th] = {}]
    /\ UNCHANGED <<incoming, phase, locks, status, store, blocks>>

-----------------------------------------------------------------------------
(* The last tick of the slot: the bank registers it and the recorder lets  *)
(* go of the bank (flush_cache).  Earlier ticks change nothing modelled.   *)
LastTick(s) ==
    /\ phase[s] = "open"
    /\ phase' = [phase EXCEPT ![s] = "complete"]
    /\ UNCHANGED <<queueVars, pc, batchVars, execVars, locks, status, store, cost, blocks>>

(* The freeze lock is dropped once the transactions are recorded. *)
HoldsFreezeLock_RecordOnly(th, s) ==
    /\ slot[th] = s
    /\ pc[th] = "record"

HoldsFreezeLock(th, s) ==
    /\ slot[th] = s
    /\ pc[th] \in {"record", "store", "status", "release"}

(* The replay stage finds the bank complete.  freeze() waits for the       *)
(* write side of the freeze lock.                                          *)
Freeze(s) ==
    /\ phase[s] = "complete"
    /\ \A th \in Threads : ~HoldsFreezeLock(th, s)
    /\ phase' = [phase EXCEPT ![s] = "frozen"]
    /\ UNCHANGED <<queueVars, pc, batchVars, execVars, locks, status, store, cost, blocks>>

(* maybe_start_leader: a child of the frozen bank becomes the working bank *)
(* of the recorder.                                                        *)
StartLeader(s) ==
    /\ phase[s] = "frozen"
    /\ s + 1 \in Slots
    /\ phase[s + 1] = "unborn"
    /\ phase' = [phase EXCEPT ![s + 1] = "open"]
    /\ store' = [store EXCEPT ![s + 1] = store[s]]
    /\ UNCHANGED <<queueVars, pc, batchVars, execVars, locks, status, cost, blocks>>

-----------------------------------------------------------------------------
ThreadStep(th) ==
    \/ SelectTransactions(th) \/ LockAccounts(th) \/ CheckTransactions(th)
    \/ LoadAndExecute(th) \/ FreezeLock(th) \/ RecordTransactions(th)
    \/ StoreAccounts(th) \/ UpdateStatuses(th) \/ ReleaseFreezeLock(th)
    \/ UnlockAccounts(th) \/ SettleCosts(th)

SlotStep == \E s \in Slots : LastTick(s) \/ Freeze(s) \/ StartLeader(s)

Next ==
    \/ \E th \in Threads : ThreadStep(th)
    \/ \E th \in Threads, t \in Txs : Receive(th, t)
    \/ SlotStep

(* A thread never stops in the middle of a batch, PoH never stops ticking, *)
(* and the replay stage freezes the bank it finds complete and starts the  *)
(* next.  At most one of the three steps on slots is possible at a time,   *)
(* and every step of a thread moves its pc.                                *)
Fairness ==
    /\ \A th \in Threads : WF_pc(ThreadStep(th))
    /\ WF_phase(SlotStep)

Spec == Init /\ [][Next]_vars

FairSpec == Spec /\ Fairness

-----------------------------------------------------------------------------
(* What the leader's blocks promise.  Current is the newest bank.  An      *)
(* entry takes effect when it is recorded: the accounts of the ledger are  *)
(* those of the bank with the results of the batches that are recorded and *)
(* not yet stored.                                                         *)
Current == CHOOSE s \in Slots : /\ phase[s] # "unborn"
                                /\ \A r \in Slots : r > s => phase[r] = "unborn"

Writes(th, k) ==
    /\ At(th, "store")
    /\ slot[th] = Current
    /\ \E t \in executed[th] : k \in Writable[t]

RecordedState ==
    [k \in Keys |->
        IF \E th \in Threads : Writes(th, k)
        THEN LET w == CHOOSE th \in Threads : Writes(th, k)
             IN  Stored(executed[w], results[w], store[Current])[k]
        ELSE store[Current][k]]

Ledger == INSTANCE BlockLedger WITH slot <- Current,
                                    open <- phase[Current] = "open",
                                    state <- RecordedState

(* The blocks the leader records replay: whatever the interleaving of the  *)
(* banking threads, the recorder and the replay stage, every recorded      *)
(* entry is one that a validator executing the entries one after the other *)
(* accepts, with the accounts and the blockhash it was executed with here, *)
(* no transaction is recorded twice in the chain, and the next bank starts *)
(* from all of the block and nothing else.                                 *)
BlocksReplay == Ledger!LedgerSpec

EntriesOf(s) == UNION {blocks[s][i] : i \in 1 .. Len(blocks[s])}

(* A frozen bank is final (the assertions of commit_transactions and       *)
(* register_tick, and the comment of freeze): its accounts, statuses and   *)
(* entries no longer change, and every transaction recorded in its slot    *)
(* was noted as processed before the freeze.                               *)
FrozenIsFinal ==
    [][\A s \in Slots : phase[s] = "frozen" =>
          /\ store'[s] = store[s]
          /\ status'[s] = status[s]
          /\ blocks'[s] = blocks[s]
          /\ status[s] = EntriesOf(s)]_vars

HoldsLocks(th, s) ==
    /\ slot[th] = s
    /\ pc[th] \notin {"idle", "lock", "costs"}

(* The transactions whose accounts a bank has locked, with their threads. *)
Holders(s) == {h \in Threads \X Txs : HoldsLocks(h[1], s) /\ h[2] \in locked[h[1]]}

(* The lock table of a bank is exactly what the batches in flight hold     *)
(* (lock_accounts, unlock_accounts): a refused transaction leaves the      *)
(* locks of others alone, nothing stays locked, and no two batches hold    *)
(* conflicting transactions.                                               *)
LocksHeld ==
    \A s \in Slots :
        /\ locks[s].write = UNION {Writable[h[2]] : h \in Holders(s)}
        /\ \A k \in Keys :
              locks[s].read[k] = Cardinality({h \in Holders(s) : k \in Readonly[h[2]]})
        /\ \A g, h \in Holders(s) : g # h => ~Conflict(g[2], h[2])

(* The cost tracker is exact (update_or_remove_transaction_costs): it      *)
(* holds the actual cost of what the block contains and the reservations   *)
(* of the batches in flight, so that a refused, unrecorded or repeated     *)
(* transaction never eats into the limits of the block.                    *)
CostExact ==
    \A s \in Slots, d \in Tracked :
        LET busy == {th \in Threads : slot[th] = s /\ ~At(th, "idle")}
            unsettled == UNION {committed[th] : th \in busy}
        IN  cost[s][d] = Total(Actual, EntriesOf(s) \ unsettled, d)
              + SumFunctionOnSet([th \in Threads |-> Total(Estimate, included[th], d)], busy)

(* A transaction leaves the buffer of its thread only when the chain holds *)
(* it, when its accounts were locked and it was too old or did not load,   *)
(* when no account data is left for it, when it is too old for a retry, or *)
(* when the buffer is full of packets of no lower priority.  Neither a     *)
(* refused lock, nor a full block, nor the end of the slot between         *)
(* execution and recording loses it (retryable_transaction_indexes).       *)
NoTransactionLost ==
    [][\A th \in Threads : \A t \in buffer[th] \ buffer'[th] :
          \/ \E s \in Slots : t \in EntriesOf(s)
          \/ t \in locked[th] \ executed[th]
          \/ t \in refused[th]
          \/ Age(t, Blockhash(slot[th])) > RetryAge
          \/ /\ Cardinality(buffer[th]) = BufferLimit
             /\ \A u \in buffer'[th] : Priority[t] <= Priority[u]]_vars

(* Every slot comes to its end: once its bank is the working bank, it is   *)
(* eventually frozen with no thread left in a batch of it.                 *)
SlotEnds ==
    \A s \in Slots :
        phase[s] = "open" ~>
            /\ phase[s] = "frozen"
            /\ \A th \in Threads : slot[th] = s => At(th, "idle")

=============================================================================
