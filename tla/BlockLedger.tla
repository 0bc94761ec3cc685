---------------------------- MODULE BlockLedger ----------------------------
(***************************************************************************)
(* What a leader promises the validators that replay its blocks.  A block  *)
(* is a sequence of entries.  An entry is a set of transactions that take  *)
(* no account lock from each other, none of which the chain has processed  *)
(* before or is too old, and all of which load from the accounts as the    *)
(* entries before them left them; its transactions are executed together   *)
(* on that state, with the blockhash of the parent block.  This is how a validator        *)
(* executes the entries of a block it receives                             *)
(* (load_execute_and_commit_transactions), one entry after the other.      *)
(***************************************************************************)
EXTENDS Entries, Sequences

VARIABLES slot,     \* the block being produced
          open,     \* may entries still be appended to it?
          blocks,   \* the entries of every block
          state     \* the accounts after the entries so far

ledgerVars == <<slot, open, blocks, state>>

Processed == UNION {UNION {blocks[s][i] : i \in 1 .. Len(blocks[s])} : s \in Slots}

LedgerInit ==
    /\ slot = 1
    /\ open = TRUE
    /\ blocks = [s \in Slots |-> <<>>]
    /\ state = GenesisStore

(* An entry that replays is appended, and its transactions take effect. *)
AppendEntry(e) ==
    /\ open
    /\ e # {}
    /\ Compatible(e)
    /\ e \cap Processed = {}
    /\ \A t \in e : Age(t, slot - 1) <= MaxAge
    /\ \A t \in e : Loads(t, LoadedBy(t, state))
    /\ blocks' = [blocks EXCEPT ![slot] = Append(@, e)]
    /\ state' = Stored(e, Results(e, slot - 1, state), state)
    /\ UNCHANGED <<slot, open>>

Seal ==
    /\ open
    /\ open' = FALSE
    /\ UNCHANGED <<slot, blocks, state>>

(* The next block continues from the accounts this one left. *)
NextBlock ==
    /\ ~open
    /\ slot < LastSlot
    /\ slot' = slot + 1
    /\ open' = TRUE
    /\ UNCHANGED <<blocks, state>>

LedgerNext ==
    \/ \E e \in SUBSET Txs : AppendEntry(e)
    \/ Seal
    \/ NextBlock

LedgerSpec == LedgerInit /\ [][LedgerNext]_ledgerVars

=============================================================================
