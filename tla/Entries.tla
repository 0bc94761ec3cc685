------------------------------ MODULE Entries ------------------------------
(***************************************************************************)
(* The vocabulary of blocks: transactions, the accounts they lock, what    *)
(* they do to the accounts they load, and the entries they are recorded    *)
(* in.  The accounts' contents stay uninterpreted: Outcome stands for      *)
(* whatever the programs of a transaction compute.                         *)
(***************************************************************************)
EXTENDS Naturals

CONSTANTS LastSlot,         \* slots 1..LastSlot are led (bound)
          Txs,              \* transactions
          Keys,             \* accounts
          Writable,         \* the accounts a transaction locks for writing
          Readonly,         \* the accounts it locks for reading
          GenesisStore,     \* the accounts before the first block
          GenesisAge,       \* of a transaction's blockhash at that time
          MaxAge,           \* MAX_PROCESSING_AGE
          Loads(_, _),      \* does the transaction load from these accounts?
          Outcome(_, _, _)  \* its accounts after it, from those before it
                            \* and the last blockhash

ASSUME LedgerAssumption ==
    /\ LastSlot \in Nat \ {0}
    /\ Writable \in [Txs -> SUBSET Keys]
    /\ Readonly \in [Txs -> SUBSET Keys]
    /\ \A t \in Txs : /\ Writable[t] # {}   \* the fee payer
                      /\ Writable[t] \cap Readonly[t] = {}
    /\ GenesisStore = [k \in Keys |-> GenesisStore[k]]
    /\ GenesisAge \in [Txs -> Nat] /\ MaxAge \in Nat

Slots == 1 .. LastSlot

(* get_account_locks: a key is locked either for writing or for reading. *)
AccountKeys(t) == Writable[t] \cup Readonly[t]

(* lock_account: two transactions of which one writes what the other uses. *)
Conflict(t, u) ==
    \/ Writable[t] \cap AccountKeys(u) # {}
    \/ Writable[u] \cap AccountKeys(t) # {}

Compatible(e) == \A t, u \in e : t # u => ~Conflict(t, u)

(* check_transaction_age counts the blockhashes registered since that of   *)
(* the transaction; h of them are of the chain modelled.                   *)
Age(t, h) == GenesisAge[t] + h

(* load_accounts: the accounts a transaction names. *)
LoadedBy(t, store) == [k \in AccountKeys(t) |-> store[k]]

(* store_cached: the accounts the transactions of an entry wrote replace   *)
(* those of the store.  results gives, for every transaction of the entry, *)
(* the accounts after it.                                                  *)
Stored(e, results, store) ==
    [k \in Keys |-> IF \E t \in e : k \in Writable[t]
                    THEN results[CHOOSE t \in e : k \in Writable[t]][k]
                    ELSE store[k]]

Results(e, blockhash, store) ==
    [t \in e |-> Outcome(t, blockhash, LoadedBy(t, store))]

============================================================================
