----------------------------- MODULE BankForks -----------------------------
(***************************************************************************)
(* The forks a validator keeps, and the status cache its banks share       *)
(* (runtime/src/bank_forks.rs, status_cache.rs, blockhash_queue.rs and the *)
(* parts of bank.rs and replay_stage.rs that change them).                 *)
(*                                                                         *)
(* A bank is made on a frozen parent for a later slot, executes            *)
(* transactions, and freezes at its last tick, which registers its         *)
(* blockhash.  A vote may root a frozen bank: its whole path becomes roots *)
(* of the status cache, the oldest roots and their statuses are purged,    *)
(* and the banks that do not descend from it are pruned.  A slot whose     *)
(* cluster-confirmed version differs from ours is purged with its          *)
(* descendants and replayed from the other version.                        *)
(*                                                                         *)
(* What all this must keep true is that a transaction executes at most     *)
(* once on every fork although no bank knows its whole history: a bank     *)
(* looks the transaction up among its ancestors since the root it was made *)
(* under and among the roots still cached, and beyond that it relies on    *)
(* the age of the transaction's blockhash.                                 *)
(***************************************************************************)
EXTENDS Integers, FiniteSets, FiniteSetsExt, Functions

CONSTANTS
    Txs,                    \* transactions (a message and its signature)
    MAX_RECENT_BLOCKHASHES, \* 300: kept blockhashes, cached roots
    MAX_PROCESSING_AGE,     \* 150: blockhashes a transaction may name
    LastSlot,               \* bound on the slots
    MaxVersion,             \* bound on the versions of a slot
    None

\* clock.rs makes MAX_PROCESSING_AGE half of MAX_RECENT_BLOCKHASHES; this is
\* the weakest relation under which the properties below hold.
ASSUME ForksAssumption ==
    /\ MAX_RECENT_BLOCKHASHES \in Nat
    /\ MAX_PROCESSING_AGE \in Nat
    /\ MAX_PROCESSING_AGE <= MAX_RECENT_BLOCKHASHES
    /\ LastSlot \in Nat
    /\ MaxVersion \in Nat

VARIABLES
    bank,     \* slot -> bank, for every bank made and not purged; `lineage' is
              \* the whole history of its fork, of which `ancestors' is what
              \* the bank itself remembers
    forks,    \* BankForks::banks: the slots whose banks are still kept
    root,     \* BankForks::root
    roots,    \* StatusCache::roots
    cache,    \* StatusCache::cache: blockhash -> highest slot and statuses
    deltas,   \* StatusCache::slot_deltas: the statuses noted, by slot
    version,  \* slot -> how often the slot has been purged
    recent    \* transaction -> the blockhash it names, None before it is signed

forkVars == <<bank, forks, root, roots, cache, deltas, version, recent>>

Slots == 0 .. LastSlot

Outcomes == {"ok", "err"}

\* The blockhash the bank of a slot registers: another version of the slot is
\* another block, with another hash.
LastHash(s) == <<s, version[s]>>

(***************************************************************************)
(* Blockhash queue                                                         *)
(***************************************************************************)

\* is_hash_valid_for_age
IsHashValidForAge(s, h, age) ==
    /\ h \in DOMAIN bank[s].ages
    /\ bank[s].last_hash_index - bank[s].ages[h] <= age

\* is_blockhash_valid: register_hash drops the hashes older than max_age.
IsBlockhashValid(s, h) == IsHashValidForAge(s, h, MAX_RECENT_BLOCKHASHES)

\* register_hash
RegisterHash(b, h) ==
    [b EXCEPT !.last_hash_index = @ + 1,
              !.ages = [k \in DOMAIN @ \cup {h} |->
                           IF k = h THEN b.last_hash_index + 1 ELSE @[k]]]

\* get_blockhash_last_valid_block_height(..).unwrap_or(0)
LastValidBlockHeight(s, h) ==
    IF IsBlockhashValid(s, h)
    THEN bank[s].block_height + MAX_RECENT_BLOCKHASHES
             - (bank[s].last_hash_index - bank[s].ages[h])
    ELSE 0

(***************************************************************************)
(* Status cache                                                            *)
(***************************************************************************)

\* The status of t under slot f is stored under the blockhash t names.
Cached(t, f) ==
    /\ recent[t] \in DOMAIN cache
    /\ <<t, f>> \in cache[recent[t]].keys

\* get_status: the slots, among the bank's ancestors and the cached roots,
\* under which the transaction's status is found.
Status(s, t) == {f \in bank[s].ancestors \cup roots : Cached(t, f)}

\* insert: note the status under the blockhash and in the slot's delta.
Insert(h, t, s) ==
    LET old == IF h \in DOMAIN cache THEN cache[h]
                                     ELSE [fork |-> s, keys |-> {}]
        new == [fork |-> IF s > old.fork THEN s ELSE old.fork,
                keys |-> old.keys \cup {<<t, s>>}]
    IN  /\ cache' = [k \in DOMAIN cache \cup {h} |-> IF k = h THEN new
                                                              ELSE cache[k]]
        /\ deltas' = deltas \cup {<<t, s>>}

\* The roots that remain of R: never more than MAX_CACHE_ENTRIES.
Newest(R) ==
    {r \in R : Cardinality({q \in R : q >= r}) <= MAX_RECENT_BLOCKHASHES}

\* Variant: the deltas of the purged roots stay.
AddRoots_KeepsDeltas(R) ==
    LET kept == Newest(roots \cup R)
        gone == (roots \cup R) \ kept
    IN  /\ roots' = kept
        /\ cache' = Restrict(cache, {h \in DOMAIN cache :
                                       \A r \in gone : cache[h].fork > r})
        /\ deltas' = deltas

\* add_root for each slot of R.  Every addition beyond MAX_CACHE_ENTRIES
\* removes the lowest root and what was noted up to it, so the newest remain.
AddRoots(R) ==
    LET kept == Newest(roots \cup R)
        gone == (roots \cup R) \ kept
    IN  /\ roots' = kept
        /\ cache' = Restrict(cache, {h \in DOMAIN cache :
                                       \A r \in gone : cache[h].fork > r})
        /\ deltas' = {d \in deltas : \A r \in gone : d[2] > r}

\* Variant: only the delta of the slot is removed.
ClearSlotEntries_DeltaOnly(S) ==
    /\ cache' = cache
    /\ deltas' = {d \in deltas : d[2] \notin S}

\* clear_slot_entries for each slot of S.
ClearSlotEntries(S) ==
    LET left(h) == {k \in cache[h].keys : ~(k[2] \in S /\ k \in deltas)}
    IN  /\ cache' = [h \in {g \in DOMAIN cache : left(g) # {}} |->
                        [cache[h] EXCEPT !.keys = left(h)]]
        /\ deltas' = {d \in deltas : d[2] \notin S}

(***************************************************************************)
(* Banks                                                                   *)
(***************************************************************************)

Descendants(s) == {f \in forks : f # s /\ s \in bank[f].lineage}

\* Bank::parents stops at the bank whose parent `squash' has dropped.
ParentsInclusive(s) == {a \in bank[s].lineage : a >= root}

\* generate_new_bank_forks, maybe_start_leader: Bank::new_from_parent
NewBank(p, s) ==
    /\ p \in forks
    /\ bank[p].frozen
    /\ p >= root
    /\ s > p
    /\ s \notin DOMAIN bank
    /\ bank' = [f \in DOMAIN bank \cup {s} |->
                  IF f = s
                  THEN [lineage |-> bank[p].lineage \cup {s},
                        ancestors |-> ParentsInclusive(p) \cup {s},
                        block_height |-> bank[p].block_height + 1,
                        last_hash_index |-> bank[p].last_hash_index,
                        ages |-> bank[p].ages,
                        frozen |-> FALSE,
                        done |-> {},
                        failed |-> {}]
                  ELSE bank[f]]
    /\ forks' = forks \cup {s}
    /\ UNCHANGED <<root, roots, cache, deltas, version, recent>>

\* Variant: a status found under an unrooted ancestor is overlooked.
CheckTransaction_RootsOnly(s, t) ==
    /\ recent[t] # None
    /\ IsHashValidForAge(s, recent[t], MAX_PROCESSING_AGE)
    /\ Status(s, t) \cap roots = {}

\* check_transactions: check_age, then check_status_cache
CheckTransaction(s, t) ==
    /\ recent[t] # None
    /\ IsHashValidForAge(s, recent[t], MAX_PROCESSING_AGE)
    /\ Status(s, t) = {}

\* What commit_transactions notes of an execution with outcome o
Execute(s, t, o) ==
    /\ s \in DOMAIN bank
    /\ ~bank[s].frozen
    /\ CheckTransaction(s, t)
    /\ bank' = [bank EXCEPT ![s].done = @ \cup {t},
                            ![s].failed = IF o = "err" THEN @ \cup {t} ELSE @]
    /\ Insert(recent[t], t, s)
    /\ UNCHANGED <<forks, root, roots, version, recent>>

\* The last tick registers the blockhash; the bank is complete and freezes.
Freeze(s) ==
    /\ s \in forks
    /\ ~bank[s].frozen
    /\ bank' = [bank EXCEPT ![s] = [RegisterHash(@, LastHash(s))
                                       EXCEPT !.frozen = TRUE]]
    /\ UNCHANGED <<forks, root, roots, cache, deltas, version, recent>>

\* BankForks::set_root: squash, then prune_non_rooted
SetRoot(r) ==
    /\ r \in forks
    /\ r > root
    /\ bank[r].frozen
    /\ root' = r
    /\ AddRoots(ParentsInclusive(r))
    /\ forks' = {r} \cup Descendants(r)
    /\ UNCHANGED <<bank, version, recent>>

\* purge_unconfirmed_duplicate_slot
PurgeSlot(d) ==
    /\ d \in forks
    /\ d > root
    /\ version[d] < MaxVersion
    /\ LET purged == {d} \cup Descendants(d)
       IN  /\ forks' = forks \ purged
           /\ bank' = Restrict(bank, DOMAIN bank \ purged)
           /\ ClearSlotEntries(purged)
           /\ version' = [s \in Slots |-> IF s \in purged THEN version[s] + 1
                                                          ELSE version[s]]
    /\ UNCHANGED <<root, roots, recent>>

\* A client signs a transaction with the last blockhash of a frozen bank.
Sign(t, s) ==
    /\ recent[t] = None
    /\ bank[s].frozen
    /\ recent' = [recent EXCEPT ![t] = LastHash(s)]
    /\ UNCHANGED <<bank, forks, root, roots, cache, deltas, version>>

ForksInit ==
    /\ version = [s \in Slots |-> 0]
    /\ bank = [s \in {0} |->
                 [lineage |-> {0}, ancestors |-> {0}, block_height |-> 0,
                  last_hash_index |-> 1, ages |-> [h \in {<<0, 0>>} |-> 1],
                  frozen |-> TRUE, done |-> {}, failed |-> {}]]
    /\ forks = {0}
    /\ root = 0
    /\ roots = {0}
    /\ cache = [h \in {} |-> None]
    /\ deltas = {}
    /\ recent = [t \in Txs |-> None]

ForksNext ==
    \/ \E p \in forks, s \in Slots : NewBank(p, s)
    \/ \E s \in DOMAIN bank, t \in Txs, o \in Outcomes : Execute(s, t, o)
    \/ \E s \in forks : Freeze(s)
    \/ \E s \in forks : SetRoot(s)
    \/ \E s \in forks : PurgeSlot(s)
    \/ \E s \in forks, t \in Txs : Sign(t, s)

ForksSpec == ForksInit /\ [][ForksNext]_forkVars

(***************************************************************************)
(* Properties                                                              *)
(***************************************************************************)

\* The slots of a bank's own history in which the transaction executed.
ExecutedIn(s, t) == {a \in bank[s].lineage : t \in bank[a].done}

\* A transaction executes at most once on every fork the validator keeps
\* (check_transactions): neither the purge of old roots, nor ancestors cut at
\* the root, nor the replay of another version of a slot lets it in again.
ProcessedOnce ==
    \A s \in forks, t \in Txs :
        \A a, b \in ExecutedIn(s, t) : a = b

\* While a transaction's blockhash is recent enough for a bank to execute it,
\* the bank finds exactly what happened to it on its own fork (get_status):
\* it is never refused for an execution on another fork or in a purged slot.
LookupExact ==
    \A s \in forks, t \in Txs :
        /\ ~bank[s].frozen
        /\ recent[t] # None
        /\ IsHashValidForAge(s, recent[t], MAX_PROCESSING_AGE)
        => Status(s, t) = ExecutedIn(s, t)

\* Every status noted in a slot's delta is in the cache, so clearing the slot
\* never meets a missing map (clear_slot_entries panics if one is missing).
DeltasCached == \A d \in deltas : Cached(d[1], d[2])

=============================================================================
