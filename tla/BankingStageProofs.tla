------------------------- MODULE BankingStageProofs -------------------------
(***************************************************************************)
(* The blocks of the banking stage replay, for any number of threads,      *)
(* transactions, accounts and slots, and whatever the transactions         *)
(* compute.                                                                *)
(*                                                                         *)
(* The first part is what is always true of the stage and why each step    *)
(* keeps it so: banks follow each other, batches in flight hold their      *)
(* locks, what is recorded gets noted, and what was checked stays fresh.   *)
(* The second is the refinement of the ledger of Entries.  The last is the *)
(* cost tracker: its totals are the sums they stand for, and a transaction *)
(* that leaves the buffers is in a block or may be given up.               *)
(***************************************************************************)
EXTENDS BankingStage, SumTheorems

PCs == {"idle", "lock", "check", "load", "freeze_lock", "record", "store",
        "status", "release", "unlock", "costs"}

TypeInv ==
    /\ buffer \in [Threads -> SUBSET Txs]
    /\ pc \in [Threads -> PCs]
    /\ slot \in [Threads -> Slots]
    /\ batch \in [Threads -> SUBSET Txs]
    /\ included \in [Threads -> SUBSET Txs]
    /\ locked \in [Threads -> SUBSET Txs]
    /\ executed \in [Threads -> SUBSET Txs]
    /\ committed \in [Threads -> SUBSET Txs]
    /\ DOMAIN results = Threads
    /\ phase \in [Slots -> {"unborn", "open", "complete", "frozen"}]
    /\ locks \in [Slots -> [write : SUBSET Keys, read : [Keys -> Nat]]]
    /\ status \in [Slots -> SUBSET Txs]
    /\ DOMAIN store = Slots
    /\ blocks \in [Slots -> Seq(SUBSET Txs)]

(* Banks are born one after the other, each from a frozen parent. *)
Newest(c) ==
    /\ phase[c] # "unborn"
    /\ \A r \in Slots : (r > c => phase[r] = "unborn") /\ (r < c => phase[r] = "frozen")

Chain == \E c \in Slots : Newest(c)

(* What is known of a batch at every step of its thread. *)
Stages ==
    \A th \in Threads :
        /\ locked[th] \subseteq included[th]
        /\ executed[th] \subseteq locked[th]
        /\ Compatible(locked[th])
        /\ pc[th] \in {"idle", "lock"} => locked[th] = {} /\ executed[th] = {}
        /\ At(th, "idle") \/ phase[slot[th]] # "unborn"
        /\ pc[th] \in {"store", "status"} =>
              /\ phase[slot[th]] \in {"open", "complete"}
              /\ committed[th] = executed[th]

(* What a bank has recorded it has noted as processed, or is about to. *)
Pending(s) == {th \in Threads : slot[th] = s /\ pc[th] \in {"store", "status"}}

Noted ==
    \A s \in Slots :
        /\ EntriesOf(s) = status[s] \cup UNION {executed[th] : th \in Pending(s)}
        /\ phase[s] = "unborn" => status[s] = {}

(* As long as the bank is open, a batch that passed the check contains no  *)
(* processed transaction ...                                               *)
Fresh ==
    \A th \in Threads, s \in Slots :
        /\ pc[th] \in {"load", "freeze_lock", "record"}
        /\ phase[slot[th]] = "open"
        => executed[th] \cap EntriesOf(s) = {}

(* ... and what it has computed is what the recorded entries make of it. *)
UpToDate ==
    \A th \in Threads :
        /\ pc[th] \in {"freeze_lock", "record"}
        /\ phase[slot[th]] = "open"
        => /\ \A t \in executed[th] : Loads(t, LoadedBy(t, RecordedState))
           /\ results[th] = Results(executed[th], slot[th] - 1, RecordedState)

(* What is executed is not too old for the block. *)
Young == \A th \in Threads : \A t \in executed[th] : Age(t, slot[th] - 1) <= MaxAge

IInv == TypeInv /\ Chain /\ Stages /\ LocksHeld /\ Noted /\ Fresh /\ UpToDate /\ Young

-----------------------------------------------------------------------------
USE DEF Slots, At, Goto

(* Slots are numbers, from 1. *)
LEMMA SlotsAreNaturals == Slots \subseteq Nat /\ 1 \in Slots
  BY LedgerAssumption

(* Locking and unlocking make a lock table of a lock table. *)
LEMMA LockType ==
    ASSUME NEW e \in SUBSET Txs, NEW l \in [write : SUBSET Keys, read : [Keys -> Nat]]
    PROVE  /\ Lock(e, l) \in [write : SUBSET Keys, read : [Keys -> Nat]]
           /\ Unlock(e, l) \in [write : SUBSET Keys, read : [Keys -> Nat]]
<1>1. \A k \in Keys : Readers(e, k) \in Nat
  <2> TAKE k \in Keys
  <2>1. IsFiniteSet({t \in e : k \in Readonly[t]})
    BY StageAssumption, FS_Subset, Zenon
  <2> QED
    BY <2>1, FS_CardinalityType, Zenon DEF Readers
<1>2. UNION {Writable[t] : t \in e} \subseteq Keys
  BY LedgerAssumption
<1> QED
  BY <1>1, <1>2 DEF Lock, Unlock

(* Every step keeps the types. *)
LEMMA TypePreserved == TypeInv /\ [Next]_vars => TypeInv'
<1> SUFFICES ASSUME TypeInv, [Next]_vars PROVE TypeInv'
  BY Zenon
<1> USE DEF TypeInv, PCs, queueVars, batchVars, execVars, bankVars
<1>1. ASSUME NEW th \in Threads, NEW t \in Txs, Receive(th, t) PROVE TypeInv'
  <2>1. PICK b \in Pushed(buffer[th], t) : buffer' = [buffer EXCEPT ![th] = b]
    BY <1>1, Zenon DEF Receive
  <2>2. b \in SUBSET Txs
    BY <2>1 DEF Pushed
  <2> QED
    BY <1>1, <2>1, <2>2, Zenon DEF Receive
<1>2. ASSUME NEW th \in Threads, SelectTransactions(th) PROVE TypeInv'
  <2>1. PICK s \in Slots, b \in SUBSET buffer[th] : \E e \in SUBSET b :
            /\ slot' = [slot EXCEPT ![th] = s]
            /\ batch' = [batch EXCEPT ![th] = b]
            /\ included' = [included EXCEPT ![th] = e]
    BY <1>2, Zenon DEF SelectTransactions
  <2>2. PICK e \in SUBSET Txs : included' = [included EXCEPT ![th] = e]
    BY <2>1, Zenon
  <2>3. b \in SUBSET Txs
    BY Zenon
  <2>4. /\ pc' = [pc EXCEPT ![th] = "lock"]
        /\ UNCHANGED <<buffer, locked, executed, committed, results, phase, locks, status,
                       store, blocks>>
    BY <1>2, Zenon DEF SelectTransactions
  <2> QED
    BY <2>1, <2>2, <2>3, <2>4, SMTT(30)
<1>3. ASSUME NEW th \in Threads, LockAccounts(th) PROVE TypeInv'
  <2>1. PICK e \in SUBSET included[th] :
            /\ locks' = [locks EXCEPT ![slot[th]] = Lock(e, @)]
            /\ locked' = [locked EXCEPT ![th] = e]
    BY <1>3, Zenon DEF LockAccounts
  <2>2. Lock(e, locks[slot[th]]) \in [write : SUBSET Keys, read : [Keys -> Nat]]
    BY LockType, Zenon
  <2> QED
    BY <1>3, <2>1, <2>2, Zenon DEF LockAccounts
<1>4. ASSUME NEW th \in Threads, CheckTransactions(th) PROVE TypeInv'
  BY <1>4, Zenon DEF CheckTransactions
<1>5. ASSUME NEW th \in Threads, LoadAndExecute(th) PROVE TypeInv'
  BY <1>5, Zenon DEF LoadAndExecute
<1>6. ASSUME NEW th \in Threads, FreezeLock(th) PROVE TypeInv'
  BY <1>6, Zenon DEF FreezeLock
<1>7. ASSUME NEW th \in Threads, RecordTransactions(th) PROVE TypeInv'
  <2>1. CASE /\ Goto(th, "release")
             /\ UNCHANGED <<committed, blocks>>
    BY <1>7, <2>1, Zenon DEF RecordTransactions
  <2>2. CASE /\ Goto(th, "store")
             /\ committed' = [committed EXCEPT ![th] = executed[th]]
             /\ blocks' = [blocks EXCEPT ![slot[th]] = Append(@, executed[th])]
    <3>1. Append(blocks[slot[th]], executed[th]) \in Seq(SUBSET Txs)
      OBVIOUS
    <3>2. UNCHANGED <<buffer, slot, batch, included, locked, executed, results, phase,
                      locks, status, store>>
      BY <1>7, Zenon DEF RecordTransactions
    <3> QED
      BY <2>2, <3>1, <3>2, Zenon
  <2> QED
    BY <1>7, <2>1, <2>2, Zenon DEF RecordTransactions
<1>8. ASSUME NEW th \in Threads, StoreAccounts(th) PROVE TypeInv'
  BY <1>8, Zenon DEF StoreAccounts
<1>9. ASSUME NEW th \in Threads, UpdateStatuses(th) PROVE TypeInv'
  BY <1>9, Zenon DEF UpdateStatuses
<1>10. ASSUME NEW th \in Threads, ReleaseFreezeLock(th) PROVE TypeInv'
  BY <1>10, Zenon DEF ReleaseFreezeLock
<1>11. ASSUME NEW th \in Threads, UnlockAccounts(th) PROVE TypeInv'
  BY <1>11, LockType, Zenon DEF UnlockAccounts
<1>12. ASSUME NEW th \in Threads, SettleCosts(th) PROVE TypeInv'
  BY <1>12, SlotsAreNaturals DEF SettleCosts, Rebuffered, Retryable
<1>13. ASSUME NEW s \in Slots, LastTick(s) \/ Freeze(s) \/ StartLeader(s) PROVE TypeInv'
  <2>1. CASE LastTick(s) \/ Freeze(s)
    BY <2>1, Zenon DEF LastTick, Freeze
  <2>2. CASE StartLeader(s)
    BY <2>2, Zenon DEF StartLeader
  <2> QED
    BY <1>13, <2>1, <2>2, Zenon
<1>14. CASE UNCHANGED vars
  BY <1>14, Zenon DEF vars
<1> QED
  BY <1>1, <1>2, <1>3, <1>4, <1>5, <1>6, <1>7, <1>8, <1>9, <1>10, <1>11, <1>12, <1>13,
     <1>14, Zenon
     DEF Next, ThreadStep, SlotStep

-----------------------------------------------------------------------------
(* Facts about a state that satisfies the invariant. *)
LEMMA CurrentIsNewest ==
    ASSUME NEW c \in Slots, Newest(c)
    PROVE  Current = c
<1>1. \A r \in Slots :
          (phase[r] # "unborn" /\ \A q \in Slots : q > r => phase[q] = "unborn") => r = c
  BY SlotsAreNaturals DEF Newest
<1> QED
  BY <1>1, Zenon DEF Current, Newest

(* There is only one newest bank. *)
LEMMA NewestIsCurrent ==
    Chain => Current \in Slots /\ Newest(Current)
  BY CurrentIsNewest, Zenon DEF Chain

(* A batch that is recorded and not yet noted belongs to the newest bank. *)
LEMMA PendingIsCurrent ==
    TypeInv /\ Chain /\ Stages =>
        \A th \in Threads :
            (pc[th] \in {"store", "status"} \/ phase[slot[th]] = "open") => slot[th] = Current
<1> SUFFICES ASSUME TypeInv, Chain, Stages, NEW th \in Threads,
                    pc[th] \in {"store", "status"} \/ phase[slot[th]] = "open"
             PROVE  slot[th] = Current
  BY Zenon
<1>1. phase[slot[th]] \in {"open", "complete"}
  BY Zenon DEF Stages
<1>2. slot[th] \in Slots
  BY Zenon DEF TypeInv
<1> QED
  BY <1>1, <1>2, NewestIsCurrent, SlotsAreNaturals DEF Newest

(* Two threads, or two transactions, that hold locks of the same bank.     *)
LEMMA NoConflict ==
    TypeInv /\ LocksHeld =>
        \A a, b \in Threads : \A t \in locked[a], u \in locked[b] :
            /\ slot[a] = slot[b] /\ <<a, t>> # <<b, u>>
            /\ HoldsLocks(a, slot[a]) /\ HoldsLocks(b, slot[b])
            => ~Conflict(t, u)
<1> SUFFICES ASSUME TypeInv, LocksHeld, NEW a \in Threads, NEW b \in Threads,
                    NEW t \in locked[a], NEW u \in locked[b],
                    slot[a] = slot[b], <<a, t>> # <<b, u>>,
                    HoldsLocks(a, slot[a]), HoldsLocks(b, slot[b])
             PROVE  ~Conflict(t, u)
  BY Zenon
<1>1. slot[a] \in Slots /\ t \in Txs /\ u \in Txs
  BY Zenon DEF TypeInv
<1>2. <<a, t>> \in Holders(slot[a]) /\ <<b, u>> \in Holders(slot[a])
  BY <1>1, Zenon DEF Holders
<1>3. \A g, h \in Holders(slot[a]) : g # h => ~Conflict(g[2], h[2])
  BY <1>1, Zenon DEF LocksHeld
<1> QED
  BY <1>2, <1>3, Zenon

(* What a key holds after the transactions of an entry are stored. *)
LEMMA StoredAt ==
    ASSUME NEW e \in SUBSET Txs, Compatible(e), NEW r, NEW st, NEW k \in Keys
    PROVE  /\ \A t \in e : k \in Writable[t] => Stored(e, r, st)[k] = r[t][k]
           /\ (\A t \in e : k \notin Writable[t]) => Stored(e, r, st)[k] = st[k]
<1>1. ASSUME NEW t \in e, k \in Writable[t] PROVE Stored(e, r, st)[k] = r[t][k]
  <2> DEFINE u == CHOOSE u \in e : k \in Writable[u]
  <2>1. u \in e /\ k \in Writable[u]
    BY <1>1, Zenon
  <2>2. u = t
    BY <1>1, <2>1, Zenon DEF Compatible, Conflict, AccountKeys
  <2>3. Stored(e, r, st)[k] = r[u][k]
    BY <1>1, Zenon DEF Stored
  <2> QED
    BY <2>2, <2>3, Zenon
<1>2. ASSUME \A t \in e : k \notin Writable[t] PROVE Stored(e, r, st)[k] = st[k]
  BY <1>2, Zenon DEF Stored
<1> QED
  BY <1>1, <1>2, Zenon

(* What a key holds when the entries recorded so far have taken effect. *)
TakenEffect ==
    \A k \in Keys :
        /\ (\A th \in Threads : At(th, "store") => \A t \in executed[th] : k \notin Writable[t])
              => RecordedState[k] = store[Current][k]
        /\ \A th \in Threads : At(th, "store") =>
              \A t \in executed[th] : k \in Writable[t] => RecordedState[k] = results[th][t][k]

(* The locks in force make the recorded state readable off the store. *)
LEMMA RecordedStateAt == TypeInv /\ Chain /\ Stages /\ LocksHeld => TakenEffect
<1> SUFFICES ASSUME TypeInv, Chain, Stages, LocksHeld, NEW k \in Keys
             PROVE  /\ (\A th \in Threads : At(th, "store") => \A t \in executed[th] : k \notin Writable[t])
                          => RecordedState[k] = store[Current][k]
                    /\ \A th \in Threads : At(th, "store") =>
                          \A t \in executed[th] : k \in Writable[t] => RecordedState[k] = results[th][t][k]
  BY Zenon DEF TakenEffect
<1>1. ASSUME \A th \in Threads : At(th, "store") => \A t \in executed[th] : k \notin Writable[t]
      PROVE  RecordedState[k] = store[Current][k]
  BY <1>1, Zenon DEF RecordedState, Writes
<1>2. ASSUME NEW th \in Threads, At(th, "store"), NEW t \in executed[th], k \in Writable[t]
      PROVE  RecordedState[k] = results[th][t][k]
  <2>1. Writes(th, k)
    BY <1>2, PendingIsCurrent, Zenon DEF Writes
  <2> DEFINE w == CHOOSE w \in Threads : Writes(w, k)
  <2>2. w \in Threads /\ Writes(w, k)
    BY <2>1, Zenon
  <2>3. w = th
    <3>1. PICK u \in executed[w] : k \in Writable[u]
      BY <2>2, Zenon DEF Writes
    <3>2. t \in locked[th] /\ u \in locked[w] /\ t \in Txs /\ u \in Txs
      BY <1>2, <2>2, <3>1, Zenon DEF Stages, TypeInv
    <3>3. slot[w] = slot[th] /\ HoldsLocks(w, slot[w]) /\ HoldsLocks(th, slot[th])
      BY <2>1, <2>2, Zenon DEF Writes, HoldsLocks
    <3>4. Conflict(t, u)
      BY <1>2, <3>1, Zenon DEF Conflict, AccountKeys
    <3>5. <<th, t>> = <<w, u>>
      BY <2>2, <3>2, <3>3, <3>4, NoConflict, Zenon
    <3> QED
      BY <3>5, Zenon
  <2>4. RecordedState[k] = Stored(executed[w], results[w], store[Current])[k]
    BY <2>1, Zenon DEF RecordedState
  <2>5. Compatible(executed[th]) /\ executed[th] \in SUBSET Txs
    <3>1. Compatible(locked[th]) /\ executed[th] \subseteq locked[th]
      BY Zenon DEF Stages
    <3>2. executed[th] \in SUBSET Txs
      BY Zenon DEF TypeInv
    <3> QED
      BY <3>1, <3>2, Zenon DEF Compatible
  <2>6. \A u \in executed[th] : k \in Writable[u] =>
            Stored(executed[th], results[th], store[Current])[k] = results[th][u][k]
    BY <2>5, StoredAt
  <2> QED
    BY <1>2, <2>3, <2>4, <2>6, Zenon
<1> QED
  BY <1>1, <1>2, Zenon

-----------------------------------------------------------------------------
(* The conjuncts of the invariant, one after the other. *)
LEMMA ChainPreserved == TypeInv /\ Chain /\ [Next]_vars => Chain'
<1> SUFFICES ASSUME TypeInv, Chain, [Next]_vars PROVE Chain'
  BY Zenon
<1> USE SlotsAreNaturals DEF Chain, Newest
<1>1. PICK c \in Slots : Newest(c)
  BY Zenon
<1>2. CASE UNCHANGED phase
  BY <1>1, <1>2, Zenon
<1>3. ASSUME NEW s \in Slots, LastTick(s) PROVE Chain'
  <2>1. s = c
    BY <1>1, <1>3 DEF LastTick
  <2> QED
    BY <1>1, <1>3, <2>1, Zenon DEF LastTick, TypeInv
<1>4. ASSUME NEW s \in Slots, Freeze(s) PROVE Chain'
  <2>1. s = c
    BY <1>1, <1>4 DEF Freeze
  <2> QED
    BY <1>1, <1>4, <2>1, Zenon DEF Freeze, TypeInv
<1>5. ASSUME NEW s \in Slots, StartLeader(s) PROVE Chain'
  <2>1. s = c
    BY <1>1, <1>5 DEF StartLeader
  <2>2. Newest(s + 1)'
    BY <1>1, <1>5, <2>1 DEF StartLeader, TypeInv
  <2> QED
    BY <1>5, <2>2, Zenon DEF StartLeader
<1>6. (\E th \in Threads : ThreadStep(th)) \/ (\E th \in Threads, t \in Txs : Receive(th, t))
      \/ UNCHANGED vars => UNCHANGED phase
  BY Zenon DEF ThreadStep, Receive, SelectTransactions, LockAccounts, CheckTransactions,
         LoadAndExecute, FreezeLock, RecordTransactions, StoreAccounts, UpdateStatuses,
         ReleaseFreezeLock, UnlockAccounts, SettleCosts, vars, bankVars
<1> QED
  BY <1>2, <1>3, <1>4, <1>5, <1>6, Zenon DEF Next, SlotStep

(* A thread goes through the stages of a batch in order. *)
LEMMA StagesPreserved == TypeInv /\ Stages /\ [Next]_vars => Stages'
<1> SUFFICES ASSUME TypeInv, Stages, [Next]_vars PROVE Stages'
  BY Zenon
<1> USE DEF queueVars, batchVars, execVars, bankVars
<1>1. ASSUME NEW th \in Threads, NEW t \in Txs, Receive(th, t) PROVE Stages'
  BY <1>1, Zenon DEF Receive, Stages
<1>2. ASSUME NEW th \in Threads, SelectTransactions(th) PROVE Stages'
  <2>1. PICK s \in Slots, e \in SUBSET buffer[th] :
            /\ phase[s] = "open"
            /\ slot' = [slot EXCEPT ![th] = s]
            /\ included' = [included EXCEPT ![th] = e]
    BY <1>2, Zenon DEF SelectTransactions
  <2> QED
    BY <1>2, <2>1 DEF SelectTransactions, Stages, TypeInv
<1>3. ASSUME NEW th \in Threads, LockAccounts(th) PROVE Stages'
  <2>1. PICK e \in SUBSET included[th] :
            /\ Lockable(e, included[th], locks[slot[th]])
            /\ locked' = [locked EXCEPT ![th] = e]
    BY <1>3, Zenon DEF LockAccounts
  <2>2. Compatible(e)
    BY <2>1, Zenon DEF Lockable
  <2> QED
    BY <1>3, <2>1, <2>2, Zenon DEF LockAccounts, Stages, TypeInv
<1>4. ASSUME NEW th \in Threads, CheckTransactions(th) PROVE Stages'
  BY <1>4, Zenon DEF CheckTransactions, Stages, TypeInv
<1>5. ASSUME NEW th \in Threads, LoadAndExecute(th) PROVE Stages'
  BY <1>5, Zenon DEF LoadAndExecute, Stages, TypeInv
<1>6. ASSUME NEW th \in Threads, FreezeLock(th) PROVE Stages'
  BY <1>6, Zenon DEF FreezeLock, Stages, TypeInv
<1>7. ASSUME NEW th \in Threads, RecordTransactions(th) PROVE Stages'
  <2>1. CASE Goto(th, "release") /\ UNCHANGED <<committed, blocks>>
    BY <1>7, <2>1, Zenon DEF RecordTransactions, Stages, TypeInv
  <2>2. CASE /\ Recorded(th)
             /\ Goto(th, "store")
             /\ committed' = [committed EXCEPT ![th] = executed[th]]
    BY <1>7, <2>2, Zenon DEF RecordTransactions, Recorded, Stages, TypeInv
  <2> QED
    BY <1>7, <2>1, <2>2, Zenon DEF RecordTransactions
<1>8. ASSUME NEW th \in Threads, StoreAccounts(th) PROVE Stages'
  BY <1>8, Zenon DEF StoreAccounts, Stages, TypeInv
<1>9. ASSUME NEW th \in Threads, UpdateStatuses(th) PROVE Stages'
  BY <1>9, Zenon DEF UpdateStatuses, Stages, TypeInv
<1>10. ASSUME NEW th \in Threads, ReleaseFreezeLock(th) PROVE Stages'
  BY <1>10, Zenon DEF ReleaseFreezeLock, Stages, TypeInv
<1>11. ASSUME NEW th \in Threads, UnlockAccounts(th) PROVE Stages'
  BY <1>11, Zenon DEF UnlockAccounts, Stages, TypeInv
<1>12. ASSUME NEW th \in Threads, SettleCosts(th) PROVE Stages'
  BY <1>12 DEF SettleCosts, Stages, TypeInv, Compatible
<1>13. ASSUME NEW s \in Slots, LastTick(s) PROVE Stages'
  BY <1>13 DEF LastTick, Stages, TypeInv
<1>14. ASSUME NEW s \in Slots, Freeze(s) PROVE Stages'
  BY <1>14 DEF Freeze, HoldsFreezeLock, Stages, TypeInv
<1>15. ASSUME NEW s \in Slots, StartLeader(s) PROVE Stages'
  BY <1>15 DEF StartLeader, Stages, TypeInv
<1>16. CASE UNCHANGED vars
  BY <1>16, Zenon DEF vars, Stages
<1> QED
  BY <1>1, <1>2, <1>3, <1>4, <1>5, <1>6, <1>7, <1>8, <1>9, <1>10, <1>11, <1>12, <1>13,
     <1>14, <1>15, <1>16, Zenon DEF Next, ThreadStep, SlotStep

(* A blockhash that is registered after the check only makes transactions  *)
(* older than those of the block are.                                      *)
LEMMA YoungPreserved == TypeInv /\ Stages /\ Young /\ [Next]_vars => Young'
<1> SUFFICES ASSUME TypeInv, Stages, Young, [Next]_vars, NEW th \in Threads,
                    NEW t \in executed'[th]
             PROVE  Age(t, slot'[th] - 1) <= MaxAge
  BY Zenon DEF Young
<1> DEFINE Goal == Age(t, slot'[th] - 1) <= MaxAge
<1> USE DEF queueVars, batchVars, execVars, bankVars
<1>0. ASSUME slot'[th] = slot[th], t \in executed[th]
      PROVE  Goal
  BY <1>0, Zenon DEF Young
<1>1. ASSUME UNCHANGED <<slot, executed>>
      PROVE  Goal
  BY <1>0, <1>1, Zenon
<1>2. ASSUME NEW o \in Threads, SelectTransactions(o)
      PROVE  Goal
  <2>1. executed[o] = {} /\ executed' = executed
    BY <1>2, Zenon DEF SelectTransactions, Stages
  <2>2. th # o /\ slot'[th] = slot[th]
    BY <1>2, <2>1, Zenon DEF SelectTransactions, TypeInv
  <2> QED
    BY <1>0, <2>1, <2>2, Zenon
<1>3. ASSUME NEW o \in Threads, CheckTransactions(o)
      PROVE  Goal
  <2>1. CASE o # th
    BY <1>0, <1>3, <2>1, Zenon DEF CheckTransactions, TypeInv
  <2>2. CASE o = th
    <3>1. PICK s \in Slots : s = slot[th]
      BY Zenon DEF TypeInv
    <3>2. Age(t, Blockhash(s)) <= MaxAge /\ t \in Txs /\ slot'[th] = s
      BY <1>3, <2>2, <3>1, Zenon DEF CheckTransactions, TypeInv
    <3>3. Blockhash(s) \in {s - 1, s} /\ s \in Nat
      BY SlotsAreNaturals DEF Blockhash
    <3>4. GenesisAge[t] \in Nat /\ MaxAge \in Nat
      BY <3>2, LedgerAssumption, Zenon
    <3>5. Age(t, s - 1) <= MaxAge
      BY <3>2, <3>3, <3>4 DEF Age
    <3> QED
      BY <3>2, <3>5, Zenon
  <2> QED
    BY <2>1, <2>2, Zenon
<1>4. ASSUME NEW o \in Threads, LoadAndExecute(o)
      PROVE  Goal
  BY <1>0, <1>4, Zenon DEF LoadAndExecute, TypeInv
<1>5. ASSUME NEW o \in Threads, SettleCosts(o)
      PROVE  Goal
  BY <1>0, <1>5, Zenon DEF SettleCosts, TypeInv
<1>6. ASSUME NEW o \in Threads,
             \/ LockAccounts(o) \/ FreezeLock(o) \/ RecordTransactions(o) \/ StoreAccounts(o)
             \/ UpdateStatuses(o) \/ ReleaseFreezeLock(o) \/ UnlockAccounts(o)
      PROVE  UNCHANGED <<slot, executed>>
  BY <1>6, Zenon DEF LockAccounts, FreezeLock, RecordTransactions, StoreAccounts,
         UpdateStatuses, ReleaseFreezeLock, UnlockAccounts
<1>7. ASSUME SlotStep \/ (\E o \in Threads, u \in Txs : Receive(o, u)) \/ UNCHANGED vars
      PROVE  UNCHANGED <<slot, executed>>
  BY <1>7, Zenon DEF SlotStep, LastTick, Freeze, StartLeader, Receive, vars
<1> HIDE DEF Goal
<1>8. Goal
  <2>1. ASSUME NEW o \in Threads, ThreadStep(o)
        PROVE  Goal
    BY <1>1, <1>2, <1>3, <1>4, <1>5, <1>6, <2>1, Zenon DEF ThreadStep
  <2>2. \/ SlotStep \/ (\E o \in Threads, u \in Txs : Receive(o, u)) \/ UNCHANGED vars
        \/ \E o \in Threads : ThreadStep(o)
    BY Zenon DEF Next
  <2> QED
    BY <1>1, <1>7, <2>1, <2>2, Zenon
<1> QED
  BY <1>8, Zenon DEF Goal

(* The readers of a key among the transactions of some threads and those   *)
(* of one more.                                                            *)
LEMMA ReaderCount ==
    ASSUME NEW H \in SUBSET (Threads \X Txs), NEW th \in Threads, NEW e \in SUBSET Txs,
           \A h \in H : h[1] # th, NEW k
    PROVE  /\ Cardinality({h \in H \cup ({th} \X e) : k \in Readonly[h[2]]})
                = Cardinality({h \in H : k \in Readonly[h[2]]}) + Readers(e, k)
           /\ Cardinality({h \in H : k \in Readonly[h[2]]}) \in Nat
           /\ Readers(e, k) \in Nat
           /\ Cardinality({h \in H : k \in Readonly[h[2]]}) = 0
                => \A h \in H : k \notin Readonly[h[2]]
<1> DEFINE A == {h \in H : k \in Readonly[h[2]]}
           B == {t \in e : k \in Readonly[t]}
           C == {th} \X B
<1>1. IsFiniteSet(A)
  <2>1. IsFiniteSet(Threads \X Txs)
    BY StageAssumption, FS_Product, Zenon
  <2> QED
    BY <2>1, FS_Subset, Zenon
<1>2. IsFiniteSet(B)
  BY StageAssumption, FS_Subset, Zenon
<1>3. IsFiniteSet(C) /\ Cardinality(C) = Cardinality(B)
  <2>1. IsFiniteSet({th}) /\ Cardinality({th}) = 1
    BY FS_Singleton, Zenon
  <2>2. Cardinality(C) = 1 * Cardinality(B) /\ IsFiniteSet(C)
    BY <2>1, <1>2, FS_Product, Zenon
  <2> QED
    BY <2>2, <1>2, FS_CardinalityType
<1>4. {h \in H \cup ({th} \X e) : k \in Readonly[h[2]]} = A \cup C
  <2>1. \A h \in {th} \X e : h[2] \in e /\ h = <<th, h[2]>>
    OBVIOUS
  <2> QED
    BY <2>1, Zenon
<1>5. A \cap C = {}
  BY Zenon
<1>6. Cardinality(A \cup C) = Cardinality(A) + Cardinality(C) - Cardinality({})
  BY <1>1, <1>3, <1>5, FS_Union
<1>7. Cardinality(A) \in Nat /\ Cardinality(B) \in Nat
  BY <1>1, <1>2, FS_CardinalityType, Zenon
<1>8. Cardinality(A) = 0 => A = {}
  BY <1>1, FS_EmptySet, Zenon
<1>9. Cardinality(A \cup C) = Cardinality(A) + Cardinality(B)
  BY <1>3, <1>6, <1>7, FS_EmptySet
<1>10. Readers(e, k) = Cardinality(B)
  BY Zenon DEF Readers
<1> QED
  BY <1>4, <1>7, <1>8, <1>9, <1>10, Zenon

(* A step that neither takes nor drops locks. *)
LEMMA LocksKept ==
    ASSUME TypeInv, LocksHeld, UNCHANGED locks,
           \A th \in Threads, s \in Slots :
               /\ HoldsLocks(th, s)' = HoldsLocks(th, s)
               /\ HoldsLocks(th, s) => locked'[th] = locked[th]
    PROVE  LocksHeld'
<1>1. \A s \in Slots : Holders(s)' = Holders(s)
  BY Zenon DEF Holders
<1> QED
  BY <1>1, Zenon DEF LocksHeld

(* lock_accounts adds what the batch takes, no more and no less. *)
LEMMA LockingKeepsLocks ==
    ASSUME TypeInv, LocksHeld, NEW th \in Threads, LockAccounts(th)
    PROVE  LocksHeld'
<1>0. PICK s \in Slots : s = slot[th]
  BY Zenon DEF TypeInv
<1>1. PICK e \in SUBSET included[th] :
          /\ Lockable(e, included[th], locks[s])
          /\ locks' = [locks EXCEPT ![s] = Lock(e, @)]
          /\ locked' = [locked EXCEPT ![th] = e]
  BY <1>0, Zenon DEF LockAccounts
<1>2. s \in Slots /\ e \in SUBSET Txs
  BY Zenon DEF TypeInv
<1>3. /\ pc' = [pc EXCEPT ![th] = "check"] /\ slot' = slot /\ pc[th] = "lock"
      /\ pc \in [Threads -> PCs] /\ locked \in [Threads -> SUBSET Txs]
  BY Zenon DEF LockAccounts, batchVars, TypeInv
<1>4. \A r \in Slots, o \in Threads :
          /\ o # th => HoldsLocks(o, r)' = HoldsLocks(o, r) /\ locked'[o] = locked[o]
          /\ HoldsLocks(th, r)' = (r = s)
          /\ ~HoldsLocks(th, r)
  BY <1>0, <1>1, <1>3, Zenon DEF HoldsLocks
<1>5. locked'[th] = e
  BY <1>1, <1>3, Zenon
<1>6. \A r \in Slots \ {s} : Holders(r)' = Holders(r)
  BY <1>4, Zenon DEF Holders
<1>7. Holders(s)' = Holders(s) \cup ({th} \X e)
  <2>1. ASSUME NEW h \in Threads \X Txs
        PROVE  h \in Holders(s)' <=> h \in Holders(s) \/ h \in {th} \X e
    BY <1>2, <1>4, <1>5, Zenon DEF Holders
  <2>2. Holders(s)' \subseteq Threads \X Txs /\ Holders(s) \subseteq Threads \X Txs
    BY Zenon DEF Holders
  <2>3. {th} \X e \subseteq Threads \X Txs
    BY <1>2, Zenon
  <2> QED
    BY <2>1, <2>2, <2>3, Zenon
<1>8. Holders(s) \in SUBSET (Threads \X Txs) /\ \A h \in Holders(s) : h[1] # th
  BY <1>2, <1>4, Zenon DEF Holders
<1>9. locks[s] \in [write : SUBSET Keys, read : [Keys -> Nat]]
  BY <1>2, Zenon DEF TypeInv
<1>10. locks'[s] = Lock(e, locks[s]) /\ \A r \in Slots \ {s} : locks'[r] = locks[r]
  BY <1>1, <1>2, Zenon DEF TypeInv
<1>11. locks'[s].write = UNION {Writable[h[2]] : h \in Holders(s)'}
  <2>1. locks'[s].write = locks[s].write \cup UNION {Writable[t] : t \in e}
    BY <1>10 DEF Lock
  <2>2. locks[s].write = UNION {Writable[h[2]] : h \in Holders(s)}
    BY <1>2, Zenon DEF LocksHeld
  <2>3. UNION {Writable[h[2]] : h \in {th} \X e} = UNION {Writable[t] : t \in e}
    <3>1. ASSUME NEW t \in e PROVE Writable[t] \in {Writable[h[2]] : h \in {th} \X e}
      <4>1. <<th, t>> \in {th} \X e /\ <<th, t>>[2] = t
        BY Zenon
      <4> QED
        BY <4>1, Zenon
    <3>2. \A h \in {th} \X e : h[2] \in e
      BY Zenon
    <3>3. {Writable[h[2]] : h \in {th} \X e} = {Writable[t] : t \in e}
      BY <3>1, <3>2, Zenon
    <3> QED
      BY <3>3, Zenon
  <2> QED
    BY <1>7, <2>1, <2>2, <2>3
<1>12. \A k \in Keys :
          locks'[s].read[k] = Cardinality({h \in Holders(s)' : k \in Readonly[h[2]]})
  <2> TAKE k \in Keys
  <2>1. locks'[s].read[k] = locks[s].read[k] + Readers(e, k)
    BY <1>10 DEF Lock
  <2>2. locks[s].read[k] = Cardinality({h \in Holders(s) : k \in Readonly[h[2]]})
    BY <1>2, Zenon DEF LocksHeld
  <2>3. Cardinality({h \in Holders(s) \cup ({th} \X e) : k \in Readonly[h[2]]})
          = Cardinality({h \in Holders(s) : k \in Readonly[h[2]]}) + Readers(e, k)
    BY <1>2, <1>8, ReaderCount
  <2> QED
    BY <1>7, <2>1, <2>2, <2>3, Zenon
<1>13. \A g, h \in Holders(s)' : g # h => ~Conflict(g[2], h[2])
  <2>1. \A t \in e, h \in Holders(s) : ~Conflict(t, h[2]) /\ ~Conflict(h[2], t)
    <3> SUFFICES ASSUME NEW t \in e, NEW h \in Holders(s)
                 PROVE  /\ Writable[t] \cap AccountKeys(h[2]) = {}
                        /\ Writable[h[2]] \cap AccountKeys(t) = {}
      BY Zenon DEF Conflict
    <3>1. Free(t, locks[s])
      BY <1>1, Zenon DEF Lockable
    <3>2. Writable[h[2]] \subseteq locks[s].write
      BY <1>2 DEF LocksHeld
    <3>3. t \in Txs /\ Writable[t] \subseteq Keys
      BY <1>2, LedgerAssumption, Zenon
    <3>4. \A k \in Writable[t] : k \notin Readonly[h[2]]
      <4> TAKE k \in Writable[t]
      <4>1. k \in Keys /\ locks[s].read[k] = 0
        BY <3>1, <3>3, Zenon DEF Free
      <4>2. Cardinality({g \in Holders(s) : k \in Readonly[g[2]]}) = 0
        BY <1>2, <4>1, Zenon DEF LocksHeld
      <4> QED
        BY <1>2, <1>8, <4>2, ReaderCount, Zenon
    <3> QED
      BY <3>1, <3>2, <3>4, Zenon DEF Free, AccountKeys
  <2>2. \A t, u \in e : t # u => ~Conflict(t, u)
    BY <1>1, Zenon DEF Lockable, Compatible
  <2>3. \A g, h \in Holders(s) : g # h => ~Conflict(g[2], h[2])
    BY <1>2, Zenon DEF LocksHeld
  <2>4. \A h \in {th} \X e : h[2] \in e /\ h = <<th, h[2]>>
    OBVIOUS
  <2> QED
    BY <1>7, <2>1, <2>2, <2>3, <2>4, Zenon
<1>14. \A r \in Slots \ {s} :
          /\ locks'[r].write = UNION {Writable[h[2]] : h \in Holders(r)'}
          /\ \A k \in Keys :
                locks'[r].read[k] = Cardinality({h \in Holders(r)' : k \in Readonly[h[2]]})
          /\ \A g, h \in Holders(r)' : g # h => ~Conflict(g[2], h[2])
  BY <1>6, <1>10 DEF LocksHeld
<1> QED
  BY <1>11, <1>12, <1>13, <1>14, Zenon DEF LocksHeld

(* unlock_accounts gives back what the batch held. *)
LEMMA UnlockingKeepsLocks ==
    ASSUME TypeInv, LocksHeld, NEW th \in Threads, UnlockAccounts(th)
    PROVE  LocksHeld'
<1>0. PICK s \in Slots, e \in SUBSET Txs : s = slot[th] /\ e = locked[th]
  BY Zenon DEF TypeInv
<1>1. /\ locks' = [locks EXCEPT ![s] = Unlock(e, @)]
      /\ pc' = [pc EXCEPT ![th] = "costs"] /\ slot' = slot /\ pc[th] = "unlock"
      /\ locked' = locked /\ pc \in [Threads -> PCs]
  BY <1>0, Zenon DEF UnlockAccounts, batchVars, execVars, TypeInv
<1>2. \A r \in Slots, o \in Threads :
          /\ o # th => HoldsLocks(o, r)' = HoldsLocks(o, r)
          /\ ~HoldsLocks(th, r)'
          /\ HoldsLocks(th, r) = (r = s)
  BY <1>0, <1>1, Zenon DEF HoldsLocks
<1>3. \A r \in Slots \ {s} : Holders(r)' = Holders(r)
  BY <1>1, <1>2, Zenon DEF Holders
<1>4. Holders(s) = Holders(s)' \cup ({th} \X e)
  <2>1. ASSUME NEW h \in Threads \X Txs
        PROVE  h \in Holders(s) <=> h \in Holders(s)' \/ h \in {th} \X e
    BY <1>0, <1>1, <1>2, Zenon DEF Holders
  <2>2. Holders(s)' \subseteq Threads \X Txs /\ Holders(s) \subseteq Threads \X Txs
    BY Zenon DEF Holders
  <2>3. {th} \X e \subseteq Threads \X Txs
    BY Zenon
  <2> QED
    BY <2>1, <2>2, <2>3, Zenon
<1>5. Holders(s)' \in SUBSET (Threads \X Txs) /\ \A h \in Holders(s)' : h[1] # th
  BY <1>2, Zenon DEF Holders
<1>6. locks[s] \in [write : SUBSET Keys, read : [Keys -> Nat]]
  BY Zenon DEF TypeInv
<1>7. locks'[s] = Unlock(e, locks[s]) /\ \A r \in Slots \ {s} : locks'[r] = locks[r]
  BY <1>1, Zenon DEF TypeInv
<1>8. \A t \in e : <<th, t>> \in Holders(s) /\ <<th, t>> \notin Holders(s)' /\ <<th, t>>[2] = t
  BY <1>4, <1>5, Zenon
<1>9. \A g, h \in Holders(s) : g # h => ~Conflict(g[2], h[2])
  BY Zenon DEF LocksHeld
<1>10. locks'[s].write = UNION {Writable[h[2]] : h \in Holders(s)'}
  <2>1. locks'[s].write = locks[s].write \ UNION {Writable[t] : t \in e}
    BY <1>7 DEF Unlock
  <2>2. locks[s].write = UNION {Writable[h[2]] : h \in Holders(s)}
    BY Zenon DEF LocksHeld
  <2>3. ASSUME NEW h \in Holders(s)', NEW t \in e PROVE Writable[h[2]] \cap Writable[t] = {}
    <3>1. ~Conflict(h[2], <<th, t>>[2])
      BY <1>4, <1>8, <1>9, Zenon
    <3>2. ~Conflict(h[2], t)
      BY <3>1, Zenon
    <3> QED
      BY <3>2, Zenon DEF Conflict, AccountKeys
  <2>4. \A h \in {th} \X e : h[2] \in e
    BY Zenon
  <2>5. ASSUME NEW k, k \in locks'[s].write PROVE \E h \in Holders(s)' : k \in Writable[h[2]]
    BY <1>4, <2>1, <2>2, <2>4, <2>5
  <2>6. ASSUME NEW h \in Holders(s)', NEW k \in Writable[h[2]] PROVE k \in locks'[s].write
    BY <1>4, <2>1, <2>2, <2>3
  <2> QED
    BY <2>5, <2>6, Zenon
<1>11. \A k \in Keys :
          locks'[s].read[k] = Cardinality({h \in Holders(s)' : k \in Readonly[h[2]]})
  <2> TAKE k \in Keys
  <2>1. locks'[s].read[k] = IF locks[s].read[k] > Readers(e, k)
                            THEN locks[s].read[k] - Readers(e, k) ELSE 0
    BY <1>7 DEF Unlock
  <2>2. locks[s].read[k] = Cardinality({h \in Holders(s) : k \in Readonly[h[2]]})
    BY Zenon DEF LocksHeld
  <2>0. PICK H \in SUBSET (Threads \X Txs) : H = Holders(s)'
    BY <1>5, Zenon
  <2>3. /\ Cardinality({h \in H \cup ({th} \X e) : k \in Readonly[h[2]]})
             = Cardinality({h \in H : k \in Readonly[h[2]]}) + Readers(e, k)
        /\ Cardinality({h \in H : k \in Readonly[h[2]]}) \in Nat
        /\ Readers(e, k) \in Nat
    <3>1. \A h \in H : h[1] # th
      BY <1>5, <2>0, Zenon
    <3>2. Cardinality({h \in H \cup ({th} \X e) : k \in Readonly[h[2]]})
             = Cardinality({h \in H : k \in Readonly[h[2]]}) + Readers(e, k)
      BY <3>1, ReaderCount
    <3>3. Cardinality({h \in H : k \in Readonly[h[2]]}) \in Nat
      BY <3>1, ReaderCount, Zenon
    <3>4. Readers(e, k) \in Nat
      BY <3>1, ReaderCount, Zenon
    <3> QED
      BY <3>2, <3>3, <3>4, Zenon
  <2>4. PICK n \in Nat, m \in Nat :
            /\ n = Cardinality({h \in H : k \in Readonly[h[2]]})
            /\ m = Readers(e, k)
    BY <2>3, Zenon
  <2>5. locks[s].read[k] = n + m
    BY <1>4, <2>0, <2>2, <2>3, <2>4, Zenon
  <2>6. locks'[s].read[k] = n
    BY <2>1, <2>4, <2>5
  <2> QED
    BY <2>0, <2>4, <2>6, Zenon
<1>12. \A g, h \in Holders(s)' : g # h => ~Conflict(g[2], h[2])
  BY <1>4, <1>9, Zenon
<1>13. \A r \in Slots \ {s} :
          /\ locks'[r].write = UNION {Writable[h[2]] : h \in Holders(r)'}
          /\ \A k \in Keys :
                locks'[r].read[k] = Cardinality({h \in Holders(r)' : k \in Readonly[h[2]]})
          /\ \A g, h \in Holders(r)' : g # h => ~Conflict(g[2], h[2])
  BY <1>3, <1>7 DEF LocksHeld
<1> QED
  BY <1>10, <1>11, <1>12, <1>13, Zenon DEF LocksHeld

(* No other step changes the locks or who holds them. *)
LEMMA LocksPreserved == TypeInv /\ Stages /\ LocksHeld /\ [Next]_vars => LocksHeld'
<1> SUFFICES ASSUME TypeInv, Stages, LocksHeld, [Next]_vars PROVE LocksHeld'
  BY Zenon
<1> USE DEF queueVars, batchVars, execVars, bankVars, HoldsLocks
<1>1. ASSUME NEW th \in Threads, NEW t \in Txs, Receive(th, t) PROVE LocksHeld'
  BY <1>1, LocksKept, Zenon DEF Receive
<1>2. ASSUME NEW th \in Threads, SelectTransactions(th) PROVE LocksHeld'
  BY <1>2, LocksKept, Zenon DEF SelectTransactions, TypeInv
<1>3. ASSUME NEW th \in Threads, CheckTransactions(th) PROVE LocksHeld'
  BY <1>3, LocksKept, Zenon DEF CheckTransactions, TypeInv
<1>4. ASSUME NEW th \in Threads, LoadAndExecute(th) PROVE LocksHeld'
  BY <1>4, LocksKept, Zenon DEF LoadAndExecute, TypeInv
<1>5. ASSUME NEW th \in Threads, FreezeLock(th) PROVE LocksHeld'
  BY <1>5, LocksKept, Zenon DEF FreezeLock, TypeInv
<1>6. ASSUME NEW th \in Threads, RecordTransactions(th) PROVE LocksHeld'
  <2>1. PICK l \in {"release", "store"} : Goto(th, l)
    BY <1>6, Zenon DEF RecordTransactions
  <2>2. pc[th] = "record" /\ UNCHANGED <<slot, locked, locks>>
    BY <1>6, Zenon DEF RecordTransactions
  <2> QED
    BY <2>1, <2>2, LocksKept, Zenon DEF TypeInv
<1>7. ASSUME NEW th \in Threads, StoreAccounts(th) PROVE LocksHeld'
  BY <1>7, LocksKept, Zenon DEF StoreAccounts, TypeInv
<1>8. ASSUME NEW th \in Threads, UpdateStatuses(th) PROVE LocksHeld'
  BY <1>8, LocksKept, Zenon DEF UpdateStatuses, TypeInv
<1>9. ASSUME NEW th \in Threads, ReleaseFreezeLock(th) PROVE LocksHeld'
  BY <1>9, LocksKept, Zenon DEF ReleaseFreezeLock, TypeInv
<1>10. ASSUME NEW th \in Threads, SettleCosts(th) PROVE LocksHeld'
  BY <1>10, LocksKept, Zenon DEF SettleCosts, TypeInv
<1>11. ASSUME NEW s \in Slots, LastTick(s) \/ Freeze(s) \/ StartLeader(s) PROVE LocksHeld'
  BY <1>11, LocksKept, Zenon DEF LastTick, Freeze, StartLeader
<1>12. CASE UNCHANGED vars
  BY <1>12, LocksKept, Zenon DEF vars
<1> QED
  BY <1>1, <1>2, <1>3, <1>4, <1>5, <1>6, <1>7, <1>8, <1>9, <1>10, <1>11, <1>12,
     LockingKeepsLocks, UnlockingKeepsLocks, Zenon DEF Next, ThreadStep, SlotStep

-----------------------------------------------------------------------------
(* Most steps leave the chain and the batches that are being committed     *)
(* alone.                                                                  *)
Quiet ==
    /\ UNCHANGED <<status, store, blocks>>
    /\ \A th \in Threads :
          /\ (pc'[th] = "store") = (pc[th] = "store")
          /\ (pc'[th] = "status") = (pc[th] = "status")
          /\ pc[th] \in {"store", "status"} =>
                slot'[th] = slot[th] /\ executed'[th] = executed[th] /\ results'[th] = results[th]
    /\ \A s \in Slots : (phase'[s] = "unborn") = (phase[s] = "unborn")

Appends(th) == RecordTransactions(th) /\ executed[th] # {} /\ Recorded(th)

(* The steps that are not quiet record, commit or start a bank. *)
LEMMA QuietSteps ==
    TypeInv /\ [Next]_vars =>
        \/ Quiet
        \/ \E th \in Threads : Appends(th) \/ StoreAccounts(th) \/ UpdateStatuses(th)
        \/ \E s \in Slots : StartLeader(s)
<1> SUFFICES ASSUME TypeInv, [Next]_vars,
                    ~\E th \in Threads : Appends(th) \/ StoreAccounts(th) \/ UpdateStatuses(th),
                    ~\E s \in Slots : StartLeader(s)
             PROVE  Quiet
  BY Zenon
<1> USE DEF Quiet, TypeInv, queueVars, batchVars, execVars, bankVars
<1>1. ASSUME NEW th \in Threads, NEW t \in Txs, Receive(th, t) PROVE Quiet
  BY <1>1, Zenon DEF Receive
<1>2. ASSUME NEW th \in Threads, SelectTransactions(th) PROVE Quiet
  BY <1>2, Zenon DEF SelectTransactions
<1>3. ASSUME NEW th \in Threads, LockAccounts(th) PROVE Quiet
  BY <1>3, Zenon DEF LockAccounts
<1>4. ASSUME NEW th \in Threads, CheckTransactions(th) PROVE Quiet
  BY <1>4, Zenon DEF CheckTransactions
<1>5. ASSUME NEW th \in Threads, LoadAndExecute(th) PROVE Quiet
  BY <1>5, Zenon DEF LoadAndExecute
<1>6. ASSUME NEW th \in Threads, FreezeLock(th) PROVE Quiet
  BY <1>6, Zenon DEF FreezeLock
<1>7. ASSUME NEW th \in Threads, RecordTransactions(th) PROVE Quiet
  <2>1. ~(executed[th] # {} /\ Recorded(th))
    BY <1>7, Zenon DEF Appends
  <2> QED
    BY <1>7, <2>1, Zenon DEF RecordTransactions
<1>8. ASSUME NEW th \in Threads, ReleaseFreezeLock(th) PROVE Quiet
  BY <1>8, Zenon DEF ReleaseFreezeLock
<1>9. ASSUME NEW th \in Threads, UnlockAccounts(th) PROVE Quiet
  BY <1>9, Zenon DEF UnlockAccounts
<1>10. ASSUME NEW th \in Threads, SettleCosts(th) PROVE Quiet
  BY <1>10, Zenon DEF SettleCosts
<1>11. ASSUME NEW s \in Slots, LastTick(s) \/ Freeze(s) PROVE Quiet
  BY <1>11, Zenon DEF LastTick, Freeze
<1>12. CASE UNCHANGED vars
  BY <1>12, Zenon DEF vars
<1> QED
  BY <1>1, <1>2, <1>3, <1>4, <1>5, <1>6, <1>7, <1>8, <1>9, <1>10, <1>11, <1>12, Zenon
     DEF Next, ThreadStep, SlotStep

(* A recorded batch is one more entry of its slot. *)
LEMMA AppendedEntry ==
    ASSUME TypeInv, NEW th \in Threads, Appends(th)
    PROVE  /\ pc[th] = "record" /\ pc' = [pc EXCEPT ![th] = "store"]
           /\ executed[th] # {} /\ phase[slot[th]] = "open"
           /\ committed' = [committed EXCEPT ![th] = executed[th]]
           /\ blocks' = [blocks EXCEPT ![slot[th]] = Append(@, executed[th])]
           /\ UNCHANGED <<buffer, slot, batch, included, locked, executed, results,
                          phase, locks, status, store, cost>>
           /\ EntriesOf(slot[th])' = EntriesOf(slot[th]) \cup executed[th]
           /\ \A s \in Slots \ {slot[th]} : EntriesOf(s)' = EntriesOf(s)
<1>1. /\ pc[th] = "record" /\ pc' = [pc EXCEPT ![th] = "store"]
      /\ executed[th] # {} /\ phase[slot[th]] = "open"
      /\ committed' = [committed EXCEPT ![th] = executed[th]]
      /\ blocks' = [blocks EXCEPT ![slot[th]] = Append(@, executed[th])]
      /\ UNCHANGED <<buffer, slot, batch, included, locked, executed, results,
                     phase, locks, status, store, cost>>
  BY Zenon DEF Appends, RecordTransactions, Recorded, queueVars, batchVars
<1>2. PICK s \in Slots, e \in SUBSET Txs, q \in Seq(SUBSET Txs) :
          s = slot[th] /\ e = executed[th] /\ q = blocks[s]
  BY Zenon DEF TypeInv
<1>3. blocks'[s] = Append(q, e) /\ \A r \in Slots \ {s} : blocks'[r] = blocks[r]
  BY <1>1, <1>2, Zenon DEF TypeInv
<1>4. EntriesOf(s)' = EntriesOf(s) \cup e
  <2>1. /\ Len(Append(q, e)) = Len(q) + 1 /\ Len(q) \in Nat
        /\ Append(q, e)[Len(q) + 1] = e
        /\ \A i \in 1 .. Len(q) : Append(q, e)[i] = q[i]
    OBVIOUS
  <2>2. \A x : x \in EntriesOf(s)' <=> \E i \in 1 .. Len(q) + 1 : x \in Append(q, e)[i]
    BY <1>3, <2>1, Zenon DEF EntriesOf
  <2>3. \A x : x \in EntriesOf(s) <=> \E i \in 1 .. Len(q) : x \in q[i]
    BY <1>2, Zenon DEF EntriesOf
  <2>4. \A i \in 1 .. Len(q) + 1 : i \in 1 .. Len(q) \/ i = Len(q) + 1
    BY <2>1
  <2>5. 1 .. Len(q) \subseteq 1 .. Len(q) + 1 /\ Len(q) + 1 \in 1 .. Len(q) + 1
    BY <2>1
  <2> QED
    BY <2>1, <2>2, <2>3, <2>4, <2>5, Zenon
<1>5. \A r \in Slots \ {s} : EntriesOf(r)' = EntriesOf(r)
  BY <1>3, Zenon DEF EntriesOf
<1> QED
  BY <1>1, <1>2, <1>4, <1>5, Zenon

(* What is recorded is noted by the time its batch is committed. *)
LEMMA NotedPreserved == TypeInv /\ Stages /\ Noted /\ [Next]_vars => Noted'
<1> SUFFICES ASSUME TypeInv, Stages, Noted, [Next]_vars PROVE Noted'
  BY Zenon
<1>1. CASE Quiet
  <2>1. \A s \in Slots : EntriesOf(s)' = EntriesOf(s) /\ status'[s] = status[s]
    BY <1>1 DEF Quiet, EntriesOf
  <2>2. \A s \in Slots : Pending(s)' = Pending(s)
    BY <1>1 DEF Quiet, Pending
  <2>3. \A s \in Slots : \A th \in Pending(s) : executed'[th] = executed[th]
    BY <1>1, Zenon DEF Quiet, Pending
  <2>4. \A s \in Slots : phase'[s] = "unborn" => phase[s] = "unborn"
    BY <1>1, Zenon DEF Quiet
  <2> QED
    BY <2>1, <2>2, <2>3, <2>4 DEF Noted
<1>2. ASSUME NEW th \in Threads, Appends(th) PROVE Noted'
  <2>1. PICK s \in Slots : s = slot[th]
    BY Zenon DEF TypeInv
  <2>2. /\ EntriesOf(s)' = EntriesOf(s) \cup executed[th]
        /\ \A r \in Slots \ {s} : EntriesOf(r)' = EntriesOf(r)
        /\ UNCHANGED <<status, executed, slot, phase>>
        /\ pc' = [pc EXCEPT ![th] = "store"]
        /\ pc[th] = "record" /\ phase[s] = "open"
    BY <1>2, <2>1, AppendedEntry, Zenon
  <2>3. Pending(s)' = Pending(s) \cup {th} /\ \A r \in Slots \ {s} : Pending(r)' = Pending(r)
    BY <2>1, <2>2 DEF Pending, TypeInv
  <2> QED
    BY <2>2, <2>3 DEF Noted
<1>3. ASSUME NEW th \in Threads, StoreAccounts(th) PROVE Noted'
  <2>1. /\ UNCHANGED <<status, executed, slot, phase, blocks>>
        /\ pc' = [pc EXCEPT ![th] = "status"] /\ pc[th] = "store"
    BY <1>3, Zenon DEF StoreAccounts, batchVars, execVars
  <2>2. \A s \in Slots : Pending(s)' = Pending(s)
    BY <2>1, Zenon DEF Pending, TypeInv
  <2>3. \A s \in Slots : EntriesOf(s)' = EntriesOf(s)
    BY <2>1, Zenon DEF EntriesOf
  <2> QED
    BY <2>1, <2>2, <2>3 DEF Noted
<1>4. ASSUME NEW th \in Threads, UpdateStatuses(th) PROVE Noted'
  <2>1. PICK s \in Slots : s = slot[th]
    BY Zenon DEF TypeInv
  <2>2. /\ UNCHANGED <<executed, slot, phase, blocks>>
        /\ pc' = [pc EXCEPT ![th] = "release"] /\ pc[th] = "status"
        /\ committed[th] = executed[th] /\ phase[s] # "unborn"
        /\ status' = [status EXCEPT ![s] = @ \cup executed[th]]
    BY <1>4, <2>1, Zenon DEF UpdateStatuses, batchVars, execVars, Stages
  <2>3. /\ Pending(s)' = Pending(s) \ {th} /\ th \in Pending(s)
        /\ \A r \in Slots \ {s} : Pending(r)' = Pending(r)
    BY <2>1, <2>2, Zenon DEF Pending, TypeInv
  <2>4. /\ status'[s] = status[s] \cup executed[th]
        /\ \A r \in Slots \ {s} : status'[r] = status[r]
        /\ \A r \in Slots : EntriesOf(r)' = EntriesOf(r)
    BY <2>2 DEF TypeInv, EntriesOf
  <2> QED
    BY <2>2, <2>3, <2>4 DEF Noted
<1>5. ASSUME NEW s \in Slots, StartLeader(s) PROVE Noted'
  <2>1. UNCHANGED <<executed, slot, pc, blocks, status>>
    BY <1>5, Zenon DEF StartLeader, batchVars, execVars
  <2>2. \A r \in Slots : phase'[r] = "unborn" => phase[r] = "unborn"
    BY <1>5, Zenon DEF StartLeader, TypeInv
  <2>3. \A r \in Slots : Pending(r)' = Pending(r) /\ EntriesOf(r)' = EntriesOf(r)
    BY <2>1, Zenon DEF Pending, EntriesOf
  <2> QED
    BY <2>1, <2>2, <2>3 DEF Noted
<1> QED
  BY <1>1, <1>2, <1>3, <1>4, <1>5, QuietSteps, Zenon

(* Batches in flight in the same bank touch nothing of what the others     *)
(* write, and share no transaction: its fee payer would be locked twice.   *)
LEMMA BatchesApart ==
    TypeInv /\ Stages /\ LocksHeld =>
        \A a, b \in Threads : \A t \in locked[a], u \in locked[b] :
            /\ a # b /\ slot[a] = slot[b]
            /\ pc[a] \notin {"idle", "lock", "costs"} /\ pc[b] \notin {"idle", "lock", "costs"}
            => t # u /\ Writable[t] \cap AccountKeys(u) = {}
<1> SUFFICES ASSUME TypeInv, Stages, LocksHeld, NEW a \in Threads, NEW b \in Threads,
                    NEW t \in locked[a], NEW u \in locked[b], a # b, slot[a] = slot[b],
                    pc[a] \notin {"idle", "lock", "costs"}, pc[b] \notin {"idle", "lock", "costs"}
             PROVE  t # u /\ Writable[t] \cap AccountKeys(u) = {}
  BY Zenon
<1>1. ~Conflict(t, u)
  BY NoConflict, Zenon DEF HoldsLocks
<1>2. t \in Txs /\ Writable[t] # {}
  BY LedgerAssumption, Zenon DEF TypeInv
<1> QED
  BY <1>1, <1>2, Zenon DEF Conflict, AccountKeys

(* A batch that was checked stays fresh: it holds its locks. *)
LEMMA FreshPreserved ==
    TypeInv /\ Chain /\ Stages /\ LocksHeld /\ Noted /\ Fresh /\ [Next]_vars => Fresh'
<1> SUFFICES ASSUME TypeInv, Chain, Stages, LocksHeld, Noted, Fresh, [Next]_vars,
                    NEW th \in Threads, NEW s \in Slots,
                    pc'[th] \in {"load", "freeze_lock", "record"}, phase'[slot'[th]] = "open"
             PROVE  executed'[th] \cap EntriesOf(s)' = {}
  BY Zenon DEF Fresh
<1> USE DEF TypeInv, queueVars, batchVars, execVars, bankVars
<1> DEFINE Kept == /\ pc[th] \in {"load", "freeze_lock", "record"} /\ phase[slot[th]] = "open"
                   /\ executed'[th] \subseteq executed[th] /\ blocks' = blocks
<1>0. ASSUME Kept PROVE executed'[th] \cap EntriesOf(s)' = {}
  <2>1. EntriesOf(s)' = EntriesOf(s)
    BY <1>0 DEF EntriesOf
  <2>2. executed[th] \cap EntriesOf(s) = {}
    BY <1>0, Zenon DEF Fresh
  <2> QED
    BY <1>0, <2>1, <2>2, Zenon
<1>1. ASSUME NEW o \in Threads, CheckTransactions(o) PROVE executed'[th] \cap EntriesOf(s)' = {}
  <2>1. CASE o # th
    BY <1>0, <1>1, <2>1, Zenon DEF CheckTransactions
  <2>2. CASE o = th
    <3>1. /\ executed'[th] \subseteq locked[th] \ AlreadyProcessed(slot[th])
          /\ pc[th] = "check" /\ phase[slot[th]] = "open" /\ EntriesOf(s)' = EntriesOf(s)
      BY <1>1, <2>2 DEF CheckTransactions, EntriesOf
    <3>2. slot[th] = Current /\ Current \in Slots /\ Newest(Current)
      BY <3>1, PendingIsCurrent, NewestIsCurrent, Zenon
    <3>3. executed'[th] \cap status[s] = {}
      <4>1. CASE s > slot[th]
        BY <3>2, <4>1, Zenon DEF Newest, Noted
      <4>2. CASE ~(s > slot[th])
        <5>1. s \in 1 .. slot[th]
          BY <3>2, <4>2, SlotsAreNaturals
        <5> QED
          BY <3>1, <5>1 DEF AlreadyProcessed
      <4> QED
        BY <4>1, <4>2, Zenon
    <3>4. ASSUME NEW p \in Pending(s) PROVE executed'[th] \cap executed[p] = {}
      <4>1. p \in Threads /\ pc[p] \in {"store", "status"} /\ slot[p] = slot[th] /\ p # th
        BY <3>1, <3>2, PendingIsCurrent, Zenon DEF Pending
      <4>2. executed[p] \subseteq locked[p] /\ executed'[th] \subseteq locked[th]
        BY <3>1, <4>1, Zenon DEF Stages
      <4> QED
        BY <3>1, <4>1, <4>2, BatchesApart, Zenon
    <3> QED
      BY <3>1, <3>3, <3>4 DEF Noted
  <2> QED
    BY <2>1, <2>2, Zenon
<1>2. ASSUME NEW o \in Threads, LoadAndExecute(o) PROVE executed'[th] \cap EntriesOf(s)' = {}
  BY <1>0, <1>2, Zenon DEF LoadAndExecute
<1>3. ASSUME NEW o \in Threads, Appends(o) PROVE executed'[th] \cap EntriesOf(s)' = {}
  <2>1. /\ o # th /\ pc[o] = "record" /\ pc[th] \in {"load", "freeze_lock", "record"}
        /\ phase[slot[th]] = "open" /\ phase[slot[o]] = "open" /\ executed' = executed
        /\ EntriesOf(s)' \subseteq EntriesOf(s) \cup executed[o]
    <3>1. /\ pc[o] = "record" /\ pc' = [pc EXCEPT ![o] = "store"]
          /\ phase[slot[o]] = "open" /\ UNCHANGED <<slot, executed, phase>>
      BY <1>3, AppendedEntry, Zenon
    <3>2. /\ EntriesOf(slot[o])' = EntriesOf(slot[o]) \cup executed[o]
          /\ \A r \in Slots \ {slot[o]} : EntriesOf(r)' = EntriesOf(r)
      BY <1>3, AppendedEntry, Zenon
    <3>3. EntriesOf(s)' \subseteq EntriesOf(s) \cup executed[o]
      <4>1. CASE s = slot[o]
        <5>1. EntriesOf(s)' = EntriesOf(slot[o])'
          BY <3>1, <4>1 DEF EntriesOf
        <5> QED
          BY <3>2, <4>1, <5>1, Zenon
      <4>2. CASE s # slot[o]
        BY <3>2, <4>2, Zenon
      <4> QED
        BY <4>1, <4>2, Zenon
    <3> QED
      BY <3>1, <3>3, Zenon
  <2>2. slot[o] = slot[th]
    BY <2>1, PendingIsCurrent, Zenon
  <2>3. executed[o] \subseteq locked[o] /\ executed[th] \subseteq locked[th]
    BY Zenon DEF Stages
  <2>4. executed[th] \cap executed[o] = {}
    BY <2>1, <2>2, <2>3, BatchesApart, Zenon
  <2> QED
    BY <2>1, <2>4, Zenon DEF Fresh
<1>4. ASSUME NEW o \in Threads, RecordTransactions(o), ~Appends(o)
      PROVE  executed'[th] \cap EntriesOf(s)' = {}
  BY <1>0, <1>4, Zenon DEF RecordTransactions, Appends
<1>5. ASSUME NEW r \in Slots, StartLeader(r) PROVE executed'[th] \cap EntriesOf(s)' = {}
  <2>1. UNCHANGED <<pc, slot, executed, blocks>>
    BY <1>5, Zenon DEF StartLeader
  <2>2. phase[slot[th]] # "unborn"
    BY <2>1, Zenon DEF Stages
  <2>3. phase[slot[th]] = "open"
    <3>1. slot[th] \in Slots /\ slot[th] # r + 1
      BY <1>5, <2>2, Zenon DEF StartLeader
    <3> QED
      BY <1>5, <2>1, <3>1, Zenon DEF StartLeader
  <2> QED
    BY <1>0, <2>1, <2>3, Zenon
<1>6. ASSUME NEW r \in Slots, LastTick(r) \/ Freeze(r) PROVE executed'[th] \cap EntriesOf(s)' = {}
  BY <1>0, <1>6, Zenon DEF LastTick, Freeze
<1>7. ASSUME NEW o \in Threads, NEW t \in Txs, Receive(o, t)
      PROVE  executed'[th] \cap EntriesOf(s)' = {}
  BY <1>0, <1>7, Zenon DEF Receive
<1>8. ASSUME NEW o \in Threads,
             SelectTransactions(o) \/ LockAccounts(o) \/ FreezeLock(o) \/ StoreAccounts(o)
      PROVE  executed'[th] \cap EntriesOf(s)' = {}
  <2>1. CASE SelectTransactions(o)
    BY <1>0, <2>1, Zenon DEF SelectTransactions
  <2>2. CASE LockAccounts(o) \/ FreezeLock(o) \/ StoreAccounts(o)
    BY <1>0, <2>2, Zenon DEF LockAccounts, FreezeLock, StoreAccounts
  <2> QED
    BY <1>8, <2>1, <2>2, Zenon
<1>9. ASSUME NEW o \in Threads,
             UpdateStatuses(o) \/ ReleaseFreezeLock(o) \/ UnlockAccounts(o) \/ SettleCosts(o)
      PROVE  executed'[th] \cap EntriesOf(s)' = {}
  <2>1. CASE SettleCosts(o)
    BY <1>0, <2>1, Zenon DEF SettleCosts
  <2>2. CASE UpdateStatuses(o) \/ ReleaseFreezeLock(o) \/ UnlockAccounts(o)
    BY <1>0, <2>2, Zenon DEF UpdateStatuses, ReleaseFreezeLock, UnlockAccounts
  <2> QED
    BY <1>9, <2>1, <2>2, Zenon
<1>10. CASE UNCHANGED vars
  BY <1>0, <1>10, Zenon DEF vars
<1> QED
  BY <1>1, <1>2, <1>3, <1>4, <1>5, <1>6, <1>7, <1>8, <1>9, <1>10, Zenon
     DEF Next, ThreadStep, SlotStep


-----------------------------------------------------------------------------
(* The accounts with the recorded entries in effect change only when an    *)
(* entry is recorded.                                                      *)
Consistent == TypeInv /\ Chain /\ Stages /\ LocksHeld

(* The four parts are kept together. *)
LEMMA ConsistentPreserved == Consistent /\ [Next]_vars => Consistent'
  BY TypePreserved, ChainPreserved, StagesPreserved, LocksPreserved, Zenon DEF Consistent

(* The same in the next state *)
LEMMA TakenEffectNext == Consistent' => TakenEffect'
<1>1. Consistent => TakenEffect
  BY RecordedStateAt, Zenon DEF Consistent
<1> QED
  BY <1>1, PTL

(* The recorded state maps accounts. *)
LEMMA RecordedStateIsFunction ==
    /\ RecordedState = [k \in Keys |-> RecordedState[k]]
    /\ RecordedState' = [k \in Keys |-> RecordedState'[k]]
  BY Zenon DEF RecordedState

(* The current bank of the next state is its newest. *)
LEMMA CurrentNext == Consistent' => (Current \in Slots /\ Newest(Current))'
<1>1. Consistent => Current \in Slots /\ Newest(Current)
  BY NewestIsCurrent, Zenon DEF Consistent
<1> QED
  BY <1>1, PTL

(* A quiet step leaves the recorded state alone ... *)
LEMMA QuietKeepsState ==
    ASSUME Consistent, Consistent', Quiet
    PROVE  RecordedState' = RecordedState /\ Current' = Current
<1>1. Current' = Current
  <2>1. Current \in Slots /\ Newest(Current)
    BY NewestIsCurrent, Zenon DEF Consistent
  <2>2. (Current \in Slots /\ Newest(Current))'
    BY CurrentNext, Zenon
  <2>3. \A s \in Slots : (phase'[s] = "unborn") = (phase[s] = "unborn")
    BY Zenon DEF Quiet
  <2> QED
    BY <2>1, <2>2, <2>3, SlotsAreNaturals DEF Newest
<1>2. TakenEffect /\ TakenEffect'
  BY RecordedStateAt, TakenEffectNext, Zenon DEF Consistent
<1>3. ASSUME NEW k \in Keys PROVE RecordedState'[k] = RecordedState[k]
  <2>1. CASE \A th \in Threads : At(th, "store") => \A t \in executed[th] : k \notin Writable[t]
    <3>1. \A th \in Threads : At(th, "store")' => \A t \in executed'[th] : k \notin Writable[t]
      BY <2>1, Zenon DEF Quiet
    <3>2. RecordedState[k] = store[Current][k]
      BY <1>2, <2>1, Zenon DEF TakenEffect
    <3>3. RecordedState'[k] = store'[Current'][k]
      BY <1>2, <3>1, Zenon DEF TakenEffect
    <3> QED
      BY <1>1, <3>2, <3>3, Zenon DEF Quiet
  <2>2. ASSUME NEW th \in Threads, At(th, "store"), NEW t \in executed[th], k \in Writable[t]
        PROVE  RecordedState'[k] = RecordedState[k]
    <3>1. /\ pc'[th] = "store" /\ t \in executed'[th] /\ results'[th] = results[th]
      BY <2>2, Zenon DEF Quiet
    <3>2. RecordedState[k] = results[th][t][k]
      BY <1>2, <2>2, Zenon DEF TakenEffect
    <3>3. RecordedState'[k] = results'[th][t][k]
      BY <1>2, <2>2, <3>1, Zenon DEF TakenEffect
    <3> QED
      BY <3>1, <3>2, <3>3, Zenon
  <2> QED
    BY <2>1, <2>2, Zenon
<1> QED
  BY <1>1, <1>3, RecordedStateIsFunction, Zenon

(* A step that leaves the banks' phases alone leaves the newest one alone. *)
LEMMA CurrentKept == ASSUME UNCHANGED phase PROVE Current' = Current
  BY Zenon DEF Current

(* The transactions of a batch do not conflict. *)
LEMMA BatchCompatible ==
    ASSUME TypeInv, Stages, NEW th \in Threads
    PROVE  Compatible(executed[th]) /\ executed[th] \in SUBSET Txs
<1>1. Compatible(locked[th]) /\ executed[th] \subseteq locked[th] /\ executed[th] \in SUBSET Txs
  BY Zenon DEF Stages, TypeInv
<1> QED
  BY <1>1, Zenon DEF Compatible

(* Storing a batch that is recorded brings the bank up to the state.       *)
LEMMA StoringKeepsState ==
    ASSUME Consistent, Consistent', NEW th \in Threads, StoreAccounts(th)
    PROVE  RecordedState' = RecordedState /\ Current' = Current
<1> USE DEF Consistent
<1>1. /\ pc[th] = "store" /\ pc' = [pc EXCEPT ![th] = "status"] /\ pc \in [Threads -> PCs]
      /\ store' = [store EXCEPT ![slot[th]] = Stored(executed[th], results[th], @)]
      /\ UNCHANGED <<slot, executed, results, locked, phase>>
  BY Zenon DEF StoreAccounts, batchVars, execVars, TypeInv
<1>2. Current' = Current
  BY <1>1, CurrentKept, Zenon
<1>3. slot[th] = Current /\ Current \in Slots
  BY <1>1, PendingIsCurrent, NewestIsCurrent, Zenon
<1>4. store'[Current] = Stored(executed[th], results[th], store[Current])
  BY <1>1, <1>3, Zenon DEF TypeInv
<1>5. TakenEffect /\ TakenEffect'
  BY RecordedStateAt, TakenEffectNext, Zenon
<1>6. ASSUME NEW k \in Keys PROVE RecordedState'[k] = RecordedState[k]
  <2>1. /\ \A t \in executed[th] : k \in Writable[t] => store'[Current][k] = results[th][t][k]
        /\ (\A t \in executed[th] : k \notin Writable[t]) => store'[Current][k] = store[Current][k]
    <3>1. Compatible(executed[th]) /\ executed[th] \in SUBSET Txs
      BY BatchCompatible, Zenon
    <3>2. \A t \in executed[th] : k \in Writable[t] =>
              Stored(executed[th], results[th], store[Current])[k] = results[th][t][k]
      BY <3>1, StoredAt
    <3>3. (\A t \in executed[th] : k \notin Writable[t]) =>
              Stored(executed[th], results[th], store[Current])[k] = store[Current][k]
      BY <3>1, StoredAt
    <3> QED
      BY <1>4, <3>2, <3>3, Zenon
  <2>2. ASSUME NEW t \in executed[th], k \in Writable[t] PROVE RecordedState'[k] = RecordedState[k]
    <3>1. \A o \in Threads : At(o, "store")' => \A u \in executed'[o] : k \notin Writable[u]
      <4> SUFFICES ASSUME NEW o \in Threads, pc'[o] = "store", NEW u \in executed'[o]
                   PROVE  k \notin Writable[u]
        BY Zenon
      <4>1. o # th /\ pc[o] = "store" /\ u \in executed[o] /\ slot[o] = slot[th]
        BY <1>1, <1>3, PendingIsCurrent, Zenon
      <4>2. t \in locked[th] /\ u \in locked[o]
        BY <4>1, Zenon DEF Stages
      <4> QED
        BY <1>1, <2>2, <4>1, <4>2, BatchesApart, Zenon DEF AccountKeys
    <3>2. RecordedState'[k] = store'[Current'][k]
      BY <1>5, <3>1, Zenon DEF TakenEffect
    <3>3. RecordedState[k] = results[th][t][k]
      BY <1>1, <1>5, <2>2, Zenon DEF TakenEffect
    <3> QED
      BY <1>2, <2>1, <2>2, <3>2, <3>3, Zenon
  <2>3. ASSUME NEW o \in Threads, o # th, pc[o] = "store", NEW u \in executed[o], k \in Writable[u]
        PROVE  RecordedState'[k] = RecordedState[k]
    <3>1. pc'[o] = "store"
      BY <1>1, <2>3, Zenon
    <3>2. RecordedState'[k] = results'[o][u][k]
      BY <1>1, <1>5, <2>3, <3>1, Zenon DEF TakenEffect
    <3>3. RecordedState[k] = results[o][u][k]
      BY <1>5, <2>3, Zenon DEF TakenEffect
    <3> QED
      BY <1>1, <3>2, <3>3, Zenon
  <2>4. CASE \A o \in Threads : At(o, "store") => \A u \in executed[o] : k \notin Writable[u]
    <3>1. \A o \in Threads : At(o, "store")' => \A u \in executed'[o] : k \notin Writable[u]
      BY <1>1, <2>4, Zenon
    <3>2. RecordedState'[k] = store'[Current'][k]
      BY <1>5, <3>1, Zenon DEF TakenEffect
    <3>3. RecordedState[k] = store[Current][k]
      BY <1>5, <2>4, Zenon DEF TakenEffect
    <3> QED
      BY <1>1, <1>2, <2>1, <2>4, <3>2, <3>3, Zenon
  <2> QED
    BY <2>2, <2>3, <2>4, Zenon
<1> QED
  BY <1>2, <1>6, RecordedStateIsFunction, Zenon

(* Noting the statuses does not touch it, and a new bank starts from it:   *)
(* its parent is frozen, so nothing recorded is left to be stored.         *)
LEMMA NotingKeepsState ==
    ASSUME NEW th \in Threads, TypeInv, UpdateStatuses(th)
    PROVE  RecordedState' = RecordedState /\ Current' = Current
<1>1. /\ pc[th] = "status" /\ pc' = [pc EXCEPT ![th] = "release"] /\ pc \in [Threads -> PCs]
      /\ UNCHANGED <<slot, executed, results, phase, store>>
  BY Zenon DEF UpdateStatuses, batchVars, execVars, TypeInv
<1>2. Current' = Current
  BY <1>1, CurrentKept, Zenon
<1>3. \A o \in Threads, k \in Keys : Writes(o, k)' = Writes(o, k)
  BY <1>1, <1>2, Zenon DEF Writes
<1>4. ASSUME NEW k \in Keys PROVE RecordedState'[k] = RecordedState[k]
  BY <1>1, <1>2, <1>3, Zenon DEF RecordedState
<1> QED
  BY <1>2, <1>4, RecordedStateIsFunction, Zenon

(* ... and so does the start of the next bank, which inherits it. *)
LEMMA NextBankKeepsState ==
    ASSUME Consistent, Consistent', NEW s \in Slots, StartLeader(s)
    PROVE  /\ RecordedState' = RecordedState
           /\ Current = s /\ Current' = s + 1
           /\ phase[s] = "frozen" /\ phase'[s + 1] = "open"
<1> USE DEF Consistent
<1>1. /\ phase[s] = "frozen" /\ s + 1 \in Slots /\ phase[s + 1] = "unborn"
      /\ phase' = [phase EXCEPT ![s + 1] = "open"]
      /\ store' = [store EXCEPT ![s + 1] = store[s]]
      /\ UNCHANGED <<pc, slot, executed, results>>
  BY Zenon DEF StartLeader, batchVars, execVars
<1>2. Current = s
  BY <1>1, NewestIsCurrent, SlotsAreNaturals DEF Newest
<1>3. Current' = s + 1
  <2>1. (Current \in Slots /\ Newest(Current))'
    BY CurrentNext, Zenon
  <2>2. phase'[s + 1] = "open" /\ \A r \in Slots : r > s + 1 => phase'[r] = "unborn"
    BY <1>1, <1>2, NewestIsCurrent, SlotsAreNaturals DEF Newest, TypeInv
  <2> QED
    BY <1>1, <2>1, <2>2, SlotsAreNaturals DEF Newest
<1>4. \A th \in Threads : pc[th] # "store"
  <2>1. \A th \in Threads : pc[th] = "store" => slot[th] = s /\ phase[slot[th]] \in {"open", "complete"}
    BY <1>2, PendingIsCurrent, Zenon DEF Stages
  <2> QED
    BY <1>1, <2>1, Zenon
<1>5. store'[s + 1] = store[s]
  BY <1>1, Zenon DEF TypeInv
<1>6. ASSUME NEW k \in Keys PROVE RecordedState'[k] = RecordedState[k]
  <2>1. RecordedState[k] = store[s][k]
    BY <1>2, <1>4, Zenon DEF RecordedState, Writes
  <2>2. RecordedState'[k] = store'[s + 1][k]
    BY <1>1, <1>3, <1>4, Zenon DEF RecordedState, Writes
  <2> QED
    BY <1>5, <2>1, <2>2, Zenon
<1> QED
  BY <1>1, <1>2, <1>3, <1>6, RecordedStateIsFunction DEF TypeInv

(* A recorded entry takes effect. *)
LEMMA AppendTakesEffect ==
    ASSUME Consistent, Consistent', NEW th \in Threads, Appends(th)
    PROVE  /\ RecordedState' = Stored(executed[th], results[th], RecordedState)
           /\ Current' = Current /\ slot[th] = Current /\ Current \in Slots
<1> USE DEF Consistent
<1>1. /\ pc[th] = "record" /\ pc' = [pc EXCEPT ![th] = "store"] /\ pc \in [Threads -> PCs]
      /\ phase[slot[th]] = "open"
      /\ UNCHANGED <<slot, executed, results, locked, phase, store>>
  BY AppendedEntry, Zenon DEF TypeInv
<1>2. Current' = Current
  BY <1>1, CurrentKept, Zenon
<1>3. slot[th] = Current /\ Current \in Slots
  BY <1>1, PendingIsCurrent, NewestIsCurrent, Zenon
<1>4. TakenEffect /\ TakenEffect'
  BY RecordedStateAt, TakenEffectNext, Zenon
<1>5. Compatible(executed[th]) /\ executed[th] \in SUBSET Txs
  BY BatchCompatible, Zenon
<1>6. ASSUME NEW k \in Keys
      PROVE  RecordedState'[k] = Stored(executed[th], results[th], RecordedState)[k]
  <2>1. ASSUME NEW t \in executed[th], k \in Writable[t]
        PROVE  RecordedState'[k] = Stored(executed[th], results[th], RecordedState)[k]
    <3>1. pc'[th] = "store" /\ t \in executed'[th] /\ results' = results
      BY <1>1, Zenon
    <3>2. RecordedState'[k] = results[th][t][k]
      BY <1>4, <2>1, <3>1, Zenon DEF TakenEffect
    <3>3. Stored(executed[th], results[th], RecordedState)[k] = results[th][t][k]
      BY <1>5, <2>1, StoredAt
    <3> QED
      BY <3>2, <3>3, Zenon
  <2>2. ASSUME \A t \in executed[th] : k \notin Writable[t]
        PROVE  RecordedState'[k] = Stored(executed[th], results[th], RecordedState)[k]
    <3>1. Stored(executed[th], results[th], RecordedState)[k] = RecordedState[k]
      BY <1>5, <2>2, StoredAt
    <3>2. ASSUME NEW o \in Threads, pc[o] = "store", NEW u \in executed[o], k \in Writable[u]
          PROVE  RecordedState'[k] = RecordedState[k]
      <4>1. pc'[o] = "store" /\ executed' = executed /\ results' = results
        BY <1>1, <3>2, Zenon
      <4>2. RecordedState'[k] = results'[o][u][k]
        BY <1>4, <3>2, <4>1, Zenon DEF TakenEffect
      <4>3. RecordedState[k] = results[o][u][k]
        BY <1>4, <3>2, Zenon DEF TakenEffect
      <4> QED
        BY <4>1, <4>2, <4>3, Zenon
    <3>3. ASSUME \A o \in Threads : At(o, "store") => \A u \in executed[o] : k \notin Writable[u]
          PROVE  RecordedState'[k] = RecordedState[k]
      <4>1. \A o \in Threads : At(o, "store")' => \A u \in executed'[o] : k \notin Writable[u]
        BY <1>1, <2>2, <3>3, Zenon
      <4>2. RecordedState'[k] = store'[Current'][k]
        BY <1>4, <4>1, Zenon DEF TakenEffect
      <4>3. RecordedState[k] = store[Current][k]
        BY <1>4, <3>3, Zenon DEF TakenEffect
      <4> QED
        BY <1>1, <1>2, <4>2, <4>3, Zenon
    <3> QED
      BY <3>1, <3>2, <3>3, Zenon
  <2> QED
    BY <2>1, <2>2, Zenon
<1>7. Stored(executed[th], results[th], RecordedState)
        = [k \in Keys |-> Stored(executed[th], results[th], RecordedState)[k]]
  BY Zenon DEF Stored
<1> QED
  BY <1>2, <1>3, <1>6, <1>7, RecordedStateIsFunction, Zenon

(* The results of a batch depend on the accounts it names only. *)
LEMMA SameAccountsSameResults ==
    ASSUME NEW e, NEW bh, NEW A, NEW B, \A t \in e : \A k \in AccountKeys(t) : A[k] = B[k]
    PROVE  /\ \A t \in e : LoadedBy(t, A) = LoadedBy(t, B)
           /\ Results(e, bh, A) = Results(e, bh, B)
<1>1. \A t \in e : LoadedBy(t, A) = LoadedBy(t, B)
  BY Zenon DEF LoadedBy
<1> QED
  BY <1>1, Zenon DEF Results

(* A thread comes to wait for the freeze lock with fresh results only; no  *)
(* other quiet step changes those of a batch to be recorded.               *)
LEMMA WorkKept ==
    ASSUME TypeInv, [Next]_vars, Quiet, NEW th \in Threads, ~LoadAndExecute(th),
           pc'[th] \in {"freeze_lock", "record"}, phase'[slot'[th]] = "open"
    PROVE  /\ pc[th] \in {"freeze_lock", "record"} /\ phase[slot[th]] = "open"
           /\ slot'[th] = slot[th] /\ executed'[th] = executed[th] /\ results'[th] = results[th]
<1> DEFINE Goal == /\ pc[th] \in {"freeze_lock", "record"} /\ phase[slot[th]] = "open"
                   /\ slot'[th] = slot[th] /\ executed'[th] = executed[th]
                   /\ results'[th] = results[th]
<1> USE DEF TypeInv, queueVars, batchVars, execVars, bankVars
<1>1. ASSUME NEW o \in Threads, SelectTransactions(o) PROVE Goal
  BY <1>1, Zenon DEF SelectTransactions
<1>2. ASSUME NEW o \in Threads, SettleCosts(o) PROVE Goal
  BY <1>2, Zenon DEF SettleCosts
<1>3. ASSUME NEW o \in Threads, RecordTransactions(o) PROVE Goal
  <2>1. PICK l \in {"release", "store"} : Goto(o, l)
    BY <1>3, Zenon DEF RecordTransactions
  <2> QED
    BY <1>3, <2>1, Zenon DEF RecordTransactions
<1>4. ASSUME NEW o \in Threads, LockAccounts(o) \/ CheckTransactions(o) PROVE Goal
  BY <1>4, Zenon DEF LockAccounts, CheckTransactions
<1>5. ASSUME NEW o \in Threads, LoadAndExecute(o) PROVE Goal
  BY <1>5, Zenon DEF LoadAndExecute
<1>6. ASSUME NEW o \in Threads, FreezeLock(o) \/ StoreAccounts(o) PROVE Goal
  BY <1>6, Zenon DEF FreezeLock, StoreAccounts
<1>7. ASSUME NEW o \in Threads, UpdateStatuses(o) \/ ReleaseFreezeLock(o) \/ UnlockAccounts(o)
      PROVE  Goal
  BY <1>7, Zenon DEF UpdateStatuses, ReleaseFreezeLock, UnlockAccounts
<1>8. ASSUME NEW o \in Threads, NEW t \in Txs, Receive(o, t) PROVE Goal
  BY <1>8, Zenon DEF Receive
<1>9. ASSUME NEW s \in Slots, LastTick(s) \/ Freeze(s) PROVE Goal
  BY <1>9, Zenon DEF LastTick, Freeze
<1>10. ASSUME NEW s \in Slots, StartLeader(s) PROVE FALSE
  BY <1>10 DEF StartLeader, Quiet
<1>11. CASE UNCHANGED vars
  BY <1>11, Zenon DEF vars
<1> QED
  BY <1>1, <1>2, <1>3, <1>4, <1>5, <1>6, <1>7, <1>8, <1>9, <1>10, <1>11, Zenon
     DEF Next, ThreadStep, SlotStep

(* What a batch has computed stays up to date: it holds its locks. *)
LEMMA UpToDatePreserved == Consistent /\ UpToDate /\ [Next]_vars => UpToDate'
<1> SUFFICES ASSUME Consistent, UpToDate, [Next]_vars, NEW th \in Threads,
                    pc'[th] \in {"freeze_lock", "record"}, phase'[slot'[th]] = "open"
             PROVE  /\ \A t \in executed'[th] : Loads(t, LoadedBy(t, RecordedState'))
                    /\ results'[th] = Results(executed'[th], slot'[th] - 1, RecordedState')
  BY Zenon DEF UpToDate
<1> USE DEF Consistent
<1> DEFINE Right == /\ \A t \in executed'[th] : Loads(t, LoadedBy(t, RecordedState'))
                    /\ results'[th] = Results(executed'[th], slot'[th] - 1, RecordedState')
<1>0. Consistent'
  BY ConsistentPreserved, Zenon
<1>1. ASSUME pc[th] \in {"freeze_lock", "record"}, phase[slot[th]] = "open",
             slot'[th] = slot[th], executed'[th] = executed[th], results'[th] = results[th],
             RecordedState' = RecordedState
      PROVE  Right
  BY <1>1, Zenon DEF UpToDate
<1>2. ASSUME LoadAndExecute(th) PROVE Right
  <2>1. PICK s \in Slots, e \in SUBSET Txs :
            s = slot[th] /\ e = {t \in executed[th] : Loads(t, LoadedBy(t, store[s]))}
    BY Zenon DEF TypeInv
  <2>2. /\ executed'[th] = e /\ results'[th] = Results(e, Blockhash(s), store[s])
        /\ slot'[th] = s /\ phase' = phase /\ pc[th] = "load"
    BY <1>2, <2>1, Zenon DEF LoadAndExecute, batchVars, bankVars, TypeInv
  <2>3. phase[s] = "open" /\ Blockhash(s) = s - 1 /\ s = Current
    BY <2>1, <2>2, PendingIsCurrent, Zenon DEF Blockhash
  <2>4. Quiet
    BY <1>2, Zenon DEF LoadAndExecute, Quiet, batchVars, bankVars, TypeInv
  <2>5. RecordedState' = RecordedState
    BY <1>0, <2>4, QuietKeepsState, Zenon
  <2>6. ASSUME NEW t \in e, NEW k \in AccountKeys(t) PROVE RecordedState[k] = store[s][k]
    <3>1. \A o \in Threads : At(o, "store") => \A u \in executed[o] : k \notin Writable[u]
      <4> SUFFICES ASSUME NEW o \in Threads, pc[o] = "store", NEW u \in executed[o]
                   PROVE  k \notin Writable[u]
        BY Zenon
      <4>1. o # th /\ slot[o] = slot[th]
        BY <2>1, <2>2, <2>3, PendingIsCurrent, Zenon
      <4>2. t \in locked[th] /\ u \in locked[o]
        BY <2>1, Zenon DEF Stages
      <4> QED
        BY <2>2, <2>6, <4>1, <4>2, BatchesApart, Zenon
    <3>2. k \in Keys
      BY <2>6, LedgerAssumption, Zenon DEF AccountKeys
    <3>3. TakenEffect
      BY RecordedStateAt, Zenon
    <3> QED
      BY <2>3, <3>1, <3>2, <3>3, Zenon DEF TakenEffect
  <2>7. /\ \A t \in e : LoadedBy(t, RecordedState) = LoadedBy(t, store[s])
        /\ Results(e, s - 1, RecordedState) = Results(e, s - 1, store[s])
    BY <2>6, SameAccountsSameResults
  <2> QED
    BY <2>1, <2>2, <2>3, <2>5, <2>7, Zenon
<1>3. ASSUME NEW o \in Threads, Appends(o) PROVE Right
  <2>1. /\ pc[o] = "record" /\ pc' = [pc EXCEPT ![o] = "store"] /\ phase[slot[o]] = "open"
        /\ UNCHANGED <<slot, executed, results, phase>>
    BY <1>3, AppendedEntry, Zenon
  <2>2. o # th /\ pc[th] \in {"freeze_lock", "record"} /\ phase[slot[th]] = "open"
    BY <2>1, Zenon DEF TypeInv
  <2>3. slot[o] = slot[th]
    BY <2>1, <2>2, PendingIsCurrent, Zenon
  <2>4. RecordedState' = Stored(executed[o], results[o], RecordedState)
    BY <1>0, <1>3, AppendTakesEffect, Zenon
  <2>5. ASSUME NEW t \in executed[th], NEW k \in AccountKeys(t)
        PROVE  RecordedState'[k] = RecordedState[k]
    <3>1. \A u \in executed[o] : k \notin Writable[u]
      <4> TAKE u \in executed[o]
      <4>1. t \in locked[th] /\ u \in locked[o]
        BY Zenon DEF Stages
      <4> QED
        BY <2>1, <2>2, <2>3, <2>5, <4>1, BatchesApart, Zenon
    <3>2. k \in Keys
      BY <2>5, LedgerAssumption, Zenon DEF AccountKeys, TypeInv
    <3>3. Compatible(executed[o]) /\ executed[o] \in SUBSET Txs
      BY BatchCompatible, Zenon
    <3>4. Stored(executed[o], results[o], RecordedState)[k] = RecordedState[k]
      BY <3>1, <3>2, <3>3, StoredAt
    <3> QED
      BY <2>4, <3>4, Zenon
  <2>6. PICK A, B : A = RecordedState' /\ B = RecordedState
    BY Zenon
  <2>7. /\ \A t \in executed[th] : LoadedBy(t, A) = LoadedBy(t, B)
        /\ Results(executed[th], slot[th] - 1, A) = Results(executed[th], slot[th] - 1, B)
    BY <2>5, <2>6, SameAccountsSameResults
  <2> QED
    BY <2>1, <2>2, <2>6, <2>7, Zenon DEF UpToDate
<1>4. ASSUME NEW o \in Threads, StoreAccounts(o) \/ UpdateStatuses(o) PROVE Right
  <2>1. UNCHANGED <<slot, executed, results, phase>> /\ \A x \in Threads \ {o} : pc'[x] = pc[x]
    BY <1>4, Zenon DEF StoreAccounts, UpdateStatuses, batchVars, execVars, TypeInv
  <2>2. o # th
    BY <1>4, Zenon DEF StoreAccounts, UpdateStatuses, TypeInv
  <2>3. RecordedState' = RecordedState
    BY <1>0, <1>4, StoringKeepsState, NotingKeepsState, Zenon
  <2> QED
    BY <1>1, <2>1, <2>2, <2>3, Zenon
<1>5. ASSUME NEW s \in Slots, StartLeader(s) PROVE Right
  <2>1. UNCHANGED <<pc, slot, executed, results>>
    BY <1>5, Zenon DEF StartLeader, batchVars, execVars
  <2>2. phase[slot[th]] # "unborn"
    BY <2>1, Zenon DEF Stages
  <2>3. slot[th] \in Slots /\ slot[th] # s + 1
    BY <1>5, <2>2, Zenon DEF StartLeader, TypeInv
  <2>4. phase[slot[th]] = "open"
    BY <1>5, <2>1, <2>3, Zenon DEF StartLeader, TypeInv
  <2>5. RecordedState' = RecordedState
    BY <1>0, <1>5, NextBankKeepsState, Zenon
  <2> QED
    BY <1>1, <2>1, <2>4, <2>5, Zenon
<1>6. CASE Quiet /\ ~LoadAndExecute(th)
  <2>1. RecordedState' = RecordedState
    BY <1>0, <1>6, QuietKeepsState, Zenon
  <2>2. /\ pc[th] \in {"freeze_lock", "record"} /\ phase[slot[th]] = "open"
        /\ slot'[th] = slot[th] /\ executed'[th] = executed[th] /\ results'[th] = results[th]
    BY <1>6, WorkKept, Zenon
  <2> QED
    BY <1>1, <2>1, <2>2, Zenon
<1> QED
  BY <1>2, <1>3, <1>4, <1>5, <1>6, QuietSteps, Zenon

-----------------------------------------------------------------------------
(* The invariant. *)
LEMMA InitIInv == Init => IInv
<1> SUFFICES ASSUME Init PROVE IInv
  BY Zenon
<1> USE SlotsAreNaturals DEF Init
<1>1. TypeInv
  BY LedgerAssumption DEF TypeInv, PCs, NoLocks
<1>2. Chain
  BY DEF Chain, Newest
<1>3. Stages
  BY Zenon DEF Stages, Compatible
<1>4. LocksHeld
  <2>1. \A s \in Slots : Holders(s) = {}
    BY Zenon DEF Holders
  <2>2. Cardinality({}) = 0
    BY FS_EmptySet, Zenon
  <2>3. \A s \in Slots : locks[s].write = {} /\ \A k \in Keys : locks[s].read[k] = 0
    BY Zenon DEF NoLocks
  <2> SUFFICES ASSUME NEW s \in Slots
               PROVE  /\ locks[s].write = UNION {Writable[h[2]] : h \in Holders(s)}
                      /\ \A k \in Keys : locks[s].read[k] =
                              Cardinality({h \in Holders(s) : k \in Readonly[h[2]]})
                      /\ \A g, h \in Holders(s) : g # h => ~Conflict(g[2], h[2])
    BY Zenon DEF LocksHeld
  <2>4. \A k \in Keys : {h \in Holders(s) : k \in Readonly[h[2]]} = {}
    BY <2>1, Zenon
  <2> QED
    BY <2>1, <2>2, <2>3, <2>4, Zenon
<1>5. Noted
  BY DEF Noted, EntriesOf, Pending
<1>6. Fresh /\ UpToDate /\ Young
  BY Zenon DEF Fresh, UpToDate, Young
<1> QED
  BY <1>1, <1>2, <1>3, <1>4, <1>5, <1>6, Zenon DEF IInv

(* The inductive invariant of the stage *)
LEMMA IInvInductive == IInv /\ [Next]_vars => IInv'
  BY TypePreserved, ChainPreserved, StagesPreserved, LocksPreserved, NotedPreserved,
     FreshPreserved, UpToDatePreserved, YoungPreserved, Zenon DEF IInv, Consistent

(* ... which holds for ever. *)
LEMMA IInvAlways == Spec => []IInv
  BY InitIInv, IInvInductive, PTL DEF Spec

(* The lock table of every bank is exactly what the batches in flight      *)
(* hold, and no two of them conflict (lock_accounts, unlock_accounts).     *)
THEOREM LocksAlwaysHeld == Spec => []LocksHeld
<1>1. IInv => LocksHeld
  BY Zenon DEF IInv
<1> QED
  BY <1>1, IInvAlways, PTL

(* No step changes a frozen bank, and what was recorded in its slot was    *)
(* noted as processed before the freeze (freeze, commit_transactions).     *)
THEOREM FrozenStaysFinal == Spec => FrozenIsFinal
<1> DEFINE Final == \A s \in Slots : phase[s] = "frozen" =>
                       /\ store'[s] = store[s]
                       /\ status'[s] = status[s]
                       /\ blocks'[s] = blocks[s]
                       /\ status[s] = EntriesOf(s)
<1>1. ASSUME IInv, [Next]_vars PROVE Final
  <2> SUFFICES ASSUME NEW s \in Slots, phase[s] = "frozen"
               PROVE  /\ store'[s] = store[s] /\ status'[s] = status[s]
                      /\ blocks'[s] = blocks[s] /\ status[s] = EntriesOf(s)
    BY Zenon
  <2> USE <1>1 DEF IInv
  <2>1. status[s] = EntriesOf(s)
    <3>1. Pending(s) = {}
      BY Zenon DEF Pending, Stages
    <3> QED
      BY <3>1 DEF Noted
  <2>2. CASE Quiet
    BY <2>1, <2>2, Zenon DEF Quiet
  <2>3. ASSUME NEW th \in Threads, Appends(th)
        PROVE  store'[s] = store[s] /\ status'[s] = status[s] /\ blocks'[s] = blocks[s]
    <3>1. /\ blocks' = [blocks EXCEPT ![slot[th]] = Append(@, executed[th])]
          /\ phase[slot[th]] = "open" /\ UNCHANGED <<status, store>>
      BY <2>3, AppendedEntry, Zenon
    <3> QED
      BY <3>1, Zenon DEF TypeInv
  <2>4. ASSUME NEW th \in Threads, StoreAccounts(th) \/ UpdateStatuses(th)
        PROVE  store'[s] = store[s] /\ status'[s] = status[s] /\ blocks'[s] = blocks[s]
    <3>1. slot[th] # s
      BY <2>4, Zenon DEF StoreAccounts, UpdateStatuses, Stages
    <3> QED
      BY <2>4, <3>1, Zenon DEF StoreAccounts, UpdateStatuses, TypeInv
  <2>5. ASSUME NEW r \in Slots, StartLeader(r)
        PROVE  store'[s] = store[s] /\ status'[s] = status[s] /\ blocks'[s] = blocks[s]
    BY <2>5, Zenon DEF StartLeader, TypeInv
  <2> QED
    BY <2>1, <2>2, <2>3, <2>4, <2>5, QuietSteps, Zenon
<1> QED
  BY <1>1, IInvAlways, PTL DEF Spec, FrozenIsFinal

-----------------------------------------------------------------------------
(* The refinement: recording appends an entry, the last tick seals the     *)
(* block, the start of the next bank starts the next block, and every      *)
(* other step leaves the ledger alone.                                     *)
LEMMA InitMaps == Init => Ledger!LedgerInit
<1> SUFFICES ASSUME Init PROVE Ledger!LedgerInit
  BY Zenon
<1>1. 1 \in Slots /\ Newest(1)
  BY SlotsAreNaturals DEF Init, Newest
<1>2. Current = 1
  BY <1>1, CurrentIsNewest, Zenon
<1>3. RecordedState = GenesisStore
  <2>1. store[1] = GenesisStore /\ \A th \in Threads : pc[th] = "idle"
    BY <1>1, Zenon DEF Init
  <2>2. \A k \in Keys : RecordedState[k] = GenesisStore[k]
    BY <1>2, <2>1, Zenon DEF RecordedState, Writes
  <2> QED
    BY <2>2, RecordedStateIsFunction, LedgerAssumption, Zenon
<1> QED
  BY <1>1, <1>2, <1>3, Zenon DEF Init, Ledger!LedgerInit, Ledger!Slots

(* A recorded batch is an entry of the ledger. *)
LEMMA AppendMaps ==
    ASSUME IInv, IInv', NEW th \in Threads, Appends(th)
    PROVE  Ledger!AppendEntry(executed[th])
<1> USE DEF IInv
<1>1. /\ pc[th] = "record" /\ executed[th] # {} /\ phase[slot[th]] = "open"
      /\ blocks' = [blocks EXCEPT ![slot[th]] = Append(@, executed[th])]
      /\ phase' = phase
  BY AppendedEntry, Zenon
<1>2. /\ RecordedState' = Stored(executed[th], results[th], RecordedState)
      /\ Current' = Current /\ slot[th] = Current /\ Current \in Slots
  BY AppendTakesEffect, Zenon DEF Consistent
<1>3. /\ \A t \in executed[th] : Loads(t, LoadedBy(t, RecordedState))
      /\ results[th] = Results(executed[th], Current - 1, RecordedState)
  BY <1>1, <1>2, Zenon DEF UpToDate
<1>4. executed[th] \cap Ledger!Processed = {}
  <2>1. \A s \in Slots : executed[th] \cap EntriesOf(s) = {}
    BY <1>1, Zenon DEF Fresh
  <2> QED
    BY <2>1, Zenon DEF Ledger!Processed, Ledger!Slots, EntriesOf
<1>5. Ledger!Compatible(executed[th])
  BY BatchCompatible, Zenon DEF Ledger!Compatible, Ledger!Conflict, Ledger!AccountKeys,
                         Compatible, Conflict, AccountKeys
<1>6. \A t \in executed[th] : Ledger!LoadedBy(t, RecordedState) = LoadedBy(t, RecordedState)
  BY Zenon DEF Ledger!LoadedBy, LoadedBy, Ledger!AccountKeys, AccountKeys
<1>7. Ledger!Results(executed[th], Current - 1, RecordedState)
        = Results(executed[th], Current - 1, RecordedState)
  BY <1>6, Zenon DEF Ledger!Results, Results
<1>8. Ledger!Stored(executed[th], results[th], RecordedState)
        = Stored(executed[th], results[th], RecordedState)
  BY Zenon DEF Ledger!Stored, Stored
<1>9. \A t \in executed[th] : Ledger!Age(t, Current - 1) <= MaxAge
  BY <1>2, Zenon DEF Young, Ledger!Age, Age
<1> QED
  BY <1>1, <1>2, <1>3, <1>4, <1>5, <1>6, <1>7, <1>8, <1>9, Zenon DEF Ledger!AppendEntry

(* Every step is a step of the ledger or none. *)
LEMMA StepMaps ==
    IInv /\ IInv' /\ [Next]_vars => [Ledger!LedgerNext]_(Ledger!ledgerVars)
<1> SUFFICES ASSUME IInv, IInv', [Next]_vars
             PROVE  [Ledger!LedgerNext]_(Ledger!ledgerVars)
  BY Zenon
<1>0. Consistent /\ Consistent'
  BY Zenon DEF IInv, Consistent
<1>1. ASSUME NEW th \in Threads, Appends(th) PROVE Ledger!LedgerNext
  <2>1. executed[th] \in SUBSET Txs
    BY Zenon DEF IInv, TypeInv
  <2> QED
    BY <1>1, <2>1, AppendMaps, Zenon DEF Ledger!LedgerNext
<1>2. ASSUME NEW th \in Threads, StoreAccounts(th) \/ UpdateStatuses(th)
      PROVE  UNCHANGED Ledger!ledgerVars
  <2>1. RecordedState' = RecordedState /\ Current' = Current
    BY <1>0, <1>2, StoringKeepsState, NotingKeepsState, Zenon DEF Consistent
  <2>2. UNCHANGED <<phase, blocks>>
    BY <1>2, Zenon DEF StoreAccounts, UpdateStatuses
  <2> QED
    BY <2>1, <2>2, Zenon DEF Ledger!ledgerVars
<1>3. ASSUME NEW s \in Slots, StartLeader(s) PROVE Ledger!NextBlock
  <2>1. /\ RecordedState' = RecordedState /\ Current = s /\ Current' = s + 1
        /\ phase[s] = "frozen" /\ phase'[s + 1] = "open"
    BY <1>0, <1>3, NextBankKeepsState, Zenon
  <2>2. s + 1 \in Slots /\ blocks' = blocks
    BY <1>3, Zenon DEF StartLeader
  <2>3. s < LastSlot
    BY <2>2, SlotsAreNaturals, LedgerAssumption
  <2> QED
    BY <2>1, <2>2, <2>3, Zenon DEF Ledger!NextBlock
<1>4. ASSUME Quiet PROVE Ledger!Seal \/ UNCHANGED Ledger!ledgerVars
  <2>1. RecordedState' = RecordedState /\ Current' = Current /\ blocks' = blocks
    BY <1>0, <1>4, QuietKeepsState, Zenon DEF Quiet
  <2>2. phase' = phase \/ \E s \in Slots : LastTick(s) \/ Freeze(s)
    <3>1. \A s \in Slots : ~StartLeader(s)
      BY <1>0, <1>4, Zenon DEF Quiet, StartLeader, Consistent, TypeInv
    <3> QED
      BY <3>1, Zenon DEF Next, ThreadStep, SlotStep, Receive, SelectTransactions, LockAccounts,
         CheckTransactions, LoadAndExecute, FreezeLock, RecordTransactions, StoreAccounts,
         UpdateStatuses, ReleaseFreezeLock, UnlockAccounts, SettleCosts, vars, bankVars
  <2>3. CASE phase' = phase
    BY <2>1, <2>3, Zenon DEF Ledger!ledgerVars
  <2>4. ASSUME NEW s \in Slots, Freeze(s) PROVE UNCHANGED Ledger!ledgerVars
    <3>1. Current \in Slots
      BY <1>0, NewestIsCurrent, Zenon DEF Consistent
    <3>2. phase'[Current] = "open" <=> phase[Current] = "open"
      BY <2>4, <1>0, <3>1, Zenon DEF Freeze, Consistent, TypeInv
    <3>3. (phase'[Current] = "open") = (phase[Current] = "open")
      BY <3>2, Zenon
    <3> QED
      BY <2>1, <3>3, Zenon DEF Ledger!ledgerVars
  <2>5. ASSUME NEW s \in Slots, LastTick(s) PROVE Ledger!Seal
    <3>1. s = Current
      BY <1>0, <2>5, NewestIsCurrent, SlotsAreNaturals DEF LastTick, Newest, Consistent
    <3>2. phase[Current] = "open" /\ phase'[Current] = "complete"
      BY <1>0, <2>5, <3>1, Zenon DEF LastTick, Consistent, TypeInv
    <3> QED
      BY <2>1, <3>2, Zenon DEF Ledger!Seal
  <2> QED
    BY <2>2, <2>3, <2>4, <2>5, Zenon
<1> QED
  BY <1>1, <1>2, <1>3, <1>4, <1>0, QuietSteps, Zenon DEF Consistent, Ledger!LedgerNext

(* The blocks the leader records are blocks that replay, for every number  *)
(* of banking threads, every set of transactions and every slot, and       *)
(* whatever the transactions compute (process_and_record_transactions, the *)
(* PoH recorder's record, freeze and maybe_start_leader together).         *)
THEOREM BlocksAlwaysReplay == Spec => BlocksReplay
  BY IInvAlways, InitMaps, StepMaps, PTL DEF Spec, BlocksReplay, Ledger!LedgerSpec

-----------------------------------------------------------------------------
(* The cost tracker *)

(* What a transaction costs is a number. *)
LEMMA PriceType ==
    ASSUME NEW units \in [Txs -> Nat], NEW d, NEW t \in Txs
    PROVE  Price(units, d)[t] \in Nat
<1>1. DataSize[t] \in Nat /\ units[t] \in Nat /\ 0 \in Nat
  BY StageAssumption
<1> QED
  BY <1>1, Zenon DEF Price

(* The costs of a set of transactions add up. *)
LEMMA TotalType ==
    ASSUME NEW units \in [Txs -> Nat], NEW e \in SUBSET Txs, NEW d
    PROVE  Total(units, e, d) \in Nat
<1>1. IsFiniteSet({t \in e : d \in Charged(t)})
  BY StageAssumption, FS_Subset, Zenon
<1>2. \A t \in {u \in e : d \in Charged(u)} : Price(units, d)[t] \in Nat
  BY PriceType, Zenon
<1> QED
  BY <1>1, <1>2, SumType, Zenon DEF Total

(* Costs of different transactions add up. *)
LEMMA TotalUnion ==
    ASSUME NEW units \in [Txs -> Nat], NEW e \in SUBSET Txs, NEW f \in SUBSET Txs,
           e \cap f = {}, NEW d
    PROVE  Total(units, e \cup f, d) = Total(units, e, d) + Total(units, f, d)
<1> DEFINE E == {t \in e : d \in Charged(t)}
           F == {t \in f : d \in Charged(t)}
           price == Price(units, d)
<1>1. IsFiniteSet(E) /\ IsFiniteSet(F)
  BY StageAssumption, FS_Subset, Zenon
<1>2. /\ {t \in e \cup f : d \in Charged(t)} = E \cup F
      /\ E \cap F = {}
      /\ \A t \in E \cup F : price[t] \in Nat
  BY PriceType, Zenon
<1>3. SumFunctionOnSet(price, E \cup F) = SumFunctionOnSet(price, E) + SumFunctionOnSet(price, F)
  <2> HIDE DEF E, F, price
  <2> QED
    BY <1>1, <1>2, SumUnion, Zenon
<1> QED
  BY <1>2, <1>3, Zenon DEF Total

(* What the cost tracker of a bank holds for its batches in flight *)
Busy(s) == {th \in Threads : slot[th] = s /\ pc[th] # "idle"}

Unsettled(s) == UNION {committed[th] : th \in Busy(s)}

Reservation(d) == [th \in Threads |-> Total(Estimate, included[th], d)]

Early == {"idle", "lock", "check", "load", "freeze_lock", "record"}

(* What a batch has recorded is in the block, for as long as it has not    *)
(* settled its costs, and in no other batch.                               *)
Commits ==
    \A th \in Threads :
        /\ committed[th] \subseteq EntriesOf(slot[th])
        /\ pc[th] \in Early => committed[th] = {}
        /\ \A o \in Threads : o # th /\ slot[o] = slot[th] =>
              committed[th] \cap committed[o] = {}

CostType == cost \in [Slots -> [Tracked -> Nat]]

Exact(s, d) ==
    cost[s][d] = Total(Actual, EntriesOf(s) \ Unsettled(s), d)
                   + SumFunctionOnSet(Reservation(d), Busy(s))

(* Exactness, account by account *)
LEMMA ExactIsCostExact ==
    /\ CostExact <=> \A s \in Slots, d \in Tracked : Exact(s, d)
    /\ CostExact' <=> \A s \in Slots, d \in Tracked : Exact(s, d)'
  BY Zenon DEF CostExact, Exact, Reservation, Unsettled, Busy

CostInv == Commits /\ CostType /\ CostExact

(* The transactions of a bank and of its batches *)
LEMMA CostSets ==
    ASSUME TypeInv, NEW s \in Slots, NEW d
    PROVE  /\ EntriesOf(s) \in SUBSET Txs
           /\ Busy(s) \in SUBSET Threads /\ IsFiniteSet(Busy(s))
           /\ \A th \in Threads : Reservation(d)[th] = Total(Estimate, included[th], d)
           /\ \A th \in Threads : Reservation(d)[th] \in Nat
           /\ SumFunctionOnSet(Reservation(d), Busy(s)) \in Nat
<1>1. EntriesOf(s) \in SUBSET Txs
  BY DEF TypeInv, EntriesOf
<1>2. Busy(s) \in SUBSET Threads /\ IsFiniteSet(Busy(s))
  BY StageAssumption, FS_Subset, Zenon DEF Busy
<1>3. \A th \in Threads : Reservation(d)[th] = Total(Estimate, included[th], d)
  BY Zenon DEF Reservation
<1>4. \A th \in Threads : Reservation(d)[th] \in Nat
  <2> TAKE th \in Threads
  <2>1. included[th] \in SUBSET Txs /\ Estimate \in [Txs -> Nat]
    BY StageAssumption, Zenon DEF TypeInv
  <2> QED
    BY <1>3, <2>1, TotalType, Zenon
<1>5. SumFunctionOnSet(Reservation(d), Busy(s)) \in Nat
  BY <1>2, <1>4, SumType, Zenon
<1> QED
  BY <1>1, <1>2, <1>3, <1>4, <1>5, Zenon

(* Steps that neither reserve, nor record, nor settle *)
CostQuiet ==
    /\ UNCHANGED <<cost, included, committed, slot, blocks>>
    /\ \A th \in Threads :
          /\ (pc'[th] = "idle") = (pc[th] = "idle")
          /\ pc'[th] \in Early => pc[th] \in Early

(* They keep the costs as they are. *)
LEMMA CostQuietKeeps == CostInv /\ CostQuiet => CostInv'
<1> SUFFICES ASSUME CostInv, CostQuiet PROVE CostInv'
  BY Zenon
<1>1. \A s : EntriesOf(s)' = EntriesOf(s)
  BY Zenon DEF CostQuiet, EntriesOf
<1>2. Commits' /\ CostType'
  BY <1>1, Zenon DEF CostInv, CostQuiet, Commits, CostType
<1>3. \A s : Busy(s)' = Busy(s)
  BY Zenon DEF CostQuiet, Busy
<1>4. \A s : Unsettled(s)' = Unsettled(s)
  BY <1>3, Zenon DEF Unsettled, CostQuiet
<1>5. \A d : Reservation(d)' = Reservation(d)
  BY Zenon DEF Reservation, CostQuiet
<1>6. CostExact'
  <2>1. ASSUME NEW s \in Slots, NEW d \in Tracked
        PROVE  Exact(s, d)'
    <3>1. Exact(s, d)
      BY ExactIsCostExact, Zenon DEF CostInv
    <3> QED
      BY <1>1, <1>3, <1>4, <1>5, <3>1, Zenon DEF Exact, CostQuiet
  <2> QED
    BY <2>1, ExactIsCostExact, Zenon
<1> QED
  BY <1>2, <1>6, Zenon DEF CostInv

(* A batch that is selected reserves its estimates. *)
LEMMA SelectKeepsCosts ==
    ASSUME TypeInv, TypeInv', CostInv, NEW th \in Threads, SelectTransactions(th)
    PROVE  CostInv'
<1>1. PICK s \in Slots, e \in SUBSET Txs :
        /\ pc[th] = "idle" /\ pc' = [pc EXCEPT ![th] = "lock"]
        /\ slot' = [slot EXCEPT ![th] = s]
        /\ included' = [included EXCEPT ![th] = e]
        /\ cost' = [cost EXCEPT ![s] = [d \in DOMAIN @ |-> @[d] + Total(Estimate, e, d)]]
        /\ committed' = committed /\ blocks' = blocks
  <2>1. PICK s \in Slots, e \in SUBSET buffer[th] :
          /\ slot' = [slot EXCEPT ![th] = s]
          /\ included' = [included EXCEPT ![th] = e]
          /\ cost' = [cost EXCEPT ![s] = [d \in DOMAIN @ |-> @[d] + Total(Estimate, e, d)]]
    BY Zenon DEF SelectTransactions
  <2>2. /\ pc[th] = "idle" /\ pc' = [pc EXCEPT ![th] = "lock"]
        /\ committed' = committed /\ blocks' = blocks
    BY Zenon DEF SelectTransactions, execVars
  <2>3. e \in SUBSET Txs
    BY Zenon DEF TypeInv
  <2> QED
    BY <2>1, <2>2, <2>3, Zenon
<1>2. \A r : EntriesOf(r)' = EntriesOf(r)
  BY <1>1, Zenon DEF EntriesOf
<1>3. committed[th] = {}
  BY <1>1, Zenon DEF CostInv, Commits, Early
<1>4. Commits'
  BY <1>1, <1>2, <1>3 DEF CostInv, Commits, TypeInv, Early
<1>5. /\ cost' \in [Slots -> [Tracked -> Nat]]
      /\ \A d \in Tracked : cost'[s][d] = cost[s][d] + Total(Estimate, e, d)
      /\ \A r \in Slots \ {s} : cost'[r] = cost[r]
  <2> DEFINE c == [d \in Tracked |-> cost[s][d] + Total(Estimate, e, d)]
  <2>1. \A d : Total(Estimate, e, d) \in Nat
    BY TotalType, StageAssumption, Zenon
  <2>2. cost \in [Slots -> [Tracked -> Nat]]
    BY Zenon DEF CostInv, CostType
  <2>3. cost' = [cost EXCEPT ![s] = c]
    BY <1>1, <2>2, Zenon
  <2>4. c \in [Tracked -> Nat]
    BY <2>1, <2>2
  <2>5. \A d \in Tracked : c[d] = cost[s][d] + Total(Estimate, e, d)
    BY Zenon
  <2> HIDE DEF c
  <2> QED
    BY <2>2, <2>3, <2>4, <2>5, Zenon
<1>6. /\ Busy(s)' = Busy(s) \cup {th} /\ th \notin Busy(s)
      /\ \A r \in Slots \ {s} : Busy(r)' = Busy(r)
  BY <1>1 DEF Busy, TypeInv
<1>7. \A r \in Slots : Unsettled(r)' = Unsettled(r)
  BY <1>1, <1>3, <1>6 DEF Unsettled
<1>8. ASSUME NEW r \in Slots, NEW d
      PROVE  \A o \in Busy(r) : Reservation(d)'[o] = Reservation(d)[o]
  BY <1>1, Zenon DEF Busy, Reservation, TypeInv
<1>9. ASSUME NEW r \in Slots, NEW d \in Tracked
      PROVE  Exact(r, d)'
  <2>1. Exact(r, d)
    BY <1>9, ExactIsCostExact, Zenon DEF CostInv
  <2>2. /\ EntriesOf(r) \in SUBSET Txs /\ IsFiniteSet(Busy(r))
        /\ SumFunctionOnSet(Reservation(d), Busy(r)) \in Nat
    BY CostSets, Zenon
  <2>3. SumFunctionOnSet(Reservation(d)', Busy(r)) = SumFunctionOnSet(Reservation(d), Busy(r))
    BY <1>8, <2>2, SumEqual, Zenon
  <2>4. CASE r # s
    BY <1>2, <1>5, <1>6, <1>7, <2>1, <2>3, <2>4, Zenon DEF Exact
  <2>5. CASE r = s
    <3>1. /\ IsFiniteSet(Busy(s)')
          /\ \A o \in Busy(s)' : Reservation(d)'[o] \in Nat
          /\ Reservation(d)'[th] = Total(Estimate, e, d)
      <4>1. Busy(s)' \in SUBSET Threads
        BY Zenon DEF Busy
      <4>2. \A o \in Threads : Reservation(d)'[o] = Total(Estimate, included'[o], d)
        BY Zenon DEF Reservation
      <4>3. \A o \in Threads : Total(Estimate, included'[o], d) \in Nat
        BY TotalType, StageAssumption, Zenon DEF TypeInv
      <4>4. included'[th] = e
        BY <1>1, Zenon DEF TypeInv
      <4> QED
        BY <4>1, <4>2, <4>3, <4>4, StageAssumption, FS_Subset, Zenon
    <3>2. SumFunctionOnSet(Reservation(d)', Busy(s)')
            = Total(Estimate, e, d) + SumFunctionOnSet(Reservation(d)', Busy(s)' \ {th})
      <4>1. th \in Busy(s)'
        BY <1>6, Zenon
      <4> QED
        BY <3>1, <4>1, SumRemove
    <3>3. Busy(s)' \ {th} = Busy(s)
      BY <1>6, Zenon
    <3>4. /\ Total(Estimate, e, d) \in Nat
          /\ Total(Actual, EntriesOf(s) \ Unsettled(s), d) \in Nat
      BY <2>2, <2>5, TotalType, StageAssumption, Zenon
    <3>5. cost[s][d] = Total(Actual, EntriesOf(s) \ Unsettled(s), d)
                         + SumFunctionOnSet(Reservation(d), Busy(s))
      BY <2>1, <2>5, Zenon DEF Exact
    <3>6. cost'[s][d] = Total(Actual, EntriesOf(s) \ Unsettled(s), d)
                          + SumFunctionOnSet(Reservation(d)', Busy(s)')
      <4> DEFINE old == SumFunctionOnSet(Reservation(d), Busy(s))
                 new == SumFunctionOnSet(Reservation(d)', Busy(s)')
                 est == Total(Estimate, e, d)
                 act == Total(Actual, EntriesOf(s) \ Unsettled(s), d)
      <4>1. old \in Nat /\ new = est + old
        BY <2>2, <2>3, <2>5, <3>2, <3>3, Zenon
      <4>2. /\ cost'[s][d] = cost[s][d] + est /\ cost[s][d] = act + old
            /\ est \in Nat /\ act \in Nat
        BY <1>5, <3>4, <3>5, Zenon
      <4> HIDE DEF old, new, est, act
      <4>3. cost'[s][d] = act + new
        BY <4>1, <4>2
      <4> QED
        BY <4>3, Zenon DEF act, new
    <3>7. EntriesOf(s)' = EntriesOf(s) /\ Unsettled(s)' = Unsettled(s)
      BY <1>2, <1>7, Zenon
    <3> QED
      BY <2>5, <3>6, <3>7, Zenon DEF Exact
  <2> QED
    BY <2>4, <2>5, Zenon
<1>10. CostExact'
  BY <1>9, ExactIsCostExact, Zenon
<1> QED
  BY <1>4, <1>5, <1>10, Zenon DEF CostInv, CostType

(* A batch that is recorded is in the block; its reservation still stands  *)
(* for it.                                                                 *)
LEMMA AppendKeepsCosts ==
    ASSUME TypeInv, CostInv, Fresh, NEW th \in Threads, Appends(th)
    PROVE  CostInv'
<1>1. PICK s \in Slots, e \in SUBSET Txs : s = slot[th] /\ e = executed[th]
  BY Zenon DEF TypeInv
<1>2. /\ pc[th] = "record" /\ pc' = [pc EXCEPT ![th] = "store"] /\ phase[s] = "open"
      /\ committed' = [committed EXCEPT ![th] = e]
      /\ UNCHANGED <<slot, included, cost>>
      /\ EntriesOf(s)' = EntriesOf(s) \cup e
      /\ \A r \in Slots \ {s} : EntriesOf(r)' = EntriesOf(r)
  BY <1>1, AppendedEntry, Zenon
<1>3. e \cap EntriesOf(s) = {}
  BY <1>1, <1>2, Zenon DEF Fresh
<1>4. /\ committed'[th] = e /\ committed[th] = {}
      /\ \A o \in Threads \ {th} : committed'[o] = committed[o]
  BY <1>2, Zenon DEF TypeInv, CostInv, Commits, Early
<1>5. Commits'
  <2>1. \A o \in Threads : slot[o] \in Slots /\ committed[o] \subseteq EntriesOf(slot[o])
    BY Zenon DEF TypeInv, CostInv, Commits
  <2>2. \A o \in Threads : committed'[o] \subseteq EntriesOf(slot[o])'
    BY <1>1, <1>2, <1>4, <2>1
  <2>3. \A o \in Threads : pc'[o] \in Early => committed'[o] = {}
    BY <1>2, <1>4, Zenon DEF TypeInv, CostInv, Commits, Early
  <2>4. \A o \in Threads \ {th} : slot[o] = s => committed[o] \cap e = {}
    BY <1>3, <2>1, Zenon
  <2>5. ASSUME NEW o \in Threads, NEW p \in Threads, o # p, slot[p] = slot[o]
        PROVE  committed'[o] \cap committed'[p] = {}
    <3>1. committed[o] \cap committed[p] = {}
      BY <2>5, Zenon DEF CostInv, Commits
    <3> QED
      BY <1>1, <1>4, <2>4, <2>5, <3>1
  <2> QED
    BY <1>2, <2>2, <2>3, <2>5, Zenon DEF Commits
<1>6. CostType'
  BY <1>2, Zenon DEF CostInv, CostType
<1>7. \A r : Busy(r)' = Busy(r)
  BY <1>2, Zenon DEF Busy, TypeInv
<1>8. th \in Busy(s) /\ \A r \in Slots \ {s} : th \notin Busy(r)
  BY <1>1, <1>2, Zenon DEF Busy
<1>9. /\ Unsettled(s)' = Unsettled(s) \cup e
      /\ \A r \in Slots \ {s} : Unsettled(r)' = Unsettled(r)
  <2>1. \A r : \A o \in Busy(r) : o \in Threads
    BY Zenon DEF Busy
  <2> QED
    BY <1>4, <1>7, <1>8, <2>1 DEF Unsettled
<1>10. \A r \in Slots : EntriesOf(r)' \ Unsettled(r)' = EntriesOf(r) \ Unsettled(r)
  BY <1>2, <1>3, <1>9, Zenon
<1>11. \A d : Reservation(d)' = Reservation(d)
  BY <1>2, Zenon DEF Reservation
<1>12. ASSUME NEW r \in Slots, NEW d \in Tracked
       PROVE  Exact(r, d)'
  <2>1. Exact(r, d)
    BY ExactIsCostExact, Zenon DEF CostInv
  <2> QED
    BY <1>2, <1>7, <1>10, <1>11, <2>1, Zenon DEF Exact
<1>13. CostExact'
  BY <1>12, ExactIsCostExact, Zenon
<1> QED
  BY <1>5, <1>6, <1>13, Zenon DEF CostInv

(* A settled batch gives its reservation back and is charged its cost. *)
LEMMA SettleKeepsCosts ==
    ASSUME TypeInv, TypeInv', CostInv, NEW th \in Threads, SettleCosts(th)
    PROVE  CostInv'
<1>1. PICK s \in Slots, e \in SUBSET Txs, k \in SUBSET Txs :
          s = slot[th] /\ e = included[th] /\ k = committed[th]
  BY Zenon DEF TypeInv
<1>2. /\ pc[th] = "costs" /\ pc' = [pc EXCEPT ![th] = "idle"]
      /\ slot' = [slot EXCEPT ![th] = 1]
      /\ included' = [included EXCEPT ![th] = {}]
      /\ committed' = [committed EXCEPT ![th] = {}]
      /\ cost' = [cost EXCEPT ![s] = Settled(@, e, k)]
      /\ blocks' = blocks
  BY <1>1, Zenon DEF SettleCosts
<1>3. \A r : EntriesOf(r)' = EntriesOf(r)
  BY <1>2, Zenon DEF EntriesOf
<1>4. /\ committed'[th] = {} /\ pc'[th] = "idle"
      /\ \A o \in Threads \ {th} : /\ committed'[o] = committed[o] /\ pc'[o] = pc[o]
                                   /\ slot'[o] = slot[o] /\ included'[o] = included[o]
  BY <1>2, Zenon DEF TypeInv
<1>5. Commits'
  BY <1>3, <1>4 DEF CostInv, Commits
<1>6. /\ th \in Busy(s) /\ Busy(s)' = Busy(s) \ {th}
      /\ \A r \in Slots \ {s} : Busy(r)' = Busy(r) /\ th \notin Busy(r)
  BY <1>1, <1>2, <1>4, Zenon DEF Busy
<1>7. \A r \in Slots : Unsettled(r)' = UNION {committed[o] : o \in Busy(r) \ {th}}
  <2>1. \A r \in Slots : Busy(r)' = Busy(r) \ {th} /\ Busy(r) \subseteq Threads
    BY <1>6 DEF Busy
  <2>2. \A r \in Slots : \A o \in Busy(r) \ {th} : committed'[o] = committed[o]
    BY <1>4, <2>1, Zenon
  <2> QED
    BY <2>1, <2>2, Zenon DEF Unsettled
<1>8. \A r \in Slots \ {s} : Unsettled(r)' = Unsettled(r)
  BY <1>6, <1>7 DEF Unsettled
<1>9. /\ EntriesOf(s) \ Unsettled(s)' = (EntriesOf(s) \ Unsettled(s)) \cup k
      /\ (EntriesOf(s) \ Unsettled(s)) \cap k = {}
  <2>1. Unsettled(s) = Unsettled(s)' \cup k
    BY <1>1, <1>6, <1>7 DEF Unsettled
  <2>2. k \subseteq EntriesOf(s)
    BY <1>1, Zenon DEF CostInv, Commits
  <2>3. k \cap Unsettled(s)' = {}
    <3>1. \A o \in Busy(s) \ {th} : committed[o] \cap k = {}
      BY <1>1, Zenon DEF CostInv, Commits, Busy
    <3> QED
      BY <1>7, <3>1
  <2> QED
    BY <2>1, <2>2, <2>3, Zenon
<1>10. ASSUME NEW r \in Slots, NEW d
       PROVE  \A o \in Busy(r) \ {th} : Reservation(d)'[o] = Reservation(d)[o]
  BY <1>4, Zenon DEF Busy, Reservation
<1>11. ASSUME NEW d \in Tracked
       PROVE  /\ Exact(s, d)'
              /\ Settled(cost[s], e, k)[d] \in Nat
  <2> DEFINE act == Total(Actual, EntriesOf(s) \ Unsettled(s), d)
             now == Total(Actual, k, d)
             est == Total(Estimate, e, d)
             old == SumFunctionOnSet(Reservation(d), Busy(s))
             rest == SumFunctionOnSet(Reservation(d), Busy(s) \ {th})
  <2>1. /\ EntriesOf(s) \in SUBSET Txs
        /\ Busy(s) \in SUBSET Threads /\ IsFiniteSet(Busy(s))
        /\ Reservation(d)[th] = Total(Estimate, included[th], d)
        /\ \A o \in Threads : Reservation(d)[o] \in Nat
    BY CostSets, Zenon
  <2>2. IsFiniteSet(Busy(s) \ {th})
    BY <2>1, FS_Subset, Zenon
  <2>3. Reservation(d)[th] = est
    BY <1>1, <2>1, Zenon
  <2>4. old = est + rest
    <3>1. \A o \in Busy(s) : Reservation(d)[o] \in Nat
      BY <2>1, Zenon
    <3>2. old = Reservation(d)[th] + rest
      BY <1>6, <2>1, <3>1, SumRemove
    <3> QED
      BY <2>3, <3>2, Zenon
  <2>5. rest \in Nat
    <3>1. \A o \in Busy(s) \ {th} : Reservation(d)[o] \in Nat
      BY <2>1, Zenon
    <3> QED
      BY <2>2, <3>1, SumType, Zenon
  <2>6. act \in Nat /\ now \in Nat /\ est \in Nat
    BY <2>1, TotalType, StageAssumption, Zenon
  <2>7. cost[s][d] = act + old
    <3>1. Exact(s, d)
      BY ExactIsCostExact, Zenon DEF CostInv
    <3> QED
      BY <3>1, Zenon DEF Exact
  <2>8. DOMAIN cost[s] = Tracked /\ cost \in [Slots -> [Tracked -> Nat]]
    BY Zenon DEF CostInv, CostType
  <2>9. Settled(cost[s], e, k)[d] = (IF cost[s][d] > est THEN cost[s][d] - est ELSE 0) + now
    BY <2>8, Zenon DEF Settled
  <2>10. cost'[s][d] = Settled(cost[s], e, k)[d]
    BY <1>2, <2>8, Zenon
  <2>11. Total(Actual, EntriesOf(s)' \ Unsettled(s)', d) = act + now
    <3>1. EntriesOf(s) \ Unsettled(s) \in SUBSET Txs /\ Actual \in [Txs -> Nat]
      BY <2>1, StageAssumption, Zenon
    <3>2. Total(Actual, (EntriesOf(s) \ Unsettled(s)) \cup k, d) = act + now
      BY <1>9, <3>1, TotalUnion
    <3> QED
      BY <1>3, <1>9, <3>2, Zenon
  <2>12. SumFunctionOnSet(Reservation(d)', Busy(s)') = rest
    <3>1. SumFunctionOnSet(Reservation(d)', Busy(s) \ {th}) = rest
      BY <1>10, <2>2, SumEqual, Zenon
    <3> QED
      BY <1>6, <3>1, Zenon
  <2>13. /\ Settled(cost[s], e, k)[d] = act + now + rest
         /\ act + now + rest \in Nat
    <3> HIDE DEF act, now, est, old, rest
    <3>1. cost[s][d] = act + est + rest
      BY <2>4, <2>5, <2>6, <2>7
    <3> QED
      BY <2>5, <2>6, <2>9, <3>1
  <2>14. cost'[s][d] = (act + now) + rest
    BY <2>10, <2>13, Zenon
  <2>15. Exact(s, d)'
    <3> HIDE DEF act, now, rest
    <3> QED
      BY <2>11, <2>12, <2>14, Zenon DEF Exact
  <2> QED
    BY <2>13, <2>15, Zenon
<1>12. ASSUME NEW r \in Slots \ {s}, NEW d \in Tracked
       PROVE  Exact(r, d)'
  <2>1. Exact(r, d)
    BY ExactIsCostExact, Zenon DEF CostInv
  <2>2. IsFiniteSet(Busy(r)) /\ Busy(r)' = Busy(r) /\ Busy(r) \ {th} = Busy(r)
    BY <1>6, CostSets, Zenon
  <2>3. SumFunctionOnSet(Reservation(d)', Busy(r)) = SumFunctionOnSet(Reservation(d), Busy(r))
    BY <1>10, <2>2, SumEqual
  <2>4. cost'[r] = cost[r]
    BY <1>2, Zenon DEF CostInv, CostType
  <2> QED
    BY <1>3, <1>8, <2>1, <2>2, <2>3, <2>4, Zenon DEF Exact
<1>13. CostType'
  <2> DEFINE c == Settled(cost[s], e, k)
  <2>1. cost \in [Slots -> [Tracked -> Nat]]
    BY Zenon DEF CostInv, CostType
  <2>2. DOMAIN c = Tracked /\ c = [d \in DOMAIN c |-> c[d]]
    BY <2>1, Zenon DEF Settled
  <2>3. cost' = [cost EXCEPT ![s] = c]
    BY <1>2, Zenon
  <2>4. \A d \in Tracked : c[d] \in Nat
    BY <1>11, Zenon
  <2> HIDE DEF c
  <2>5. c \in [Tracked -> Nat]
    BY <2>2, <2>4, Zenon
  <2> QED
    BY <2>1, <2>3, <2>5, Zenon DEF CostType
<1>14. CostExact'
  BY <1>11, <1>12, ExactIsCostExact, Zenon
<1> QED
  BY <1>5, <1>13, <1>14, Zenon DEF CostInv

(* Every step that is neither a selection, nor a recording, nor a          *)
(* settlement leaves the costs alone.                                      *)
LEMMA CostQuietSteps ==
    TypeInv /\ [Next]_vars =>
        \/ CostQuiet
        \/ \E th \in Threads : SelectTransactions(th) \/ Appends(th) \/ SettleCosts(th)
<1> SUFFICES ASSUME TypeInv, [Next]_vars,
                    ~\E th \in Threads : SelectTransactions(th) \/ Appends(th) \/ SettleCosts(th)
             PROVE  CostQuiet
  BY Zenon
<1> USE DEF CostQuiet, Early, queueVars, batchVars, execVars, bankVars
<1>0. pc \in [Threads -> PCs]
  BY Zenon DEF TypeInv
<1>1. ASSUME NEW th \in Threads, NEW t \in Txs, Receive(th, t) PROVE CostQuiet
  BY <1>1, Zenon DEF Receive
<1>2. ASSUME NEW th \in Threads, LockAccounts(th) PROVE CostQuiet
  BY <1>0, <1>2, Zenon DEF LockAccounts
<1>3. ASSUME NEW th \in Threads, CheckTransactions(th) PROVE CostQuiet
  BY <1>0, <1>3, Zenon DEF CheckTransactions
<1>4. ASSUME NEW th \in Threads, LoadAndExecute(th) PROVE CostQuiet
  BY <1>0, <1>4, Zenon DEF LoadAndExecute
<1>5. ASSUME NEW th \in Threads, FreezeLock(th) PROVE CostQuiet
  BY <1>0, <1>5, Zenon DEF FreezeLock
<1>6. ASSUME NEW th \in Threads, RecordTransactions(th) PROVE CostQuiet
  <2>1. ~(executed[th] # {} /\ Recorded(th))
    BY <1>6, Zenon DEF Appends
  <2> QED
    BY <1>0, <1>6, <2>1, Zenon DEF RecordTransactions
<1>7. ASSUME NEW th \in Threads, StoreAccounts(th) PROVE CostQuiet
  BY <1>0, <1>7, Zenon DEF StoreAccounts
<1>8. ASSUME NEW th \in Threads, UpdateStatuses(th) PROVE CostQuiet
  BY <1>0, <1>8, Zenon DEF UpdateStatuses
<1>9. ASSUME NEW th \in Threads, ReleaseFreezeLock(th) \/ UnlockAccounts(th) PROVE CostQuiet
  BY <1>0, <1>9, Zenon DEF ReleaseFreezeLock, UnlockAccounts
<1>10. ASSUME NEW s \in Slots, LastTick(s) \/ Freeze(s) \/ StartLeader(s) PROVE CostQuiet
  BY <1>10, Zenon DEF LastTick, Freeze, StartLeader
<1>11. CASE UNCHANGED vars
  BY <1>11, Zenon DEF vars
<1> QED
  BY <1>1, <1>2, <1>3, <1>4, <1>5, <1>6, <1>7, <1>8, <1>9, <1>10, <1>11, Zenon
     DEF Next, ThreadStep, SlotStep

(* Nothing is reserved, recorded or charged at first. *)
LEMMA CostInit == Init => CostInv
<1> SUFFICES ASSUME Init PROVE CostInv
  BY Zenon
<1>1. /\ committed = [th \in Threads |-> {}] /\ pc = [th \in Threads |-> "idle"]
      /\ cost = [s \in Slots |-> NoCost] /\ blocks = [s \in Slots |-> <<>>]
  BY Zenon DEF Init
<1>2. Commits /\ CostType
  BY <1>1, Zenon DEF Commits, CostType, NoCost
<1>3. \A s \in Slots : Busy(s) = {} /\ EntriesOf(s) = {}
  BY <1>1 DEF Busy, EntriesOf
<1>4. ASSUME NEW s \in Slots, NEW d \in Tracked
      PROVE  Exact(s, d)
  <2>1. SumFunctionOnSet(Reservation(d), Busy(s)) = 0
    BY <1>3, SumEmpty, Zenon
  <2>2. Total(Actual, EntriesOf(s) \ Unsettled(s), d) = 0
    <3>1. {t \in EntriesOf(s) \ Unsettled(s) : d \in Charged(t)} = {}
      BY <1>3, Zenon
    <3> QED
      BY <3>1, SumEmpty, Zenon DEF Total
  <2>3. cost[s][d] = 0
    BY <1>1, Zenon DEF NoCost
  <2> QED
    BY <2>1, <2>2, <2>3 DEF Exact
<1> QED
  BY <1>2, <1>4, ExactIsCostExact, Zenon DEF CostInv

(* The costs stay exact, given that batches in flight are fresh. *)
LEMMA CostStep == IInv /\ CostInv /\ [Next]_vars => CostInv'
<1> SUFFICES ASSUME IInv, CostInv, [Next]_vars PROVE CostInv'
  BY Zenon
<1>1. TypeInv /\ Fresh /\ TypeInv'
  BY TypePreserved, Zenon DEF IInv
<1> QED
  BY <1>1, CostQuietSteps, CostQuietKeeps, SelectKeepsCosts, AppendKeepsCosts, SettleKeepsCosts, Zenon

(* ... for ever. *)
LEMMA CostAlways == Spec => []CostInv
  BY CostInit, CostStep, IInvAlways, PTL DEF Spec

(* The cost tracker of every bank holds the actual cost of its block and   *)
(* the reservations of the batches in flight, for every account and the    *)
(* block (update_or_remove_transaction_costs).                             *)
THEOREM CostsAlwaysExact == Spec => []CostExact
<1>1. CostInv => CostExact
  BY Zenon DEF CostInv
<1> QED
  BY <1>1, CostAlways, PTL

-----------------------------------------------------------------------------
(* A transaction leaves its buffer when the chain holds it, because it is  *)
(* too old or does not load, because no account data is left, or because   *)
(* the buffer is full (retryable_transaction_indexes, push): what is       *)
(* neither retried nor given up was committed, and what is committed is in *)
(* the block.                                                              *)
THEOREM NothingIsLost == Spec => NoTransactionLost
<1> DEFINE GivenUp(th, t) == \/ t \in locked[th] \ executed[th]
                             \/ t \in refused[th]
                             \/ Age(t, Blockhash(slot[th])) > RetryAge
           Step == \A th \in Threads : \A t \in buffer[th] \ buffer'[th] :
               \/ \E s \in Slots : t \in EntriesOf(s)
               \/ t \in locked[th] \ executed[th]
               \/ t \in refused[th]
               \/ Age(t, Blockhash(slot[th])) > RetryAge
               \/ /\ Cardinality(buffer[th]) = BufferLimit
                  /\ \A u \in buffer'[th] : Priority[t] <= Priority[u]
<1>1. ASSUME IInv, CostInv, [Next]_vars
      PROVE  Step
  <2>1. /\ TypeInv /\ Noted /\ Commits
        /\ buffer \in [Threads -> SUBSET Txs]
    BY <1>1, Zenon DEF IInv, CostInv, TypeInv
  <2>2. CASE buffer' = buffer
    BY <2>2, Zenon
  <2>3. ASSUME NEW th \in Threads, NEW t \in Txs, Receive(th, t)
        PROVE  Step
    <3>1. PICK b \in Pushed(buffer[th], t) : buffer' = [buffer EXCEPT ![th] = b]
      BY <2>3, Zenon DEF Receive
    <3>2. /\ \A o \in Threads \ {th} : buffer'[o] = buffer[o]
          /\ buffer'[th] = b
      BY <2>1, <3>1, Zenon
    <3>3. ASSUME NEW u \in buffer[th] \ b
          PROVE  Cardinality(buffer[th]) = BufferLimit /\ \A w \in b : Priority[u] <= Priority[w]
      <4>1. /\ Cardinality(buffer[th]) = BufferLimit
            /\ \E v \in Lowest(buffer[th] \cup {t}) : b = (buffer[th] \cup {t}) \ {v}
        BY <3>1, <3>3, Zenon DEF Pushed
      <4>2. u \in Lowest(buffer[th] \cup {t}) /\ b \subseteq buffer[th] \cup {t}
        BY <3>3, <4>1, Zenon
      <4> QED
        BY <4>1, <4>2, Zenon DEF Lowest
    <3> QED
      BY <3>2, <3>3, Zenon
  <2>4. ASSUME NEW th \in Threads, SettleCosts(th)
        PROVE  Step
    <3>1. buffer' = [buffer EXCEPT ![th] = (@ \ batch[th]) \cup Rebuffered(th)]
      BY <2>4, Zenon DEF SettleCosts
    <3>2. /\ \A o \in Threads \ {th} : buffer'[o] = buffer[o]
          /\ buffer'[th] = (buffer[th] \ batch[th]) \cup Rebuffered(th)
      BY <2>1, <3>1, Zenon
    <3>3. ASSUME NEW t \in buffer[th] \ buffer'[th]
          PROVE  (\E s \in Slots : t \in EntriesOf(s)) \/ GivenUp(th, t)
      <4>1. t \in batch[th] /\ t \notin Rebuffered(th)
        BY <3>2, <3>3, Zenon
      <4>4. Age(t, Blockhash(slot[th])) <= RetryAge \/ Age(t, Blockhash(slot[th])) > RetryAge
        <5>1. PICK s \in Slots : s = slot[th]
          BY <2>1, Zenon DEF TypeInv
        <5>2. GenesisAge[t] \in Nat /\ RetryAge \in Nat
          BY <2>1, <3>3, LedgerAssumption, StageAssumption
        <5>3. Blockhash(s) \in {s - 1, s} /\ s \in Nat
          BY SlotsAreNaturals DEF Blockhash
        <5> QED
          BY <5>1, <5>2, <5>3 DEF Age
      <4>2. CASE t \in AlreadyProcessed(slot[th])
        <5>1. slot[th] \in Slots /\ Slots \subseteq Nat
          BY <2>1, SlotsAreNaturals, Zenon DEF TypeInv
        <5>2. PICK a \in 1 .. slot[th] : t \in status[a]
          BY <4>2, Zenon DEF AlreadyProcessed
        <5>3. a \in Slots
          <6>1. PICK n \in Slots : n = slot[th]
            BY <5>1, Zenon
          <6> QED
            BY <5>2, <6>1, LedgerAssumption
        <5>4. t \in EntriesOf(a)
          BY <2>1, <5>2, <5>3, Zenon DEF Noted
        <5> QED
          BY <5>3, <5>4, Zenon
      <4>3. CASE t \notin Retryable(th)
        <5>1. \/ t \in refused[th]
              \/ t \in locked[th] /\ (t \in executed[th] => t \in committed[th])
          BY <4>1, <4>3, Zenon DEF Retryable
        <5>2. committed[th] \subseteq EntriesOf(slot[th]) /\ slot[th] \in Slots
          BY <2>1, Zenon DEF Commits, TypeInv
        <5> QED
          BY <5>1, <5>2, Zenon
      <4> QED
        BY <4>1, <4>2, <4>3, <4>4, Zenon DEF Rebuffered
    <3> QED
      BY <3>2, <3>3, Zenon
  <2>5. \/ buffer' = buffer
        \/ \E th \in Threads : SettleCosts(th)
        \/ \E th \in Threads, t \in Txs : Receive(th, t)
    <3> USE DEF queueVars
    <3>1. ASSUME NEW th \in Threads, ThreadStep(th), ~SettleCosts(th)
          PROVE  buffer' = buffer
      BY <3>1, Zenon DEF ThreadStep, SelectTransactions, LockAccounts, CheckTransactions,
         LoadAndExecute, FreezeLock, RecordTransactions, StoreAccounts, UpdateStatuses,
         ReleaseFreezeLock, UnlockAccounts
    <3>2. CASE SlotStep
      BY <3>2, Zenon DEF SlotStep, LastTick, Freeze, StartLeader
    <3>3. CASE UNCHANGED vars
      BY <3>3, Zenon DEF vars
    <3> QED
      BY <1>1, <3>1, <3>2, <3>3, Zenon DEF Next
  <2> QED
    BY <2>2, <2>3, <2>4, <2>5, Zenon
<1>2. IInv /\ CostInv /\ [Next]_vars => [Step]_vars
  BY <1>1, Zenon
<1> QED
  BY <1>2, IInvAlways, CostAlways, PTL DEF Spec, NoTransactionLost

=============================================================================
