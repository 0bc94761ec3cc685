-------------------------- MODULE BankForksProofs --------------------------
(***************************************************************************)
(* A transaction executes at most once on every fork, for any number of    *)
(* slots, transactions and versions and any MAX_PROCESSING_AGE <=          *)
(* MAX_RECENT_BLOCKHASHES; what the RemoteEnvironment reports about a      *)
(* transaction on these forks is true and stays true; and callers of       *)
(* deploy_program leave no incomplete program executable, nor does a       *)
(* LocalEnvironment execute the same instructions twice.                   *)
(*                                                                         *)
(* The argument: block heights grow along a fork and there are at most as  *)
(* many banks between two banks as their heights differ, so the newest     *)
(* MAX_RECENT_BLOCKHASHES roots include every bank less than that many     *)
(* blocks below the root.  A transaction names a blockhash registered      *)
(* before it executed, so while a bank still accepts the blockhash, the    *)
(* execution is either above the root, among the bank's ancestors, or      *)
(* among those roots; and its status has not been purged.                  *)
(***************************************************************************)
EXTENDS RemoteEnvironment, DeployProgram, LocalEnvironment, FiniteSetTheorems, TLAPS

IsBank(b) ==
    /\ DOMAIN b = {"lineage", "ancestors", "block_height", "last_hash_index",
                   "ages", "frozen", "done", "failed"}
    /\ b.lineage \subseteq Slots
    /\ b.block_height \in Nat
    /\ b.last_hash_index = IF b.frozen THEN b.block_height + 1
                                       ELSE b.block_height
    /\ b.frozen \in BOOLEAN
    /\ b.done \subseteq Txs
    /\ \A h \in DOMAIN b.ages : b.ages[h] \in Nat

TypeInv ==
    /\ DOMAIN bank \subseteq Slots
    /\ \A s \in DOMAIN bank : IsBank(bank[s])
    /\ forks \subseteq DOMAIN bank
    /\ root \in forks
    /\ bank[root].frozen
    /\ DOMAIN recent = Txs

(* The history of a bank is a chain of frozen banks of growing height ... *)
Chain ==
    \A s \in DOMAIN bank :
        /\ s \in bank[s].lineage
        /\ bank[s].lineage \subseteq DOMAIN bank
        /\ \A a \in bank[s].lineage :
              /\ a <= s
              /\ \A x \in Slots : x \in bank[a].lineage
                                     <=> x \in bank[s].lineage /\ x <= a
              /\ a # s => /\ bank[a].frozen
                          /\ bank[a].block_height < bank[s].block_height
              /\ a \in forks => s \in forks

(* ... of which no two have the same height. *)
Since(s, a) == {q \in bank[s].lineage : q > a}

Heights ==
    \A s \in DOMAIN bank : \A a \in bank[s].lineage :
        Cardinality(Since(s, a)) <= bank[s].block_height - bank[a].block_height

Near(a, r) ==
    bank[r].block_height - bank[a].block_height < MAX_RECENT_BLOCKHASHES

(* Every fork kept leaves from the root and remembers what it has since; *)
(* the cached roots are at least those near the root.                    *)
Kept ==
    /\ \A s \in forks :
          /\ root \in bank[s].lineage
          /\ bank[s].ancestors \subseteq bank[s].lineage
          /\ \A a \in bank[s].lineage : a >= root => a \in bank[s].ancestors
    /\ roots \subseteq bank[root].lineage
    /\ \A a \in bank[root].lineage : Near(a, root) => a \in roots

(* A bank knows the blockhashes of its history, and its transactions name  *)
(* blockhashes older than itself.                                          *)
Hashes ==
    \A s \in DOMAIN bank :
        /\ \A h \in DOMAIN bank[s].ages :
              /\ bank[s].ages[h] <= bank[s].last_hash_index
              /\ h[1] \in bank[s].lineage
              /\ h[1] = s => bank[s].frozen
        /\ \A a \in bank[s].lineage : \A h \in DOMAIN bank[a].ages :
              /\ h \in DOMAIN bank[s].ages
              /\ bank[s].ages[h] = bank[a].ages[h]
        /\ \A t \in bank[s].done :
              /\ recent[t] # None
              /\ recent[t] \in DOMAIN bank[s].ages
              /\ bank[s].ages[recent[t]] <= bank[s].block_height

(* A status in the cache is that of an execution, under the right hash. *)
Statuses ==
    /\ \A h \in DOMAIN cache :
          /\ h # None
          /\ cache[h] = [fork |-> cache[h].fork, keys |-> cache[h].keys]
          /\ cache[h].fork \in Slots
          /\ \A k \in cache[h].keys :
                /\ k \in Txs \X DOMAIN bank
                /\ recent[k[1]] = h
                /\ k[1] \in bank[k[2]].done
                /\ k[2] <= cache[h].fork
                /\ k[2] > root => k \in deltas
    /\ \A d \in deltas : d \in Txs \X Slots /\ Cached(d[1], d[2])

(* Every execution above the root or near it is in the cache. *)
Covered ==
    \A s \in forks : \A a \in bank[s].lineage :
        a > root \/ Near(a, root) => \A t \in bank[a].done : Cached(t, a)

IInv ==
    /\ TypeInv
    /\ Chain
    /\ Heights
    /\ Kept
    /\ Hashes
    /\ Statuses
    /\ Covered
    /\ ProcessedOnce

-----------------------------------------------------------------------------
(* Slots are finitely many numbers, from 0. *)
LEMMA SlotFacts == Slots \subseteq Nat /\ IsFiniteSet(Slots) /\ 0 \in Slots
  BY ForksAssumption, FS_Interval DEF Slots

(* Nothing has size 0. *)
LEMMA EmptyCardinality == Cardinality({}) = 0
  BY FS_EmptySet, Zenon

(* What each action does to the banks. *)
LEMMA NewBankEffect ==
    ASSUME TypeInv, NEW p \in forks, NEW s \in Slots, NEW W, NEW A,
           bank[p].lineage = W, ParentsInclusive(p) = A, NewBank(p, s)
    PROVE  /\ DOMAIN bank' = DOMAIN bank \cup {s}
           /\ s \notin DOMAIN bank
           /\ \A f \in DOMAIN bank : bank'[f] = bank[f]
           /\ IsBank(bank'[s])
           /\ bank'[s].lineage = W \cup {s}
           /\ bank'[s].ancestors = A \cup {s}
           /\ bank'[s].block_height = bank[p].block_height + 1
           /\ bank'[s].last_hash_index = bank[p].last_hash_index
           /\ bank'[s].ages = bank[p].ages
           /\ ~bank'[s].frozen
           /\ bank'[s].done = {}
  <1>1. IsBank(bank[p])
    BY Zenon DEF TypeInv
  <1>2. /\ DOMAIN bank' = DOMAIN bank \cup {s}
        /\ s \notin DOMAIN bank
        /\ \A f \in DOMAIN bank : bank'[f] = bank[f]
        /\ bank'[s] = [lineage |-> W \cup {s},
                       ancestors |-> A \cup {s},
                       block_height |-> bank[p].block_height + 1,
                       last_hash_index |-> bank[p].last_hash_index,
                       ages |-> bank[p].ages,
                       frozen |-> FALSE,
                       done |-> {},
                       failed |-> {}]
    BY Zenon DEF NewBank
  <1>3. bank[p].frozen
    BY Zenon DEF NewBank
  <1> QED
    BY <1>1, <1>2, <1>3, SlotFacts DEF IsBank

(* commit_transactions adds a transaction to one bank. *)
LEMMA ExecuteEffect ==
    ASSUME TypeInv, NEW s \in DOMAIN bank, NEW t \in Txs, NEW o, Execute(s, t, o)
    PROVE  /\ DOMAIN bank' = DOMAIN bank
           /\ ~bank[s].frozen
           /\ bank'[s].done = bank[s].done \cup {t}
           /\ \A f \in DOMAIN bank :
                 /\ IsBank(bank'[f])
                 /\ bank'[f].lineage = bank[f].lineage
                 /\ bank'[f].ancestors = bank[f].ancestors
                 /\ bank'[f].block_height = bank[f].block_height
                 /\ bank'[f].last_hash_index = bank[f].last_hash_index
                 /\ bank'[f].ages = bank[f].ages
                 /\ bank'[f].frozen = bank[f].frozen
                 /\ f # s => bank'[f].done = bank[f].done
  <1>1. /\ DOMAIN bank' = DOMAIN bank
        /\ ~bank[s].frozen
        /\ \A f \in DOMAIN bank : f # s => bank'[f] = bank[f]
    BY Zenon DEF Execute
  <1>2. IsBank(bank[s])
    BY Zenon DEF TypeInv
  <1>3. /\ DOMAIN bank'[s] = DOMAIN bank[s]
        /\ bank'[s].lineage = bank[s].lineage
        /\ bank'[s].ancestors = bank[s].ancestors
        /\ bank'[s].block_height = bank[s].block_height
        /\ bank'[s].last_hash_index = bank[s].last_hash_index
        /\ bank'[s].ages = bank[s].ages
        /\ bank'[s].frozen = bank[s].frozen
        /\ bank'[s].done = bank[s].done \cup {t}
    BY <1>2, Zenon DEF Execute, IsBank
  <1>4. IsBank(bank'[s])
    BY <1>2, <1>3, Zenon DEF IsBank
  <1> QED
    BY <1>1, <1>3, <1>4, Zenon DEF TypeInv

(* The last tick adds one blockhash to one bank. *)
LEMMA FreezeEffect ==
    ASSUME TypeInv, NEW s \in forks, NEW v, version[s] = v, Freeze(s)
    PROVE  /\ DOMAIN bank' = DOMAIN bank
           /\ ~bank[s].frozen
           /\ bank'[s].frozen
           /\ \A f \in DOMAIN bank : f # s => bank'[f] = bank[f]
           /\ IsBank(bank'[s])
           /\ bank'[s].lineage = bank[s].lineage
           /\ bank'[s].ancestors = bank[s].ancestors
           /\ bank'[s].block_height = bank[s].block_height
           /\ bank'[s].last_hash_index = bank[s].last_hash_index + 1
           /\ bank'[s].done = bank[s].done
           /\ DOMAIN bank'[s].ages = DOMAIN bank[s].ages \cup {<<s, v>>}
           /\ bank'[s].ages[<<s, v>>] = bank[s].last_hash_index + 1
           /\ \A h \in DOMAIN bank[s].ages :
                 h # <<s, v>> => bank'[s].ages[h] = bank[s].ages[h]
  <1> DEFINE hash == <<s, v>>
             aged == [k \in DOMAIN bank[s].ages \cup {hash} |->
                        IF k = hash THEN bank[s].last_hash_index + 1
                                    ELSE bank[s].ages[k]]
  <1>1. /\ DOMAIN bank' = DOMAIN bank
        /\ ~bank[s].frozen
        /\ \A f \in DOMAIN bank : f # s => bank'[f] = bank[f]
    BY Zenon DEF Freeze
  <1>2. IsBank(bank[s])
    BY Zenon DEF TypeInv
  <1>3. /\ DOMAIN bank'[s] = DOMAIN bank[s]
        /\ bank'[s].lineage = bank[s].lineage
        /\ bank'[s].ancestors = bank[s].ancestors
        /\ bank'[s].block_height = bank[s].block_height
        /\ bank'[s].last_hash_index = bank[s].last_hash_index + 1
        /\ bank'[s].ages = aged
        /\ bank'[s].frozen
        /\ bank'[s].frozen \in BOOLEAN
        /\ bank'[s].done = bank[s].done
    <2>1. bank'[s] = [RegisterHash(bank[s], hash) EXCEPT !.frozen = TRUE]
      BY Zenon DEF Freeze, LastHash, TypeInv
    <2>2. RegisterHash(bank[s], hash)
            = [bank[s] EXCEPT !.last_hash_index = bank[s].last_hash_index + 1,
                              !.ages = aged]
      BY Zenon DEF RegisterHash
    <2> HIDE DEF aged
    <2>3. bank'[s] = [[bank[s] EXCEPT
                         !.last_hash_index = bank[s].last_hash_index + 1,
                         !.ages = aged] EXCEPT !.frozen = TRUE]
      BY <2>1, <2>2, Zenon
    <2>4. PICK b, c, n, g : /\ b = bank[s] /\ c = bank'[s] /\ g = aged
                            /\ n = bank[s].last_hash_index + 1
      BY Zenon
    <2>5. c = [[b EXCEPT !.last_hash_index = n, !.ages = g] EXCEPT !.frozen = TRUE]
      BY <2>3, <2>4, Zenon
    <2>6. DOMAIN b = {"lineage", "ancestors", "block_height", "last_hash_index",
                      "ages", "frozen", "done", "failed"}
      BY <2>4, <1>2, Zenon DEF IsBank
    <2>7. DOMAIN c = DOMAIN b /\ c.last_hash_index = n /\ c.ages = g
      BY <2>5, <2>6, Zenon
    <2>8. c.frozen = TRUE /\ c.lineage = b.lineage /\ c.ancestors = b.ancestors
      BY <2>5, <2>6, Zenon
    <2>9. c.block_height = b.block_height /\ c.done = b.done
      BY <2>5, <2>6, Zenon
    <2> QED
      BY <2>4, <2>7, <2>8, <2>9, Zenon
  <1>4. IsBank(bank'[s])
    <2>1. \A h \in DOMAIN aged : aged[h] \in Nat
      BY <1>1, <1>2 DEF IsBank
    <2> QED
      BY <1>1, <1>2, <1>3, <2>1, Zenon DEF IsBank
  <1> QED
    BY <1>1, <1>3, <1>4, Zenon

(* A purge removes banks and changes no other. *)
LEMMA PurgeEffect ==
    ASSUME TypeInv, Chain, Kept, NEW d \in forks, NEW G,
           {d} \cup Descendants(d) = G, PurgeSlot(d)
    PROVE  /\ G \subseteq forks
           /\ root \notin G
           /\ \A g \in G : g > root
           /\ forks' = forks \ G
           /\ DOMAIN bank' = DOMAIN bank \ G
           /\ \A f \in DOMAIN bank \ G : /\ bank'[f] = bank[f]
                                         /\ bank[f].lineage \subseteq DOMAIN bank \ G
  <1>1. /\ forks' = forks \ G
        /\ DOMAIN bank' = DOMAIN bank \ G
        /\ \A f \in DOMAIN bank \ G : bank'[f] = bank[f]
    BY Zenon DEF PurgeSlot, Restrict
  <1>2. \A f \in forks : f \in G <=> d \in bank[f].lineage
    BY Zenon DEF Descendants, Chain, TypeInv
  <1>3. G \subseteq forks
    BY Zenon DEF Descendants
  <1>4. ASSUME NEW g \in G
        PROVE  g > root
    <2>1. d <= g /\ d > root
      BY <1>2, <1>3, Zenon DEF PurgeSlot, Chain, TypeInv
    <2>2. d \in Nat /\ g \in Nat /\ root \in Nat
      BY <1>3, SlotFacts, Zenon DEF TypeInv
    <2> QED
      BY <2>1, <2>2
  <1>5. ASSUME NEW f \in DOMAIN bank \ G, NEW a \in bank[f].lineage, a \in G
        PROVE  FALSE
    <2>1. a \in forks /\ d \in bank[a].lineage /\ d \in Slots
      BY <1>2, <1>3, <1>5, Zenon DEF TypeInv
    <2>2. f \in forks /\ d \in bank[f].lineage
      BY <2>1, Zenon DEF Chain
    <2> QED
      BY <2>2, <1>2, Zenon
  <1> QED
    <2>0. root \in Nat
      BY SlotFacts, Zenon DEF TypeInv
    <2>1. root \notin G
      BY <1>4, <2>0
    <2>2. \A f \in DOMAIN bank \ G : bank[f].lineage \subseteq DOMAIN bank \ G
      BY <1>5, Zenon DEF Chain
    <2> QED
      BY <1>1, <1>3, <1>4, <2>1, <2>2, Zenon

-----------------------------------------------------------------------------
(* The genesis bank is all there is at first. *)
LEMMA InitInv == ForksInit => IInv
  <1> SUFFICES ASSUME ForksInit
               PROVE  IInv
    BY Zenon
  <1>1. /\ DOMAIN bank = {0} /\ forks = {0} /\ root = 0 /\ roots = {0}
        /\ bank[0].lineage = {0} /\ bank[0].ancestors = {0}
        /\ bank[0].block_height = 0 /\ bank[0].frozen /\ bank[0].done = {}
        /\ DOMAIN bank[0].ages = {<<0, 0>>}
        /\ bank[0].ages[<<0, 0>>] = 1 /\ bank[0].last_hash_index = 1
        /\ DOMAIN cache = {} /\ deltas = {}
        /\ bank[0].frozen = TRUE
        /\ DOMAIN bank[0] = {"lineage", "ancestors", "block_height",
                             "last_hash_index", "ages", "frozen", "done",
                             "failed"}
    BY Zenon DEF ForksInit
  <1>2. TypeInv
    <2>1. IsBank(bank[0])
      BY <1>1, SlotFacts DEF IsBank
    <2> QED
      BY <1>1, <2>1, SlotFacts, Zenon DEF ForksInit, TypeInv
  <1>3. Chain
    BY <1>1, SlotFacts DEF Chain
  <1>4. Heights
    <2>1. Since(0, 0) = {}
      BY <1>1 DEF Since
    <2>2. Cardinality(Since(0, 0)) = 0
      BY <2>1, EmptyCardinality, Zenon
    <2> QED
      BY <1>1, <2>2 DEF Heights
  <1>5. Kept
    BY <1>1, Zenon DEF Kept
  <1>6. Hashes
    BY <1>1 DEF Hashes
  <1>7. Statuses /\ Covered /\ ProcessedOnce
    BY <1>1, Zenon DEF Statuses, Covered, ProcessedOnce, ExecutedIn
  <1> QED
    BY <1>2, <1>3, <1>4, <1>5, <1>6, <1>7, Zenon DEF IInv

(* A new bank continues the chain of its parent. *)
LEMMA NewBankInv ==
    ASSUME IInv, NEW p \in forks, NEW s \in Slots, NewBank(p, s)
    PROVE  IInv'
  <1> USE SlotFacts
  <1>0. PICK W, A : bank[p].lineage = W /\ ParentsInclusive(p) = A
    BY Zenon
  <1>a. /\ TypeInv /\ Chain /\ Heights /\ Kept /\ Hashes /\ Statuses
        /\ Covered /\ ProcessedOnce
    BY Zenon DEF IInv
  <1>b. /\ forks' = forks \cup {s} /\ s > p /\ p >= root /\ bank[p].frozen
        /\ root' = root /\ roots' = roots /\ cache' = cache
        /\ deltas' = deltas /\ recent' = recent
    BY Zenon DEF NewBank
  <1>e. /\ DOMAIN bank' = DOMAIN bank \cup {s}
        /\ s \notin DOMAIN bank
        /\ \A f \in DOMAIN bank : bank'[f] = bank[f]
        /\ IsBank(bank'[s])
        /\ bank'[s].lineage = W \cup {s}
        /\ bank'[s].ancestors = A \cup {s}
        /\ bank'[s].block_height = bank[p].block_height + 1
        /\ bank'[s].last_hash_index = bank[p].last_hash_index
        /\ bank'[s].ages = bank[p].ages
        /\ ~bank'[s].frozen
        /\ bank'[s].done = {}
    BY <1>0, <1>a, NewBankEffect
  <1>p. /\ p \in DOMAIN bank /\ p \in Nat /\ s \in Nat /\ root \in Nat
        /\ IsBank(bank[p]) /\ W \subseteq DOMAIN bank /\ W \subseteq Slots
        /\ root \in DOMAIN bank
    BY <1>0, <1>a, Zenon DEF TypeInv, Chain
  <1>1. TypeInv'
    BY <1>a, <1>b, <1>e, Zenon DEF TypeInv
  <1>2. Chain'
    <2> SUFFICES ASSUME NEW f \in DOMAIN bank'
                 PROVE  /\ f \in bank'[f].lineage
                        /\ bank'[f].lineage \subseteq DOMAIN bank'
                        /\ \A a \in bank'[f].lineage :
                              /\ a <= f
                              /\ \A x \in Slots : x \in bank'[a].lineage
                                     <=> x \in bank'[f].lineage /\ x <= a
                              /\ a # f => /\ bank'[a].frozen
                                          /\ bank'[a].block_height
                                                < bank'[f].block_height
                              /\ a \in forks' => f \in forks'
      BY Zenon DEF Chain
    <2>1. CASE f # s
      BY <2>1, <1>a, <1>b, <1>e DEF Chain, TypeInv
    <2>2. CASE f = s
      <3>1. f \in bank'[f].lineage /\ bank'[f].lineage \subseteq DOMAIN bank'
        BY <2>2, <1>e, <1>p, Zenon
      <3>2. ASSUME NEW a \in W
            PROVE  /\ a <= s
                   /\ \A x \in Slots : x \in bank'[a].lineage
                          <=> x \in bank'[s].lineage /\ x <= a
                   /\ bank'[a].frozen
                   /\ bank'[a].block_height < bank'[s].block_height
        <4>0. a <= p /\ a \in Slots
          BY <1>0, <1>a, <1>p, Zenon DEF Chain
        <4>1. a \in Nat /\ a < s
          BY <4>0, <1>b, <1>p
        <4>2. \A x \in Slots : x \in bank[a].lineage <=> x \in W /\ x <= a
          BY <1>0, <1>a, <1>p, Zenon DEF Chain
        <4>3. bank[a].frozen /\ bank[a].block_height <= bank[p].block_height
          BY <1>0, <1>a, <1>b, <1>p DEF Chain, TypeInv, IsBank
        <4>4. bank[a].block_height \in Nat /\ bank[p].block_height \in Nat
          BY <1>a, <1>p, Zenon DEF TypeInv, IsBank
        <4>5. bank'[a] = bank[a]
          BY <1>e, <1>p, Zenon
        <4>6. \A x \in Slots : x \in bank'[a].lineage
                                   <=> x \in bank'[s].lineage /\ x <= a
          BY <4>1, <4>2, <4>5, <1>e
        <4> QED
          BY <4>1, <4>3, <4>4, <4>5, <4>6, <1>e
      <3>3. \A x \in Slots : x \in bank'[s].lineage => x <= s
        BY <3>2, <1>e, <1>p
      <3> QED
        BY <2>2, <3>1, <3>2, <3>3, <1>b, <1>e, <1>p
    <2> QED
      BY <2>1, <2>2, Zenon
  <1>3. Heights'
    <2> SUFFICES ASSUME NEW f \in DOMAIN bank', NEW a \in bank'[f].lineage
                 PROVE  Cardinality(Since(f, a)')
                           <= bank'[f].block_height - bank'[a].block_height
      BY Zenon DEF Heights
    <2>1. CASE f # s
      <3>1. Since(f, a)' = Since(f, a) /\ a \in bank[f].lineage
        BY <2>1, <1>e, Zenon DEF Since
      <3>2. a \in DOMAIN bank
        BY <3>1, <2>1, <1>a, <1>e, Zenon DEF Chain
      <3> QED
        BY <2>1, <3>1, <3>2, <1>a, <1>e, Zenon DEF Heights
    <2>2. CASE f = s /\ a = s
      <3>1. Since(f, a)' = {}
        <4>1. \A q \in W : q <= p /\ q \in Nat
          BY <1>0, <1>a, <1>p, Zenon DEF Chain
        <4>2. \A q \in W \cup {s} : ~(q > s)
          BY <4>1, <1>b, <1>p
        <4> QED
          BY <2>2, <4>2, <1>e, Zenon DEF Since
      <3> QED
        BY <3>1, <2>2, <1>e, EmptyCardinality DEF IsBank
    <2>3. CASE f = s /\ a # s
      <3>1. a \in W /\ a <= p /\ a \in Nat /\ a \in DOMAIN bank
        BY <2>3, <1>0, <1>a, <1>e, <1>p, Zenon DEF Chain
      <3>2. Since(f, a)' = Since(p, a) \cup {s}
        BY <2>3, <3>1, <1>0, <1>b, <1>e, <1>p DEF Since
      <3>3. IsFiniteSet(Since(p, a)) /\ s \notin Since(p, a)
        BY FS_Subset, <1>0, <1>e, <1>p DEF Since
      <3>4. Cardinality(Since(f, a)') = Cardinality(Since(p, a)) + 1
        BY <3>2, <3>3, FS_AddElement, Zenon
      <3>5. Cardinality(Since(p, a)) <= bank[p].block_height - bank[a].block_height
        BY <3>1, <1>0, <1>a, <1>p, Zenon DEF Heights
      <3>6. /\ bank[a].block_height \in Nat /\ bank[p].block_height \in Nat
            /\ Cardinality(Since(p, a)) \in Nat
        BY <3>1, <3>3, <1>a, <1>p, FS_CardinalityType, Zenon DEF TypeInv, IsBank
      <3> QED
        BY <2>3, <3>1, <3>4, <3>5, <3>6, <1>e
    <2> QED
      BY <2>1, <2>2, <2>3, Zenon
  <1>4. Kept'
    <2>1. ASSUME NEW f \in forks'
          PROVE  /\ root' \in bank'[f].lineage
                 /\ bank'[f].ancestors \subseteq bank'[f].lineage
                 /\ \A a \in bank'[f].lineage :
                       a >= root' => a \in bank'[f].ancestors
      <3>1. CASE f # s
        BY <3>1, <1>a, <1>b, <1>e, Zenon DEF Kept, TypeInv
      <3>2. CASE f = s
        BY <3>2, <1>0, <1>a, <1>b, <1>e, Zenon DEF Kept, ParentsInclusive
      <3> QED
        BY <3>1, <3>2, Zenon
    <2>2. bank'[root'] = bank[root]
      BY <1>b, <1>e, <1>p, Zenon
    <2>3. ASSUME NEW a \in bank'[root'].lineage, Near(a, root)'
          PROVE  a \in roots'
      <3>1. a \in bank[root].lineage /\ a \in DOMAIN bank
        BY <2>2, <1>a, <1>p, Zenon DEF Chain
      <3> QED
        BY <3>1, <2>2, <2>3, <1>a, <1>b, <1>e, Zenon DEF Kept, Near
    <2> QED
      BY <2>1, <2>2, <2>3, <1>a, <1>b, Zenon DEF Kept
  <1>5. Hashes'
    <2> SUFFICES ASSUME NEW f \in DOMAIN bank'
                 PROVE  /\ \A h \in DOMAIN bank'[f].ages :
                              /\ bank'[f].ages[h] <= bank'[f].last_hash_index
                              /\ h[1] \in bank'[f].lineage
                              /\ h[1] = f => bank'[f].frozen
                        /\ \A a \in bank'[f].lineage :
                              \A h \in DOMAIN bank'[a].ages :
                                 /\ h \in DOMAIN bank'[f].ages
                                 /\ bank'[f].ages[h] = bank'[a].ages[h]
                        /\ \A t \in bank'[f].done :
                              /\ recent'[t] # None
                              /\ recent'[t] \in DOMAIN bank'[f].ages
                              /\ bank'[f].ages[recent'[t]]
                                    <= bank'[f].block_height
      BY Zenon DEF Hashes
    <2>1. CASE f # s
      <3>1. f \in DOMAIN bank /\ bank[f].lineage \subseteq DOMAIN bank
        BY <2>1, <1>a, <1>e, Zenon DEF Chain
      <3> QED
        BY <3>1, <1>a, <1>b, <1>e DEF Hashes
    <2>2. CASE f = s
      BY <2>2, <1>0, <1>a, <1>e, <1>p DEF Hashes
    <2> QED
      BY <2>1, <2>2, Zenon
  <1>6. Statuses'
    BY <1>a, <1>b, <1>e DEF Statuses, Cached
  <1>7. Covered'
    <2> SUFFICES ASSUME NEW f \in forks', NEW a \in bank'[f].lineage,
                        a > root \/ Near(a, root)', NEW t \in bank'[a].done
                 PROVE  Cached(t, a)'
      BY <1>b, Zenon DEF Covered
    <2>1. a # s
      BY <1>e, Zenon
    <2>2. PICK g \in forks : a \in bank[g].lineage /\ a \in DOMAIN bank
      BY <2>1, <1>0, <1>a, <1>b, <1>e DEF Chain, TypeInv
    <2>3. t \in bank[a].done /\ (a > root \/ Near(a, root))
      BY <2>2, <1>e, <1>b, <1>p, Zenon DEF Near
    <2> QED
      BY <2>2, <2>3, <1>a, <1>b, Zenon DEF Covered, Cached
  <1>8. ProcessedOnce'
    <2> SUFFICES ASSUME NEW f \in forks', NEW t \in Txs,
                        NEW a \in ExecutedIn(f, t)', NEW b \in ExecutedIn(f, t)'
                 PROVE  a = b
      BY Zenon DEF ProcessedOnce
    <2>1. a # s /\ b # s
      BY <1>e, Zenon DEF ExecutedIn
    <2>2. PICK g \in forks : a \in ExecutedIn(g, t) /\ b \in ExecutedIn(g, t)
      BY <2>1, <1>0, <1>a, <1>b, <1>e DEF Chain, TypeInv, ExecutedIn
    <2> QED
      BY <2>2, <1>a, Zenon DEF ProcessedOnce
  <1> QED
    BY <1>1, <1>2, <1>3, <1>4, <1>5, <1>6, <1>7, <1>8, Zenon DEF IInv

(* While a transaction may still execute in a bank that is kept, the bank's *)
(* look-up finds exactly its executions on the fork.                        *)
LEMMA LookupLemma == IInv => LookupExact
  <1> SUFFICES ASSUME IInv, NEW s \in forks, NEW t \in Txs, ~bank[s].frozen,
                      recent[t] # None,
                      IsHashValidForAge(s, recent[t], MAX_PROCESSING_AGE)
               PROVE  Status(s, t) = ExecutedIn(s, t)
    BY Zenon DEF LookupExact
  <1> USE SlotFacts
  <1>a. /\ TypeInv /\ Chain /\ Heights /\ Kept /\ Hashes /\ Statuses
        /\ Covered /\ ProcessedOnce
    BY Zenon DEF IInv
  <1>b. /\ s \in DOMAIN bank /\ root \in DOMAIN bank /\ root \in bank[s].lineage
        /\ s \in Nat /\ root \in Nat /\ s # root
        /\ bank[root].lineage \subseteq bank[s].lineage
        /\ bank[root].block_height < bank[s].block_height
    BY <1>a, Zenon DEF TypeInv, Kept, Chain, IsBank
  <1>1. ASSUME NEW f \in Status(s, t)
        PROVE  f \in ExecutedIn(s, t)
    <2>1. f \in bank[s].ancestors \cup roots /\ Cached(t, f)
      BY Zenon DEF Status
    <2>2. t \in bank[f].done
      BY <2>1, <1>a DEF Cached, Statuses
    <2>3. f \in bank[s].lineage
      BY <2>1, <1>a, <1>b, Zenon DEF Kept
    <2> QED
      BY <2>2, <2>3, Zenon DEF ExecutedIn
  <1>2. ASSUME NEW a \in ExecutedIn(s, t)
        PROVE  a \in Status(s, t)
    <2>1. a \in bank[s].lineage /\ t \in bank[a].done /\ a \in DOMAIN bank
      BY <1>a, <1>b, Zenon DEF ExecutedIn, Chain
    <2>2. /\ a \in Slots /\ a \in Nat /\ IsBank(bank[a]) /\ IsBank(bank[s])
          /\ IsBank(bank[root])
      BY <2>1, <1>a, <1>b, Zenon DEF TypeInv
    <2>3. /\ bank[s].ages[recent[t]] \in Nat
          /\ bank[s].ages[recent[t]] <= bank[a].block_height
      BY <2>1, <2>2, <1>a, <1>b DEF Hashes, IsBank
    <2>4. bank[s].block_height - bank[a].block_height <= MAX_RECENT_BLOCKHASHES
      BY <2>2, <2>3, ForksAssumption DEF IsHashValidForAge, IsBank
    <2>5. CASE a > root
      <3>1. Cached(t, a) /\ a \in bank[s].ancestors
        BY <2>1, <2>2, <2>5, <1>a, <1>b DEF Covered, Kept
      <3> QED
        BY <3>1, Zenon DEF Status
    <2>6. CASE a <= root
      <3>1. a \in bank[root].lineage
        BY <2>1, <2>2, <2>6, <1>a, <1>b, Zenon DEF Chain
      <3>2. Near(a, root)
        BY <2>2, <2>4, <1>b, ForksAssumption DEF Near, IsBank
      <3>3. Cached(t, a) /\ a \in roots
        BY <2>1, <3>1, <3>2, <1>a, <1>b, Zenon DEF Covered, Kept
      <3> QED
        BY <3>3, Zenon DEF Status
    <2> QED
      BY <2>2, <2>5, <2>6, <1>b
  <1> QED
    BY <1>1, <1>2, Zenon

(* An execution is new on its fork, and its status is noted. *)
LEMMA ExecuteInv ==
    ASSUME IInv, NEW s \in DOMAIN bank, NEW t \in Txs, NEW o, Execute(s, t, o)
    PROVE  IInv'
  <1> USE SlotFacts
  <1>0. PICK h : recent[t] = h
    BY Zenon
  <1>a. /\ TypeInv /\ Chain /\ Heights /\ Kept /\ Hashes /\ Statuses
        /\ Covered /\ ProcessedOnce
    BY Zenon DEF IInv
  <1>b. /\ h # None
        /\ h \in DOMAIN bank[s].ages
        /\ Status(s, t) = {}
        /\ forks' = forks /\ root' = root /\ roots' = roots /\ recent' = recent
    BY <1>0, Zenon DEF Execute, CheckTransaction, IsHashValidForAge
  <1>e. /\ DOMAIN bank' = DOMAIN bank
        /\ ~bank[s].frozen
        /\ bank'[s].done = bank[s].done \cup {t}
        /\ \A f \in DOMAIN bank :
              /\ IsBank(bank'[f])
              /\ bank'[f].lineage = bank[f].lineage
              /\ bank'[f].ancestors = bank[f].ancestors
              /\ bank'[f].block_height = bank[f].block_height
              /\ bank'[f].last_hash_index = bank[f].last_hash_index
              /\ bank'[f].ages = bank[f].ages
              /\ bank'[f].frozen = bank[f].frozen
              /\ f # s => bank'[f].done = bank[f].done
    BY <1>a, ExecuteEffect, Zenon
  <1>c. /\ DOMAIN cache' = DOMAIN cache \cup {h}
        /\ \A k \in DOMAIN cache : k # h => cache'[k] = cache[k]
        /\ cache'[h] = [fork |-> cache'[h].fork, keys |-> cache'[h].keys]
        /\ h \in DOMAIN cache =>
              /\ cache'[h].keys = cache[h].keys \cup {<<t, s>>}
              /\ cache'[h].fork = IF s > cache[h].fork THEN s ELSE cache[h].fork
        /\ h \notin DOMAIN cache =>
              /\ cache'[h].keys = {<<t, s>>}
              /\ cache'[h].fork = s
        /\ deltas' = deltas \cup {<<t, s>>}
    BY <1>0, Zenon DEF Execute, Insert
  <1>s. s \in Slots /\ s \in Nat /\ IsBank(bank[s]) /\ root \in DOMAIN bank
    BY <1>a, Zenon DEF TypeInv
  <1>1. TypeInv'
    BY <1>a, <1>b, <1>e, Zenon DEF TypeInv
  <1>2. Chain'
    BY <1>a, <1>b, <1>e DEF Chain
  <1>3. Heights'
    <2> SUFFICES ASSUME NEW f \in DOMAIN bank, NEW a \in bank[f].lineage
                 PROVE  Cardinality(Since(f, a)')
                           <= bank'[f].block_height - bank'[a].block_height
      BY <1>e, Zenon DEF Heights
    <2>1. Since(f, a)' = Since(f, a) /\ a \in DOMAIN bank
      BY <1>a, <1>e, Zenon DEF Since, Chain
    <2> QED
      BY <2>1, <1>a, <1>e, Zenon DEF Heights
  <1>4. Kept'
    BY <1>a, <1>b, <1>e, <1>s, Zenon DEF Kept, Near, Chain, TypeInv
  <1>5. Hashes'
    <2> SUFFICES ASSUME NEW f \in DOMAIN bank
                 PROVE  /\ \A k \in DOMAIN bank'[f].ages :
                              /\ bank'[f].ages[k] <= bank'[f].last_hash_index
                              /\ k[1] \in bank'[f].lineage
                              /\ k[1] = f => bank'[f].frozen
                        /\ \A a \in bank'[f].lineage :
                              \A k \in DOMAIN bank'[a].ages :
                                 /\ k \in DOMAIN bank'[f].ages
                                 /\ bank'[f].ages[k] = bank'[a].ages[k]
                        /\ \A u \in bank'[f].done :
                              /\ recent'[u] # None
                              /\ recent'[u] \in DOMAIN bank'[f].ages
                              /\ bank'[f].ages[recent'[u]]
                                    <= bank'[f].block_height
      BY <1>e, Zenon DEF Hashes
    <2>1. \A k \in DOMAIN bank'[f].ages :
             /\ bank'[f].ages[k] <= bank'[f].last_hash_index
             /\ k[1] \in bank'[f].lineage
             /\ k[1] = f => bank'[f].frozen
      BY <1>a, <1>e, Zenon DEF Hashes
    <2>2. \A a \in bank'[f].lineage : \A k \in DOMAIN bank'[a].ages :
             /\ k \in DOMAIN bank'[f].ages
             /\ bank'[f].ages[k] = bank'[a].ages[k]
      BY <1>a, <1>e DEF Hashes, Chain
    <2>3. bank[s].ages[h] <= bank[s].block_height
      BY <1>a, <1>b, <1>e, <1>s, Zenon DEF Hashes, IsBank
    <2>4. ASSUME NEW u \in bank'[f].done
          PROVE  /\ recent'[u] # None
                 /\ recent'[u] \in DOMAIN bank'[f].ages
                 /\ bank'[f].ages[recent'[u]] <= bank'[f].block_height
      <3>1. CASE u \in bank[f].done
        BY <3>1, <1>a, <1>b, <1>e DEF Hashes
      <3>2. CASE u \notin bank[f].done
        BY <3>2, <2>3, <1>0, <1>b, <1>e
      <3> QED
        BY <3>1, <3>2, Zenon
    <2> QED
      BY <2>1, <2>2, <2>4, Zenon
  <1>6. \A u \in Txs : \A f : Cached(u, f) => Cached(u, f)'
    BY <1>b, <1>c, Zenon DEF Cached
  <1>7. Cached(t, s)'
    BY <1>0, <1>b, <1>c, Zenon DEF Cached
  <1>8. Statuses'
    <2>1. ASSUME NEW k \in DOMAIN cache'
          PROVE  /\ k # None
                 /\ cache'[k] = [fork |-> cache'[k].fork, keys |-> cache'[k].keys]
                 /\ cache'[k].fork \in Slots
                 /\ \A q \in cache'[k].keys : q \in Txs \X DOMAIN bank
      BY <1>a, <1>b, <1>c, <1>s DEF Statuses
    <2>2. ASSUME NEW k \in DOMAIN cache', NEW q \in cache'[k].keys
          PROVE  /\ recent[q[1]] = k
                 /\ q[1] \in bank'[q[2]].done
                 /\ q[2] <= cache'[k].fork
                 /\ q[2] > root => q \in deltas'
      <3>1. CASE q = <<t, s>> /\ k = h
        <4>0. h \in DOMAIN cache => cache[h].fork \in Nat
          BY <1>a, Zenon DEF Statuses
        <4>1. s <= cache'[h].fork
          BY <4>0, <1>c, <1>s
        <4> QED
          BY <3>1, <4>1, <1>0, <1>c, <1>e, Zenon
      <3>2. CASE k \in DOMAIN cache /\ q \in cache[k].keys
        <4>1. /\ q \in Txs \X DOMAIN bank /\ recent[q[1]] = k
              /\ q[1] \in bank[q[2]].done /\ q[2] <= cache[k].fork
              /\ q[2] > root => q \in deltas
          BY <3>2, <1>a, Zenon DEF Statuses
        <4>2. q[1] \in bank'[q[2]].done
          BY <4>1, <1>e, Zenon
        <4>3. q[2] <= cache'[k].fork
          <5>1. cache[k].fork \in Nat /\ q[2] \in Nat
            BY <3>2, <4>1, <1>a, Zenon DEF Statuses, TypeInv
          <5> QED
            BY <5>1, <3>2, <4>1, <1>c, <1>s
        <4> QED
          BY <4>1, <4>2, <4>3, <1>c, Zenon
      <3> QED
        BY <3>1, <3>2, <1>c, Zenon
    <2>3. ASSUME NEW d \in deltas'
          PROVE  d \in Txs \X Slots /\ Cached(d[1], d[2])'
      BY <1>6, <1>7, <1>a, <1>c, <1>s DEF Statuses
    <2> QED
      BY <2>1, <2>2, <2>3, <1>b, <1>e, Zenon DEF Statuses
  <1>9. Covered'
    <2> SUFFICES ASSUME NEW f \in forks, NEW a \in bank[f].lineage,
                        a > root \/ Near(a, root)', NEW u \in bank'[a].done
                 PROVE  Cached(u, a)'
      BY <1>a, <1>b, <1>e, Zenon DEF Covered, TypeInv
    <2>1. a \in DOMAIN bank
      BY <1>a, Zenon DEF Chain, TypeInv
    <2>2. CASE u \in bank[a].done
      <3>1. a > root \/ Near(a, root)
        BY <2>1, <1>b, <1>e, <1>s, Zenon DEF Near
      <3>2. Cached(u, a) /\ u \in Txs
        BY <2>1, <2>2, <3>1, <1>a, Zenon DEF Covered, TypeInv, IsBank
      <3> QED
        BY <3>2, <1>6, Zenon
    <2>3. CASE u \notin bank[a].done
      BY <2>1, <2>3, <1>7, <1>e, Zenon
    <2> QED
      BY <2>2, <2>3, Zenon
  <1>10. ProcessedOnce'
    <2> SUFFICES ASSUME NEW f \in forks, NEW u \in Txs,
                        NEW a \in ExecutedIn(f, u)', NEW b \in ExecutedIn(f, u)'
                 PROVE  a = b
      BY <1>b, Zenon DEF ProcessedOnce
    <2>0. /\ f \in DOMAIN bank /\ a \in bank[f].lineage /\ b \in bank[f].lineage
          /\ a \in DOMAIN bank /\ b \in DOMAIN bank
          /\ u \in bank'[a].done /\ u \in bank'[b].done
      BY <1>a, <1>e, Zenon DEF ExecutedIn, TypeInv, Chain
    <2>1. CASE a \in ExecutedIn(f, u) /\ b \in ExecutedIn(f, u)
      BY <2>1, <1>a, Zenon DEF ProcessedOnce
    <2>2. CASE ~(a \in ExecutedIn(f, u) /\ b \in ExecutedIn(f, u))
      <3>1. u = t /\ s \in bank[f].lineage
        BY <2>0, <2>2, <1>e, Zenon DEF ExecutedIn
      <3>2. f = s
        BY <2>0, <3>1, <1>a, <1>e, Zenon DEF Chain
      <3>3. ExecutedIn(s, t) = {}
        <4>1. LookupExact
          BY LookupLemma, Zenon
        <4> QED
          BY <4>1, <3>2, <1>b, <1>e DEF LookupExact, Execute, CheckTransaction
      <3> QED
        BY <2>0, <3>1, <3>2, <3>3, <1>e DEF ExecutedIn
    <2> QED
      BY <2>1, <2>2, Zenon
  <1> QED
    BY <1>1, <1>2, <1>3, <1>4, <1>5, <1>8, <1>9, <1>10, Zenon DEF IInv

(* Freezing adds one blockhash, which no bank knew. *)
LEMMA FreezeInv ==
    ASSUME IInv, NEW s \in forks, Freeze(s)
    PROVE  IInv'
  <1> USE SlotFacts
  <1>0. PICK v : version[s] = v
    BY Zenon
  <1>a. /\ TypeInv /\ Chain /\ Heights /\ Kept /\ Hashes /\ Statuses
        /\ Covered /\ ProcessedOnce
    BY Zenon DEF IInv
  <1>b. /\ forks' = forks /\ root' = root /\ roots' = roots /\ cache' = cache
        /\ deltas' = deltas /\ recent' = recent
    BY Zenon DEF Freeze
  <1>e. /\ DOMAIN bank' = DOMAIN bank
        /\ ~bank[s].frozen
        /\ bank'[s].frozen
        /\ \A f \in DOMAIN bank : f # s => bank'[f] = bank[f]
        /\ IsBank(bank'[s])
        /\ bank'[s].lineage = bank[s].lineage
        /\ bank'[s].ancestors = bank[s].ancestors
        /\ bank'[s].block_height = bank[s].block_height
        /\ bank'[s].last_hash_index = bank[s].last_hash_index + 1
        /\ bank'[s].done = bank[s].done
        /\ DOMAIN bank'[s].ages = DOMAIN bank[s].ages \cup {<<s, v>>}
        /\ bank'[s].ages[<<s, v>>] = bank[s].last_hash_index + 1
        /\ \A h \in DOMAIN bank[s].ages :
              h # <<s, v>> => bank'[s].ages[h] = bank[s].ages[h]
    BY <1>0, <1>a, FreezeEffect
  <1>f. \A f \in DOMAIN bank :
           /\ bank'[f].lineage = bank[f].lineage
           /\ bank'[f].ancestors = bank[f].ancestors
           /\ bank'[f].block_height = bank[f].block_height
           /\ bank'[f].done = bank[f].done
           /\ bank[f].frozen => bank'[f].frozen
    BY <1>e, Zenon
  <1>s. /\ s \in DOMAIN bank /\ root \in DOMAIN bank /\ IsBank(bank[s])
        /\ \A f \in DOMAIN bank : s \in bank[f].lineage => f = s
    BY <1>a, <1>e, Zenon DEF TypeInv, Chain
  <1>n. <<s, v>> \notin DOMAIN bank[s].ages
    BY <1>a, <1>e, <1>s, Zenon DEF Hashes
  <1>1. TypeInv'
    BY <1>a, <1>b, <1>e, Zenon DEF TypeInv
  <1>2. Chain'
    BY <1>a, <1>b, <1>e, <1>f DEF Chain
  <1>3. Heights'
    <2> SUFFICES ASSUME NEW f \in DOMAIN bank, NEW a \in bank[f].lineage
                 PROVE  Cardinality(Since(f, a)')
                           <= bank'[f].block_height - bank'[a].block_height
      BY <1>e, <1>f, Zenon DEF Heights
    <2>1. Since(f, a)' = Since(f, a) /\ a \in DOMAIN bank
      BY <1>a, <1>f, Zenon DEF Since, Chain
    <2> QED
      BY <2>1, <1>a, <1>f, Zenon DEF Heights
  <1>4. Kept'
    BY <1>a, <1>b, <1>f, <1>s, Zenon DEF Kept, Near, Chain, TypeInv
  <1>5. Hashes'
    <2> SUFFICES ASSUME NEW f \in DOMAIN bank
                 PROVE  /\ \A k \in DOMAIN bank'[f].ages :
                              /\ bank'[f].ages[k] <= bank'[f].last_hash_index
                              /\ k[1] \in bank'[f].lineage
                              /\ k[1] = f => bank'[f].frozen
                        /\ \A a \in bank'[f].lineage :
                              \A k \in DOMAIN bank'[a].ages :
                                 /\ k \in DOMAIN bank'[f].ages
                                 /\ bank'[f].ages[k] = bank'[a].ages[k]
                        /\ \A u \in bank'[f].done :
                              /\ recent'[u] # None
                              /\ recent'[u] \in DOMAIN bank'[f].ages
                              /\ bank'[f].ages[recent'[u]]
                                    <= bank'[f].block_height
      BY <1>e, Zenon DEF Hashes
    <2>1. CASE f # s
      <3>1. bank'[f] = bank[f]
        BY <2>1, <1>e, Zenon
      <3>2. \A a \in bank[f].lineage : a \in DOMAIN bank /\ bank'[a] = bank[a]
        BY <2>1, <1>a, <1>e, <1>s, SMTT(20) DEF Chain
      <3> QED
        BY <3>1, <3>2, <1>a, <1>b DEF Hashes
    <2>2. CASE f = s
      <3>1. \A k \in DOMAIN bank[s].ages :
               /\ bank[s].ages[k] \in Nat
               /\ bank[s].ages[k] <= bank[s].last_hash_index
               /\ bank'[s].ages[k] = bank[s].ages[k]
               /\ k[1] \in bank[s].lineage
        BY <1>a, <1>e, <1>n, <1>s DEF Hashes, IsBank
      <3>2. bank[s].last_hash_index \in Nat /\ s \in bank[s].lineage
        BY <1>a, <1>s DEF IsBank, Chain
      <3>3. ASSUME NEW k \in DOMAIN bank'[s].ages
            PROVE  /\ bank'[s].ages[k] <= bank'[s].last_hash_index
                   /\ k[1] \in bank'[s].lineage
        <4>1. CASE k = <<s, v>>
          BY <4>1, <3>2, <1>e
        <4>2. CASE k \in DOMAIN bank[s].ages
          BY <4>2, <3>1, <3>2, <1>e
        <4> QED
          BY <4>1, <4>2, <1>e, Zenon
      <3>4. ASSUME NEW a \in bank[s].lineage, NEW k \in DOMAIN bank'[a].ages
            PROVE  /\ k \in DOMAIN bank'[s].ages
                   /\ bank'[s].ages[k] = bank'[a].ages[k]
        <4>1. CASE a = s
          BY <4>1, Zenon
        <4>2. CASE a # s
          <5>1. a \in DOMAIN bank /\ bank'[a] = bank[a]
            BY <4>2, <1>a, <1>e, <1>s, Zenon DEF Chain
          <5>2. k \in DOMAIN bank[s].ages /\ bank[s].ages[k] = bank[a].ages[k]
            BY <5>1, <1>a, <1>s, Zenon DEF Hashes
          <5> QED
            BY <5>1, <5>2, <3>1, <1>e, Zenon
        <4> QED
          BY <4>1, <4>2, Zenon
      <3>5. ASSUME NEW u \in bank[s].done
            PROVE  /\ recent[u] # None
                   /\ recent[u] \in DOMAIN bank'[s].ages
                   /\ bank'[s].ages[recent[u]] <= bank'[s].block_height
        <4>1. /\ recent[u] # None
              /\ recent[u] \in DOMAIN bank[s].ages
              /\ bank[s].ages[recent[u]] <= bank[s].block_height
          BY <1>a, <1>s, Zenon DEF Hashes
        <4> QED
          BY <4>1, <3>1, <1>e, Zenon
      <3> QED
        BY <2>2, <3>3, <3>4, <3>5, <1>b, <1>e
    <2> QED
      BY <2>1, <2>2, Zenon
  <1>c. \A u, f : Cached(u, f)' <=> Cached(u, f)
    BY <1>b, SMTT(20) DEF Cached
  <1>6. Statuses'
    <2>1. \A h \in DOMAIN cache : \A k \in cache[h].keys :
             k \in Txs \X DOMAIN bank /\ k[1] \in bank'[k[2]].done
      BY <1>a, <1>f, Zenon DEF Statuses
    <2> QED
      BY <2>1, <1>a, <1>b, <1>c, <1>e DEF Statuses
  <1>7. Covered'
    <2> SUFFICES ASSUME NEW f \in forks, NEW a \in bank[f].lineage,
                        a > root \/ Near(a, root)', NEW t \in bank'[a].done
                 PROVE  Cached(t, a)'
      BY <1>a, <1>b, <1>f, Zenon DEF Covered, TypeInv
    <2>1. a \in DOMAIN bank /\ t \in bank[a].done
      BY <1>a, <1>f, Zenon DEF Chain, TypeInv
    <2>2. a > root \/ Near(a, root)
      BY <2>1, <1>b, <1>f, <1>s, Zenon DEF Near
    <2> QED
      BY <2>1, <2>2, <1>a, <1>c, Zenon DEF Covered
  <1>8. ProcessedOnce'
    <2>1. \A f \in forks, u \in Txs : ExecutedIn(f, u)' = ExecutedIn(f, u)
      BY <1>a, <1>f, Zenon DEF ExecutedIn, Chain, TypeInv
    <2> QED
      BY <2>1, <1>a, <1>b DEF ProcessedOnce
  <1> QED
    BY <1>1, <1>2, <1>3, <1>4, <1>5, <1>6, <1>7, <1>8, Zenon DEF IInv

(* A transaction that gets a blockhash has not executed yet. *)
LEMMA SignInv ==
    ASSUME IInv, NEW s, NEW t \in Txs, Sign(t, s)
    PROVE  IInv'
  <1>a. /\ TypeInv /\ Chain /\ Heights /\ Kept /\ Hashes /\ Statuses
        /\ Covered /\ ProcessedOnce
    BY Zenon DEF IInv
  <1>b. /\ bank' = bank /\ forks' = forks /\ root' = root /\ roots' = roots
        /\ cache' = cache /\ deltas' = deltas
        /\ recent[t] = None /\ DOMAIN recent' = DOMAIN recent
        /\ \A u \in Txs : u # t => recent'[u] = recent[u]
    BY <1>a, Zenon DEF Sign, TypeInv
  <1>1. TypeInv' /\ Chain' /\ Kept' /\ ProcessedOnce'
    BY <1>a, <1>b DEF TypeInv, Chain, Kept, Near, ProcessedOnce, ExecutedIn
  <1>2. Heights'
    BY <1>a, <1>b, Zenon DEF Heights, Since
  <1>3. \A f \in DOMAIN bank : t \notin bank[f].done
    BY <1>a, <1>b, Zenon DEF Hashes
  <1>4. Hashes'
    BY <1>3, <1>a, <1>b DEF Hashes, TypeInv, IsBank
  <1>5. \A u \in Txs : \A f : Cached(u, f) => u # t
    BY <1>a, <1>b, Zenon DEF Cached, Statuses
  <1>6. \A u \in Txs : \A f : Cached(u, f) => Cached(u, f)'
    BY <1>5, <1>b, Zenon DEF Cached
  <1>7. Statuses'
    <2>1. \A h \in DOMAIN cache : \A k \in cache[h].keys :
             k \in Txs \X DOMAIN bank /\ recent'[k[1]] = h
      BY <1>a, <1>b DEF Statuses
    <2>2. \A d \in deltas : d \in Txs \X Slots /\ Cached(d[1], d[2])'
      BY <1>6, <1>a, Zenon DEF Statuses
    <2> QED
      BY <2>1, <2>2, <1>a, <1>b, Zenon DEF Statuses
  <1>8. Covered'
    BY <1>6, <1>a, <1>b DEF Covered, Near, TypeInv, IsBank, Chain
  <1> QED
    BY <1>1, <1>2, <1>4, <1>7, <1>8, Zenon DEF IInv

(* The newest roots are an upper part of the roots, and include every slot *)
(* with few enough roots above it.                                         *)
LEMMA NewestRoots ==
    ASSUME NEW R, R \subseteq Slots
    PROVE  /\ Newest(R) \subseteq R
           /\ \A a \in Newest(R), g \in R \ Newest(R) : g < a
  <1> USE SlotFacts
  <1>1. ASSUME NEW a \in Newest(R), NEW g \in R \ Newest(R), ~(g < a)
        PROVE  FALSE
    <2> DEFINE From(x) == {q \in R : q >= x}
    <2>1. a \in Nat /\ g \in Nat /\ a <= g
      BY <1>1 DEF Newest
    <2>2. From(g) \subseteq From(a) /\ From(a) \subseteq Slots
      <3>1. \A q \in R : q \in Nat
        BY Zenon
      <3>2. \A q \in R : q >= g => q >= a
        BY <2>1, <3>1
      <3> QED
        BY <3>2, Zenon
    <2>3. IsFiniteSet(From(a)) /\ IsFiniteSet(From(g))
      BY <2>2, FS_Subset, Zenon
    <2>4. Cardinality(From(g)) <= Cardinality(From(a))
      BY <2>2, <2>3, FS_Subset, Zenon
    <2>5. Cardinality(From(g)) \in Nat /\ Cardinality(From(a)) \in Nat
      BY <2>3, FS_CardinalityType, Zenon
    <2>6. Cardinality(From(a)) <= MAX_RECENT_BLOCKHASHES
      BY Zenon DEF Newest
    <2>7. ~(Cardinality(From(g)) <= MAX_RECENT_BLOCKHASHES)
      BY Zenon DEF Newest
    <2> HIDE DEF From
    <2> QED
      BY <2>4, <2>5, <2>6, <2>7, ForksAssumption
  <1> QED
    BY <1>1, Zenon DEF Newest

(* Rooting a bank keeps the roots near it and what was noted in them. *)
LEMMA SetRootInv ==
    ASSUME IInv, NEW r \in forks, SetRoot(r)
    PROVE  IInv'
  <1> USE SlotFacts
  <1>0. PICK R : R = roots \cup ParentsInclusive(r)
    BY Zenon
  <1> DEFINE gone == R \ Newest(R)
  <1>a. /\ TypeInv /\ Chain /\ Heights /\ Kept /\ Hashes /\ Statuses
        /\ Covered /\ ProcessedOnce
    BY Zenon DEF IInv
  <1>b. /\ r > root /\ bank[r].frozen /\ root' = r
        /\ forks' = {r} \cup Descendants(r)
        /\ bank' = bank /\ recent' = recent
        /\ roots' = Newest(R)
        /\ cache' = Restrict(cache, {h \in DOMAIN cache :
                                       \A g \in gone : cache[h].fork > g})
        /\ deltas' = {d \in deltas : \A g \in gone : d[2] > g}
    BY <1>0, Zenon DEF SetRoot, AddRoots
  <1>r. /\ r \in DOMAIN bank /\ r \in Slots /\ root \in bank[r].lineage
        /\ root \in DOMAIN bank /\ root \in Nat /\ r \in Nat
        /\ r \in bank[r].lineage
        /\ bank[root].lineage \subseteq bank[r].lineage
        /\ bank[r].lineage \subseteq Slots
        /\ bank[root].block_height \in Nat /\ bank[r].block_height \in Nat
        /\ bank[root].block_height < bank[r].block_height
    <2>1. r \in DOMAIN bank /\ root \in DOMAIN bank /\ root \in bank[r].lineage
      BY <1>a, Zenon DEF TypeInv, Kept
    <2>2. r \in Slots /\ root \in Slots /\ r \in Nat /\ root \in Nat
      BY <2>1, <1>a, Zenon DEF TypeInv
    <2>3. /\ r \in bank[r].lineage
          /\ bank[r].lineage \subseteq Slots /\ bank[root].lineage \subseteq Slots
          /\ bank[root].block_height \in Nat /\ bank[r].block_height \in Nat
      BY <2>1, <1>a, Zenon DEF TypeInv, Chain, IsBank
    <2>4. /\ bank[root].lineage \subseteq bank[r].lineage
          /\ bank[root].block_height < bank[r].block_height
      BY <2>1, <2>2, <2>3, <1>a, <1>b DEF Chain
    <2> QED
      BY <2>1, <2>2, <2>3, <2>4, Zenon
  <1>c. R \subseteq bank[r].lineage /\ R \subseteq Slots
    BY <1>0, <1>a, <1>r, Zenon DEF Kept, ParentsInclusive
  <1>d. /\ Newest(R) \subseteq R
        /\ \A a \in Newest(R), g \in gone : g < a
    BY <1>c, NewestRoots, Zenon
  <1>e. \A f \in forks' : f \in forks /\ r \in bank[f].lineage
    BY <1>b, <1>r, Zenon DEF Descendants
  <1>g. \A g \in gone : g \in Nat /\ g <= r
    BY <1>a, <1>c, <1>r, Zenon DEF Chain
  <1>1. TypeInv'
    BY <1>a, <1>b, <1>e, Zenon DEF TypeInv
  <1>2. Chain'
    <2>1. ASSUME NEW s \in DOMAIN bank, NEW a \in bank[s].lineage, a \in forks'
          PROVE  s \in forks'
      <3>1. r \in bank[a].lineage /\ a \in forks
        BY <2>1, <1>e, Zenon
      <3>2. s \in forks /\ r \in bank[s].lineage
        BY <3>1, <1>a, <1>r, Zenon DEF Chain
      <3> QED
        BY <3>2, <1>b, Zenon DEF Descendants
    <2> QED
      BY <2>1, <1>a, <1>b, Zenon DEF Chain
  <1>3. Heights'
    BY <1>a, <1>b, Zenon DEF Heights, Since
  <1>4. ASSUME NEW a \in bank[r].lineage, Near(a, r)
        PROVE  a \in Newest(R)
    <2>1. a \in DOMAIN bank /\ a \in Slots /\ a \in Nat /\ bank[a].block_height \in Nat
      BY <1>a, <1>r, Zenon DEF Chain, TypeInv, IsBank
    <2>2. a \in R
      <3>1. CASE a >= root
        BY <3>1, <1>0, Zenon DEF ParentsInclusive
      <3>2. CASE a < root
        <4>1. a \in bank[root].lineage
          BY <3>2, <2>1, <1>a, <1>r DEF Chain
        <4>2. Near(a, root)
          BY <1>4, <2>1, <1>r, ForksAssumption DEF Near
        <4> QED
          BY <4>1, <4>2, <1>0, <1>a, Zenon DEF Kept
      <3> QED
        BY <3>1, <3>2, <2>1, <1>r
    <2> DEFINE From == {q \in R : q >= a}
    <2>3. From \subseteq Since(r, a) \cup {a}
      <3>1. \A q \in R : q \in Nat /\ q \in bank[r].lineage
        BY <1>c, Zenon
      <3>2. \A q \in R : q >= a => q > a \/ q = a
        BY <3>1, <2>1
      <3> QED
        BY <3>1, <3>2, Zenon DEF Since
    <2>4. IsFiniteSet(Since(r, a)) /\ a \notin Since(r, a)
      BY <2>1, <1>r, FS_Subset DEF Since
    <2>5. /\ IsFiniteSet(Since(r, a) \cup {a})
          /\ Cardinality(Since(r, a) \cup {a}) = Cardinality(Since(r, a)) + 1
      BY <2>4, FS_AddElement, Zenon
    <2>6. IsFiniteSet(From) /\ Cardinality(From) <= Cardinality(Since(r, a)) + 1
      BY <2>3, <2>5, FS_Subset
    <2>7. Cardinality(Since(r, a)) <= bank[r].block_height - bank[a].block_height
      BY <1>a, <1>r, Zenon DEF Heights
    <2>8. Cardinality(Since(r, a)) \in Nat /\ Cardinality(From) \in Nat
      BY <2>4, <2>6, FS_CardinalityType, Zenon
    <2>9. Cardinality(From) <= MAX_RECENT_BLOCKHASHES
      <3> HIDE DEF From
      <3> QED
        BY <1>4, <2>1, <2>6, <2>7, <2>8, <1>r, ForksAssumption DEF Near
    <2> QED
      BY <2>2, <2>9, Zenon DEF Newest
  <1>5. Kept'
    <2>1. ASSUME NEW f \in forks'
          PROVE  /\ r \in bank[f].lineage
                 /\ bank[f].ancestors \subseteq bank[f].lineage
                 /\ \A a \in bank[f].lineage : a >= r => a \in bank[f].ancestors
      <3>1. f \in forks /\ r \in bank[f].lineage /\ bank[f].lineage \subseteq Slots
        BY <1>a, <1>e, Zenon DEF TypeInv, IsBank
      <3>2. \A a \in bank[f].lineage : a >= r => a >= root
        <4>1. \A a \in bank[f].lineage : a \in Nat
          BY <3>1, Zenon
        <4> QED
          BY <4>1, <1>b, <1>r
      <3> QED
        BY <3>1, <3>2, <1>a, Zenon DEF Kept
    <2>2. roots' \subseteq bank[r].lineage
      BY <1>b, <1>c, <1>d, Zenon
    <2> QED
      BY <2>1, <2>2, <1>4, <1>b, Zenon DEF Kept, Near
  <1>6. Hashes'
    BY <1>a, <1>b DEF Hashes
  <1>7. ASSUME NEW t \in Txs, NEW f, Cached(t, f), \A g \in gone : f > g
        PROVE  Cached(t, f)'
    <2>1. /\ recent[t] \in DOMAIN cache
          /\ cache[recent[t]].fork \in Nat
          /\ f \in Nat /\ f <= cache[recent[t]].fork
      <3>1. recent[t] \in DOMAIN cache /\ <<t, f>> \in cache[recent[t]].keys
        BY <1>7, Zenon DEF Cached
      <3>2. /\ <<t, f>> \in Txs \X DOMAIN bank
            /\ <<t, f>>[2] <= cache[recent[t]].fork
            /\ cache[recent[t]].fork \in Slots
        BY <3>1, <1>a, Zenon DEF Statuses
      <3> QED
        BY <3>1, <3>2, <1>a, Zenon DEF TypeInv
    <2>2. \A g \in gone : cache[recent[t]].fork > g
      BY <2>1, <1>7, <1>g
    <2> HIDE DEF gone
    <2> QED
      BY <2>1, <2>2, <1>7, <1>b, Zenon DEF Cached, Restrict
  <1>8. Statuses'
    <2>1. ASSUME NEW h \in DOMAIN cache'
          PROVE  h \in DOMAIN cache /\ cache'[h] = cache[h]
      <3> HIDE DEF gone
      <3> QED
        BY <1>b, Zenon DEF Restrict
    <2>2. ASSUME NEW h \in DOMAIN cache', NEW k \in cache'[h].keys, k[2] > r
          PROVE  k \in deltas'
      <3>1. /\ h \in DOMAIN cache /\ k \in cache[h].keys
            /\ k[2] \in Nat /\ (k[2] > root => k \in deltas)
        <4>1. h \in DOMAIN cache /\ k \in cache[h].keys
          BY <2>1, <2>2, Zenon
        <4>2. k \in Txs \X DOMAIN bank /\ (k[2] > root => k \in deltas)
          BY <4>1, <1>a, Zenon DEF Statuses
        <4> QED
          BY <4>1, <4>2, <1>a, Zenon DEF TypeInv
      <3>2. k \in deltas
        BY <3>1, <2>2, <1>b, <1>r
      <3>3. \A g \in gone : k[2] > g
        BY <3>1, <2>2, <1>g, <1>r
      <3> HIDE DEF gone
      <3> QED
        BY <3>2, <3>3, <1>b, Zenon
    <2>3. ASSUME NEW d \in deltas'
          PROVE  d \in Txs \X Slots /\ Cached(d[1], d[2])'
      <3>1. d \in deltas /\ \A g \in gone : d[2] > g
        <4> HIDE DEF gone
        <4> QED
          BY <1>b, Zenon
      <3>2. d \in Txs \X Slots /\ Cached(d[1], d[2])
        BY <3>1, <1>a, Zenon DEF Statuses
      <3> QED
        BY <3>1, <3>2, <1>7, Zenon
    <2>4. ASSUME NEW h \in DOMAIN cache'
          PROVE  /\ h # None
                 /\ cache'[h] = [fork |-> cache'[h].fork, keys |-> cache'[h].keys]
                 /\ cache'[h].fork \in Slots
                 /\ \A k \in cache'[h].keys :
                       /\ k \in Txs \X DOMAIN bank'
                       /\ recent'[k[1]] = h
                       /\ k[1] \in bank'[k[2]].done
                       /\ k[2] <= cache'[h].fork
      BY <2>1, <1>a, <1>b, Zenon DEF Statuses
    <2> QED
      BY <2>2, <2>3, <2>4, <1>b, Zenon DEF Statuses
  <1>9. Covered'
    <2> SUFFICES ASSUME NEW f \in forks', NEW a \in bank[f].lineage,
                        a > r \/ Near(a, r), NEW t \in bank[a].done
                 PROVE  Cached(t, a)'
      BY <1>b, Zenon DEF Covered, Near
    <2>1. /\ f \in forks /\ f \in DOMAIN bank /\ a \in DOMAIN bank /\ a \in Nat
          /\ a \in Slots /\ t \in Txs /\ bank[a].block_height \in Nat
      BY <1>a, <1>e, Zenon DEF TypeInv, Chain, IsBank
    <2>2. a > root \/ Near(a, root)
      BY <2>1, <1>b, <1>r, ForksAssumption DEF Near
    <2>3. Cached(t, a)
      BY <2>1, <2>2, <1>a, Zenon DEF Covered
    <2>4. \A g \in gone : a > g
      <3>1. CASE a > r
        BY <3>1, <2>1, <1>g, <1>r
      <3>2. CASE ~(a > r)
        <4>1. a \in bank[r].lineage
          BY <3>2, <2>1, <1>a, <1>e, <1>r DEF Chain
        <4>2. a \in Newest(R)
          BY <3>2, <4>1, <1>4, Zenon
        <4> QED
          BY <4>2, <2>1, <1>d, <1>g, Zenon
      <3> QED
        BY <3>1, <3>2, Zenon
    <2> QED
      BY <2>1, <2>3, <2>4, <1>7, Zenon
  <1>10. ProcessedOnce'
    BY <1>a, <1>b, <1>e DEF ProcessedOnce, ExecutedIn
  <1> QED
    BY <1>1, <1>2, <1>3, <1>5, <1>6, <1>8, <1>9, <1>10, Zenon DEF IInv

(* A purge removes whole subtrees, and from the cache exactly what was     *)
(* noted in them.                                                          *)
LEMMA PurgeInv ==
    ASSUME IInv, NEW d \in forks, PurgeSlot(d)
    PROVE  IInv'
  <1> USE SlotFacts
  <1>0. PICK G : G = {d} \cup Descendants(d)
    BY Zenon
  <1> DEFINE left(h) == {k \in cache[h].keys : ~(k[2] \in G /\ k \in deltas)}
  <1>a. /\ TypeInv /\ Chain /\ Heights /\ Kept /\ Hashes /\ Statuses
        /\ Covered /\ ProcessedOnce
    BY Zenon DEF IInv
  <1>b. /\ root' = root /\ roots' = roots /\ recent' = recent
        /\ deltas' = {q \in deltas : q[2] \notin G}
        /\ cache' = [h \in {g \in DOMAIN cache : left(g) # {}} |->
                        [cache[h] EXCEPT !.keys = left(h)]]
    BY <1>0, Zenon DEF PurgeSlot, ClearSlotEntries
  <1>e. /\ G \subseteq forks
        /\ root \notin G
        /\ \A g \in G : g > root
        /\ forks' = forks \ G
        /\ DOMAIN bank' = DOMAIN bank \ G
        /\ \A f \in DOMAIN bank \ G : /\ bank'[f] = bank[f]
                                      /\ bank[f].lineage \subseteq DOMAIN bank \ G
    BY <1>0, <1>a, PurgeEffect, Zenon
  <1>c. ASSUME NEW h \in DOMAIN cache'
        PROVE  /\ h \in DOMAIN cache
               /\ cache'[h].fork = cache[h].fork
               /\ cache'[h].keys = left(h)
               /\ cache'[h] = [fork |-> cache'[h].fork, keys |-> cache'[h].keys]
    <2>1. h \in DOMAIN cache /\ cache'[h] = [cache[h] EXCEPT !.keys = left(h)]
      BY <1>b, <1>c, Zenon
    <2>2. cache[h] = [fork |-> cache[h].fork, keys |-> cache[h].keys]
      BY <2>1, <1>a, Zenon DEF Statuses
    <2> HIDE DEF left
    <2> QED
      BY <2>1, <2>2, Zenon
  <1>1. TypeInv'
    BY <1>a, <1>b, <1>e, Zenon DEF TypeInv
  <1>2. Chain'
    BY <1>a, <1>e, Zenon DEF Chain
  <1>3. Heights'
    <2> SUFFICES ASSUME NEW f \in DOMAIN bank \ G, NEW a \in bank[f].lineage
                 PROVE  Cardinality(Since(f, a)')
                           <= bank[f].block_height - bank[a].block_height
      BY <1>e, Zenon DEF Heights
    <2>1. Since(f, a)' = Since(f, a)
      BY <1>e, Zenon DEF Since
    <2> QED
      BY <2>1, <1>a, Zenon DEF Heights
  <1>4. Kept'
    <2>1. bank'[root] = bank[root] /\ root \in DOMAIN bank \ G
      BY <1>a, <1>e, Zenon DEF TypeInv
    <2>2. \A a \in bank[root].lineage : bank'[a] = bank[a]
      BY <2>1, <1>e, Zenon
    <2>3. \A f \in forks' : f \in forks /\ f \in DOMAIN bank \ G
      BY <1>a, <1>e, Zenon DEF TypeInv
    <2> QED
      BY <2>1, <2>2, <2>3, <1>a, <1>b, <1>e, Zenon DEF Kept, Near
  <1>5. Hashes'
    <2> SUFFICES ASSUME NEW f \in DOMAIN bank \ G
                 PROVE  /\ \A k \in DOMAIN bank[f].ages :
                              /\ bank[f].ages[k] <= bank[f].last_hash_index
                              /\ k[1] \in bank[f].lineage
                              /\ k[1] = f => bank[f].frozen
                        /\ \A a \in bank[f].lineage :
                              \A k \in DOMAIN bank[a].ages :
                                 /\ k \in DOMAIN bank[f].ages
                                 /\ bank[f].ages[k] = bank[a].ages[k]
                        /\ \A u \in bank[f].done :
                              /\ recent[u] # None
                              /\ recent[u] \in DOMAIN bank[f].ages
                              /\ bank[f].ages[recent[u]] <= bank[f].block_height
      BY <1>b, <1>e DEF Hashes
    <2> QED
      BY <1>a, Zenon DEF Hashes
  <1>6. ASSUME NEW t \in Txs, NEW f, Cached(t, f), f \notin G
        PROVE  Cached(t, f)'
    <2>1. recent[t] \in DOMAIN cache /\ <<t, f>> \in left(recent[t])
      BY <1>6, Zenon DEF Cached
    <2>2. recent[t] \in DOMAIN cache'
      BY <2>1, <1>b, Zenon
    <2> HIDE DEF left
    <2> QED
      BY <2>1, <2>2, <1>b, <1>c DEF Cached
  <1>7. Statuses'
    <2>1. ASSUME NEW h \in DOMAIN cache', NEW k \in cache'[h].keys
          PROVE  /\ k \in Txs \X DOMAIN bank'
                 /\ recent'[k[1]] = h
                 /\ k[1] \in bank'[k[2]].done
                 /\ k[2] <= cache'[h].fork
                 /\ k[2] > root' => k \in deltas'
      <3>1. /\ h \in DOMAIN cache /\ k \in cache[h].keys
            /\ ~(k[2] \in G /\ k \in deltas)
        BY <2>1, <1>c, Zenon
      <3>2. /\ k \in Txs \X DOMAIN bank /\ recent[k[1]] = h
            /\ k[1] \in bank[k[2]].done /\ k[2] <= cache[h].fork
            /\ k[2] > root => k \in deltas
        BY <3>1, <1>a, Zenon DEF Statuses
      <3>3. k[2] \notin G
        BY <3>1, <3>2, <1>e, Zenon
      <3>4. k \in Txs \X DOMAIN bank' /\ bank'[k[2]] = bank[k[2]]
        BY <3>2, <3>3, <1>e, Zenon
      <3> HIDE DEF left
      <3> QED
        BY <3>2, <3>3, <3>4, <1>b, <1>c, Zenon
    <2>2. ASSUME NEW q \in deltas'
          PROVE  q \in Txs \X Slots /\ Cached(q[1], q[2])'
      <3>1. q \in deltas /\ q[2] \notin G
        BY <1>b, Zenon
      <3>2. q \in Txs \X Slots /\ Cached(q[1], q[2])
        BY <3>1, <1>a, Zenon DEF Statuses
      <3> QED
        BY <3>1, <3>2, <1>6, Zenon
    <2>3. ASSUME NEW h \in DOMAIN cache'
          PROVE  /\ h # None
                 /\ cache'[h] = [fork |-> cache'[h].fork, keys |-> cache'[h].keys]
                 /\ cache'[h].fork \in Slots
      BY <1>a, <1>c, Zenon DEF Statuses
    <2> QED
      BY <2>1, <2>2, <2>3, Zenon DEF Statuses
  <1>8. Covered'
    <2> SUFFICES ASSUME NEW f \in forks', NEW a \in bank'[f].lineage,
                        a > root \/ Near(a, root)', NEW t \in bank'[a].done
                 PROVE  Cached(t, a)'
      BY <1>b, Zenon DEF Covered
    <2>1. /\ f \in forks /\ f \in DOMAIN bank \ G /\ bank'[f] = bank[f]
          /\ a \in bank[f].lineage /\ a \in DOMAIN bank \ G /\ bank'[a] = bank[a]
      BY <1>a, <1>e DEF TypeInv
    <2>2. a > root \/ Near(a, root)
      BY <2>1, <1>a, <1>b, <1>e, SMTT(20) DEF Near, TypeInv
    <2>3. Cached(t, a) /\ t \in Txs
      BY <2>1, <2>2, <1>a, Zenon DEF Covered, TypeInv, IsBank
    <2> QED
      BY <2>1, <2>3, <1>6, Zenon
  <1>9. ProcessedOnce'
    <2>1. \A f \in forks' : f \in forks /\ f \in DOMAIN bank \ G
      BY <1>a, <1>e, Zenon DEF TypeInv
    <2>2. \A f \in forks', u \in Txs : ExecutedIn(f, u)' = ExecutedIn(f, u)
      BY <2>1, <1>e DEF ExecutedIn
    <2> QED
      BY <2>1, <2>2, <1>a DEF ProcessedOnce
  <1> QED
    BY <1>1, <1>2, <1>3, <1>4, <1>5, <1>7, <1>8, <1>9, Zenon DEF IInv

-----------------------------------------------------------------------------
(* The inductive invariant of the forks *)
LEMMA StepInv == IInv /\ [ForksNext]_forkVars => IInv'
  <1> SUFFICES ASSUME IInv, [ForksNext]_forkVars
               PROVE  IInv'
    BY Zenon
  <1>1. ASSUME NEW p \in forks, NEW s \in Slots, NewBank(p, s)
        PROVE  IInv'
    BY <1>1, NewBankInv, Zenon
  <1>2. ASSUME NEW s \in DOMAIN bank, NEW t \in Txs, NEW o \in Outcomes,
               Execute(s, t, o)
        PROVE  IInv'
    BY <1>2, ExecuteInv, Zenon
  <1>3. ASSUME NEW s \in forks, Freeze(s)
        PROVE  IInv'
    BY <1>3, FreezeInv, Zenon
  <1>4. ASSUME NEW s \in forks, SetRoot(s)
        PROVE  IInv'
    BY <1>4, SetRootInv, Zenon
  <1>5. ASSUME NEW s \in forks, PurgeSlot(s)
        PROVE  IInv'
    BY <1>5, PurgeInv, Zenon
  <1>6. ASSUME NEW s \in forks, NEW t \in Txs, Sign(t, s)
        PROVE  IInv'
    BY <1>6, SignInv, Zenon
  <1>7. CASE UNCHANGED forkVars
    <2>1. /\ bank' = bank /\ forks' = forks /\ root' = root /\ roots' = roots
          /\ cache' = cache /\ deltas' = deltas /\ recent' = recent
      BY <1>7, Zenon DEF forkVars
    <2>2. TypeInv' /\ Chain' /\ Kept'
      BY <2>1, Zenon DEF IInv, TypeInv, Chain, Kept, Near
    <2>3. Heights'
      BY <2>1, Zenon DEF IInv, Heights, Since
    <2>4. Hashes'
      BY <2>1 DEF IInv, Hashes
    <2>5. Statuses' /\ Covered'
      BY <2>1 DEF IInv, Statuses, Covered, Cached, Near
    <2>6. ProcessedOnce'
      BY <2>1 DEF IInv, ProcessedOnce, ExecutedIn
    <2> QED
      BY <2>2, <2>3, <2>4, <2>5, <2>6, Zenon DEF IInv
  <1> QED
    BY <1>1, <1>2, <1>3, <1>4, <1>5, <1>6, <1>7, Zenon DEF ForksNext

(* ... which holds for ever. *)
LEMMA Invariance == ForksSpec => []IInv
  BY InitInv, StepInv, PTL DEF ForksSpec

(* check_transactions never lets a transaction execute twice on a fork,    *)
(* whatever is rooted, purged or replayed.                                 *)
THEOREM AlwaysProcessedOnce == ForksSpec => []ProcessedOnce
  <1>1. IInv => ProcessedOnce
    BY Zenon DEF IInv
  <1> QED
    BY <1>1, Invariance, PTL

(* get_status tells a bank exactly what happened on its own fork to every  *)
(* transaction it could still execute.                                     *)
THEOREM AlwaysLookupExact == ForksSpec => []LookupExact
  BY LookupLemma, Invariance, PTL

(* clear_slot_entries finds every status its slot's delta names. *)
THEOREM DeltasAlwaysCached == ForksSpec => []DeltasCached
  <1>1. IInv => DeltasCached
    BY Zenon DEF IInv, Statuses, DeltasCached
  <1> QED
    BY <1>1, Invariance, PTL

-----------------------------------------------------------------------------
(* RemoteEnvironment: the calls of a client, on these forks *)

(* The bank of the slot a blockhash was registered in knows the hash. *)
Registered(h) ==
    /\ h[1] \in DOMAIN bank
    /\ h \in DOMAIN bank[h[1]].ages

(* Banks that are no longer kept are as consistent as those that are. *)
Histories ==
    \A s \in DOMAIN bank :
        /\ bank[s].ancestors \subseteq bank[s].lineage
        /\ \A h \in DOMAIN bank[s].ages : Registered(h)

(* Without purges, banks only gain transactions and blockhashes, and the   *)
(* root moves along its fork.                                              *)
Grows ==
    /\ \A s \in DOMAIN bank :
          /\ s \in DOMAIN bank'
          /\ bank'[s].lineage = bank[s].lineage
          /\ bank'[s].block_height = bank[s].block_height
          /\ bank[s].frozen => bank'[s].frozen
          /\ bank[s].done \subseteq bank'[s].done
          /\ \A h \in DOMAIN bank[s].ages :
                /\ h \in DOMAIN bank'[s].ages
                /\ bank'[s].ages[h] = bank[s].ages[h]
    /\ root' \in DOMAIN bank
    /\ root \in bank[root'].lineage

(* Bank::new_from_parent *)
LEMMA NewBankGrows ==
    ASSUME IInv, Histories, NEW p \in forks, NEW s \in Slots, NewBank(p, s)
    PROVE  Grows /\ Histories'
  <1>0. PICK W, A : bank[p].lineage = W /\ ParentsInclusive(p) = A
    BY Zenon
  <1>1. TypeInv /\ Chain /\ Kept /\ Hashes
    BY Zenon DEF IInv
  <1>2. /\ DOMAIN bank' = DOMAIN bank \cup {s}
        /\ s \notin DOMAIN bank
        /\ \A f \in DOMAIN bank : bank'[f] = bank[f]
        /\ bank'[s].lineage = W \cup {s}
        /\ bank'[s].ancestors = A \cup {s}
        /\ bank'[s].ages = bank[p].ages
    BY <1>0, <1>1, NewBankEffect
  <1>3. root' = root /\ root \in DOMAIN bank /\ root \in bank[root].lineage
    BY <1>1, Zenon DEF NewBank, TypeInv, Chain
  <1>4. Grows
    BY <1>2, <1>3, Zenon DEF Grows
  <1>5. A \subseteq W
    BY <1>0, Zenon DEF ParentsInclusive
  <1>6. \A h : Registered(h) => Registered(h)'
    BY <1>2, Zenon DEF Registered
  <1>7. p \in DOMAIN bank
    BY <1>1, Zenon DEF TypeInv
  <1>8. Histories'
    BY <1>2, <1>5, <1>6, <1>7, Zenon DEF Histories
  <1> QED
    BY <1>4, <1>8, Zenon

(* commit_transactions *)
LEMMA ExecuteGrows ==
    ASSUME IInv, Histories, NEW s \in forks, NEW t \in Txs, NEW o, Execute(s, t, o)
    PROVE  Grows /\ Histories'
  <1>1. TypeInv /\ Chain /\ s \in DOMAIN bank
    BY Zenon DEF IInv, TypeInv
  <1>2. /\ DOMAIN bank' = DOMAIN bank
        /\ bank'[s].done = bank[s].done \cup {t}
        /\ \A f \in DOMAIN bank :
              /\ bank'[f].lineage = bank[f].lineage
              /\ bank'[f].ancestors = bank[f].ancestors
              /\ bank'[f].block_height = bank[f].block_height
              /\ bank'[f].ages = bank[f].ages
              /\ bank'[f].frozen = bank[f].frozen
              /\ f # s => bank'[f].done = bank[f].done
    BY <1>1, ExecuteEffect, Zenon
  <1>3. root' = root /\ root \in DOMAIN bank /\ root \in bank[root].lineage
    BY <1>1, Zenon DEF Execute, TypeInv, Chain
  <1>4. Grows
    BY <1>2, <1>3, Zenon DEF Grows
  <1>5. Histories'
    BY <1>2, Zenon DEF Histories, Registered
  <1> QED
    BY <1>4, <1>5, Zenon

(* The blockhash a bank registers is new. *)
LEMMA FreezeGrows ==
    ASSUME IInv, Histories, NEW s \in forks, Freeze(s)
    PROVE  Grows /\ Histories'
  <1>0. PICK v : version[s] = v
    BY Zenon
  <1>1. TypeInv /\ Chain /\ Hashes /\ s \in DOMAIN bank
    BY Zenon DEF IInv, TypeInv
  <1>2. /\ DOMAIN bank' = DOMAIN bank
        /\ ~bank[s].frozen
        /\ bank'[s].frozen
        /\ \A f \in DOMAIN bank : f # s => bank'[f] = bank[f]
        /\ bank'[s].lineage = bank[s].lineage
        /\ bank'[s].ancestors = bank[s].ancestors
        /\ bank'[s].block_height = bank[s].block_height
        /\ bank'[s].done = bank[s].done
        /\ DOMAIN bank'[s].ages = DOMAIN bank[s].ages \cup {<<s, v>>}
        /\ \A h \in DOMAIN bank[s].ages :
              h # <<s, v>> => bank'[s].ages[h] = bank[s].ages[h]
    BY <1>0, <1>1, FreezeEffect, Zenon
  <1>3. root' = root /\ root \in DOMAIN bank /\ root \in bank[root].lineage
    BY <1>1, Zenon DEF Freeze, TypeInv, Chain
  <1>4. <<s, v>> \notin DOMAIN bank[s].ages
    BY <1>1, <1>2, Zenon DEF Hashes
  <1>5. Grows
    BY <1>2, <1>3, <1>4, Zenon DEF Grows
  <1>6. \A h : Registered(h) => Registered(h)'
    BY <1>2, Zenon DEF Registered
  <1>7. Registered(<<s, v>>)'
    BY <1>1, <1>2, Zenon DEF Registered
  <1>8. Histories'
    BY <1>2, <1>6, <1>7 DEF Histories
  <1> QED
    BY <1>5, <1>8, Zenon

(* BankForks::set_root *)
LEMMA SetRootGrows ==
    ASSUME IInv, Histories, NEW r \in forks, SetRoot(r)
    PROVE  Grows /\ Histories'
  <1>1. /\ TypeInv /\ Kept
        /\ bank' = bank /\ root' = r
    BY Zenon DEF IInv, SetRoot
  <1>2. r \in DOMAIN bank /\ root \in bank[r].lineage
    BY <1>1, Zenon DEF TypeInv, Kept
  <1> QED
    BY <1>1, <1>2, Zenon DEF Grows, Histories, Registered

(* What leaves the banks and the root alone *)
LEMMA SameGrows ==
    ASSUME IInv, Histories, bank' = bank, root' = root
    PROVE  Grows /\ Histories'
  <1>1. root \in DOMAIN bank /\ root \in bank[root].lineage
    BY Zenon DEF IInv, TypeInv, Chain
  <1> QED
    BY <1>1, Zenon DEF Grows, Histories, Registered

(* What has been executed in the history of a bank stays there, and the    *)
(* height of the root and the ages of registered blockhashes stay.         *)
LEMMA GrowthKeeps ==
    ASSUME IInv, IInv', Grows
    PROVE  /\ \A s \in DOMAIN bank, t \in Txs :
                 ExecutedIn(s, t) # {} => ExecutedIn(s, t)' # {}
           /\ \A t \in Txs : ExecutedIn(root, t) # {} => ExecutedIn(root, t)' # {}
           /\ bank[root].block_height \in Nat /\ bank'[root'].block_height \in Nat
           /\ bank[root].block_height <= bank'[root'].block_height
           /\ \A h : Registered(h) =>
                 /\ Registered(h)'
                 /\ bank'[h[1]].ages[h] = bank[h[1]].ages[h]
  <1>1. TypeInv /\ Chain /\ Chain' /\ TypeInv'
    BY Zenon DEF IInv
  <1>2. \A s \in DOMAIN bank : bank[s].lineage \subseteq DOMAIN bank
    BY <1>1, Zenon DEF Chain
  <1>3. \A s \in DOMAIN bank, t \in Txs : ExecutedIn(s, t) \subseteq ExecutedIn(s, t)'
    BY <1>2, Zenon DEF Grows, ExecutedIn
  <1>4. /\ root \in DOMAIN bank /\ root' \in DOMAIN bank
        /\ IsBank(bank[root]) /\ IsBank(bank[root'])
    BY <1>1, Zenon DEF Grows, TypeInv
  <1>5. bank[root].lineage \subseteq bank'[root'].lineage
    <2>1. bank'[root'].lineage = bank[root'].lineage /\ root \in bank[root'].lineage
      BY <1>4, Zenon DEF Grows
    <2>2. bank[root].lineage \subseteq Slots
      BY <1>4, Zenon DEF IsBank
    <2>3. \A x \in Slots : x \in bank[root].lineage => x \in bank[root'].lineage
      BY <1>1, <1>4, <2>1, Zenon DEF Chain
    <2> QED
      BY <2>1, <2>2, <2>3, Zenon
  <1>6. \A t \in Txs : ExecutedIn(root, t) \subseteq ExecutedIn(root, t)'
    BY <1>2, <1>4, <1>5, Zenon DEF Grows, ExecutedIn
  <1>7. /\ bank[root].block_height \in Nat /\ bank'[root'].block_height \in Nat
        /\ bank[root].block_height <= bank'[root'].block_height
    <2>1. bank'[root'].block_height = bank[root'].block_height
      BY <1>4, Zenon DEF Grows
    <2>2. root = root' \/ bank[root].block_height < bank[root'].block_height
      BY <1>1, <1>4, Zenon DEF Chain, Grows
    <2>3. bank[root].block_height \in Nat /\ bank[root'].block_height \in Nat
      BY <1>4, Zenon DEF IsBank
    <2> QED
      BY <2>1, <2>2, <2>3
  <1>8. \A h : Registered(h) => /\ Registered(h)'
                                /\ bank'[h[1]].ages[h] = bank[h[1]].ages[h]
    BY Zenon DEF Registered, Grows
  <1> QED
    BY <1>3, <1>6, <1>7, <1>8, Zenon

(* The confirmed bank stays in the history of what is confirmed later. *)
LEMMA ConfirmKeeps ==
    ASSUME IInv, NEW c \in DOMAIN bank, NEW s \in DOMAIN bank, c \in bank[s].lineage,
           NEW t \in Txs, ExecutedIn(c, t) # {}
    PROVE  ExecutedIn(s, t) # {}
  <1>1. bank[c].lineage \subseteq Slots
    BY Zenon DEF IInv, TypeInv, IsBank
  <1>2. bank[c].lineage \subseteq bank[s].lineage
    BY <1>1, Zenon DEF IInv, Chain
  <1> QED
    BY <1>2, Zenon DEF ExecutedIn

-----------------------------------------------------------------------------
(* A call is about an unsigned transaction until it has a blockhash. *)
Unsigned == {"idle", "hashing"}

Calls ==
    /\ DOMAIN call = Txs
    /\ \A t \in Txs : call[t] \in Unsigned => recent[t] = None

(* The service has these transactions, or has had them: they are sent, and *)
(* last as long as a blockhash that passed the preflight.                  *)
Received == batch \cup retry \cup settled

Dated(t) ==
    /\ Registered(recent[t])
    /\ lastValid[t] = bank[recent[t][1]].ages[recent[t]] + MAX_RECENT_BLOCKHASHES - 1

(* It is too late for a transaction that was dropped. *)
Over(t) ==
    \/ ExecutedIn(root, t) # {}
    \/ lastValid[t] < bank[root].block_height

Service ==
    /\ Received \cup packets \subseteq Txs
    /\ lastValid \in [Txs -> Int]
    /\ \A t \in Received :
          /\ call[t] \notin Unsigned \cup {"signed"}
          /\ t \notin airdrops => Dated(t)
    /\ \A t \in settled : Over(t)

Landed(t) == ExecutedIn(confirmed, t) \cup ExecutedIn(root, t) # {}

RemoteInv ==
    /\ IInv
    /\ Histories
    /\ confirmed \in DOMAIN bank
    /\ bank[confirmed].frozen
    /\ Calls
    /\ Service
    /\ OkIsConfirmed

(* Nothing is signed, sent or dropped at first. *)
LEMMA RemoteInit == Init => RemoteInv
  <1> SUFFICES ASSUME Init PROVE RemoteInv
    BY Zenon
  <1>1. IInv
    BY InitInv, Zenon DEF Init
  <1>2. /\ DOMAIN bank = {0} /\ bank[0].ancestors = {0} /\ bank[0].lineage = {0}
        /\ bank[0].frozen /\ bank[0].ages = [h \in {<<0, 0>>} |-> 1]
    BY Zenon DEF Init, ForksInit
  <1>3. Histories
    BY <1>2 DEF Histories, Registered
  <1>4. confirmed = 0 /\ call = [t \in Txs |-> "idle"] /\ recent = [t \in Txs |-> None]
        /\ Received \cup packets = {} /\ settled = {} /\ lastValid = [t \in Txs |-> 0]
    BY Zenon DEF Init, ForksInit, Received
  <1>5. Calls /\ Service /\ OkIsConfirmed
    BY <1>4 DEF Calls, Service, Received, OkIsConfirmed
  <1> QED
    BY <1>1, <1>2, <1>3, <1>4, <1>5, Zenon DEF RemoteInv

(* A step of the ledger under the calls *)
LEMMA LedgerKeeps ==
    ASSUME RemoteInv, IInv', Grows, Histories', recent' = recent,
           UNCHANGED <<confirmed, airdrops, call, serviceVars>>
    PROVE  RemoteInv'
  <1>1. /\ \A s \in DOMAIN bank, t \in Txs :
              ExecutedIn(s, t) # {} => ExecutedIn(s, t)' # {}
        /\ \A t \in Txs : ExecutedIn(root, t) # {} => ExecutedIn(root, t)' # {}
        /\ bank[root].block_height \in Nat /\ bank'[root'].block_height \in Nat
        /\ bank[root].block_height <= bank'[root'].block_height
        /\ \A h : Registered(h) =>
              /\ Registered(h)'
              /\ bank'[h[1]].ages[h] = bank[h[1]].ages[h]
    BY GrowthKeeps, Zenon DEF RemoteInv
  <1>2. confirmed' \in DOMAIN bank' /\ bank'[confirmed'].frozen
    BY Zenon DEF RemoteInv, Grows
  <1>3. Calls'
    BY Zenon DEF RemoteInv, Calls
  <1>4. \A t : Dated(t) => Dated(t)'
    BY <1>1, Zenon DEF Dated, serviceVars
  <1>5. ASSUME NEW t \in Txs, Over(t), lastValid \in [Txs -> Int]
        PROVE  Over(t)'
    <2>1. CASE ExecutedIn(root, t) # {}
      BY <1>1, <2>1, Zenon DEF Over
    <2>2. CASE lastValid[t] < bank[root].block_height
      <3>1. lastValid[t] \in Int /\ lastValid' = lastValid
        BY <1>5, Zenon DEF serviceVars
      <3>2. lastValid[t] < bank'[root'].block_height
        BY <1>1, <2>2, <3>1
      <3> QED
        BY <3>1, <3>2, Zenon DEF Over
    <2> QED
      BY <1>5, <2>1, <2>2, Zenon DEF Over
  <1>6. Service'
    BY <1>4, <1>5, Zenon DEF RemoteInv, Service, Received, serviceVars
  <1>7. OkIsConfirmed'
    <2>1. ASSUME NEW t \in Txs, Landed(t)
          PROVE  Landed(t)'
      <3>1. ExecutedIn(confirmed, t) # {} \/ ExecutedIn(root, t) # {}
        BY <2>1, Zenon DEF Landed
      <3>2. ExecutedIn(confirmed, t)' # {} \/ ExecutedIn(root, t)' # {}
        BY <1>1, <3>1, Zenon DEF RemoteInv, ExecutedIn
      <3> QED
        BY <3>2, Zenon DEF Landed
    <2> QED
      BY <2>1, Zenon DEF RemoteInv, OkIsConfirmed, Landed
  <1> QED
    BY <1>2, <1>3, <1>6, <1>7, Zenon DEF RemoteInv

(* Nothing happens to the banks. *)
LEMMA ForksKept ==
    ASSUME RemoteInv, UNCHANGED forkVars
    PROVE  /\ IInv' /\ Histories' /\ Grows
           /\ bank' = bank /\ root' = root /\ recent' = recent
  <1>1. bank' = bank /\ root' = root /\ recent' = recent
    BY Zenon DEF forkVars
  <1>2. IInv'
    BY StepInv, Zenon DEF RemoteInv
  <1> QED
    BY <1>1, <1>2, SameGrows, Zenon DEF RemoteInv

(* A status that getSignatureStatuses or the retry thread finds is that of *)
(* an execution in the bank's history or below the root.                   *)
LEMMA StatusIsExecution ==
    ASSUME RemoteInv, NEW s \in DOMAIN bank, NEW t \in Txs, Status(s, t) # {}
    PROVE  ExecutedIn(s, t) \cup ExecutedIn(root, t) # {}
  <1>1. PICK f \in bank[s].ancestors \cup roots : Cached(t, f)
    BY Zenon DEF Status
  <1>2. t \in bank[f].done
    BY <1>1 DEF RemoteInv, IInv, Statuses, Cached
  <1>3. f \in bank[s].lineage \/ f \in bank[root].lineage
    BY <1>1, Zenon DEF RemoteInv, Histories, IInv, Kept
  <1> QED
    BY <1>2, <1>3, Zenon DEF ExecutedIn

(* The service moves transactions along, and drops those that are over. *)
LEMMA ServiceKeeps ==
    ASSUME RemoteInv, UNCHANGED <<forkVars, airdrops, consensusVars, call, lastValid>>,
           Received' \subseteq Received,
           packets' \subseteq packets \cup Received,
           \A t \in settled' : t \in settled \/ (t \in Received /\ Over(t))
    PROVE  RemoteInv'
  <1>1. /\ IInv' /\ Histories'
        /\ bank' = bank /\ root' = root /\ recent' = recent
        /\ airdrops' = airdrops /\ confirmed' = confirmed
        /\ call' = call /\ lastValid' = lastValid
    BY ForksKept, Zenon DEF consensusVars
  <1>2. Service'
    BY <1>1, Zenon DEF RemoteInv, Service, Dated, Registered, Over, ExecutedIn
  <1> QED
    BY <1>1, <1>2, Zenon DEF RemoteInv, Calls, OkIsConfirmed, ExecutedIn

(* receive_txn_thread *)
LEMMA SendBatchKeeps == RemoteInv /\ SendBatch => RemoteInv'
  <1> SUFFICES ASSUME RemoteInv, SendBatch PROVE RemoteInv'
    BY Zenon
  <1>1. /\ UNCHANGED <<forkVars, airdrops, consensusVars, call, lastValid>>
        /\ Received' \subseteq Received
        /\ packets' \subseteq packets \cup Received
        /\ settled' = settled
    BY Zenon DEF SendBatch, Received
  <1> QED
    BY <1>1, ServiceKeeps, Zenon

(* process_transactions: what is rooted is in the root's history. *)
LEMMA RetryPassKeeps == RemoteInv /\ RetryPass => RemoteInv'
  <1> SUFFICES ASSUME RemoteInv, RetryPass PROVE RemoteInv'
    BY Zenon
  <1>1. /\ UNCHANGED <<forkVars, airdrops, consensusVars, call, batch, lastValid>>
        /\ retry' \subseteq retry
        /\ packets' \subseteq packets \cup retry
        /\ settled' = settled \cup {t \in retry : Rooted(t) \/ Expired(t)}
    BY Zenon DEF RetryPass
  <1>2. ASSUME NEW t \in retry, Rooted(t) \/ Expired(t)
        PROVE  Over(t)
    <2>1. t \in Txs /\ root \in DOMAIN bank
      BY Zenon DEF RemoteInv, Service, Received, IInv, TypeInv
    <2>2. CASE Rooted(t)
      BY <2>1, <2>2, StatusIsExecution, Zenon DEF Rooted, Over
    <2>3. CASE Expired(t)
      BY <2>3, Zenon DEF Expired, Over
    <2> QED
      BY <1>2, <2>2, <2>3, Zenon
  <1>3. /\ Received' \subseteq Received
        /\ packets' \subseteq packets \cup Received
        /\ \A t \in settled' : t \in settled \/ (t \in Received /\ Over(t))
    BY <1>1, <1>2, Zenon DEF Received
  <1> QED
    BY <1>1, <1>3, ServiceKeeps, Zenon

(* The network loses a packet. *)
LEMMA LoseKeeps == ASSUME RemoteInv, NEW t \in Txs, Lose(t) PROVE RemoteInv'
  <1>1. /\ UNCHANGED <<forkVars, airdrops, consensusVars, call, lastValid>>
        /\ Received' \subseteq Received
        /\ packets' \subseteq packets \cup Received
        /\ settled' = settled
    BY Zenon DEF Lose, Received
  <1> QED
    BY <1>1, ServiceKeeps, Zenon

(* process_notification: what is confirmed later contains what was. *)
LEMMA ConfirmStep == ASSUME RemoteInv, NEW s \in forks, Confirm(s) PROVE RemoteInv'
  <1>1. /\ IInv' /\ Histories'
        /\ bank' = bank /\ root' = root /\ recent' = recent
        /\ airdrops' = airdrops /\ confirmed' = s
        /\ call' = call /\ UNCHANGED serviceVars
        /\ bank[s].frozen /\ confirmed \in bank[s].lineage
    BY ForksKept, Zenon DEF Confirm
  <1>2. s \in DOMAIN bank /\ confirmed \in DOMAIN bank /\ IInv
    BY Zenon DEF RemoteInv, IInv, TypeInv
  <1>3. Service'
    BY <1>1, Zenon DEF RemoteInv, Service, Received, Dated, Registered, Over, ExecutedIn, serviceVars
  <1>4. ASSUME NEW t \in Txs, ExecutedIn(confirmed, t) \cup ExecutedIn(root, t) # {}
        PROVE  ExecutedIn(s, t) \cup ExecutedIn(root, t) # {}
    BY <1>1, <1>2, <1>4, ConfirmKeeps, Zenon
  <1>5. OkIsConfirmed'
    BY <1>1, <1>4, Zenon DEF RemoteInv, OkIsConfirmed, ExecutedIn
  <1> QED
    BY <1>1, <1>2, <1>3, <1>5, Zenon DEF RemoteInv, Calls

(* A call moves on; success is reported about what has landed. *)
LEMMA CallKeeps ==
    ASSUME RemoteInv, NEW t \in Txs, NEW x, call' = [call EXCEPT ![t] = x],
           UNCHANGED <<forkVars, airdrops, consensusVars, serviceVars>>,
           x \in Unsigned => call[t] \in Unsigned,
           x # "signed",
           x = "ok" /\ recent[t] # None => Landed(t)
    PROVE  RemoteInv'
  <1>1. /\ IInv' /\ Histories'
        /\ bank' = bank /\ root' = root /\ recent' = recent
        /\ airdrops' = airdrops /\ confirmed' = confirmed
        /\ UNCHANGED serviceVars
    BY ForksKept, Zenon DEF consensusVars
  <1>2. DOMAIN call = Txs /\ DOMAIN call' = Txs /\ call'[t] = x
        /\ \A u \in Txs : u # t => call'[u] = call[u]
    BY Zenon DEF RemoteInv, Calls
  <1>3. Calls'
    BY <1>1, <1>2, Zenon DEF RemoteInv, Calls
  <1>4. Service'
    BY <1>1, <1>2, SMTT(30) DEF RemoteInv, Service, Received, Dated, Registered, Over, ExecutedIn,
                      serviceVars
  <1>5. OkIsConfirmed'
    BY <1>1, <1>2 DEF RemoteInv, OkIsConfirmed, Landed, ExecutedIn
  <1> QED
    BY <1>1, <1>3, <1>4, <1>5, Zenon DEF RemoteInv

(* A call that asks, waits, is told the status or gives up *)
LEMMA PollingKeeps ==
    ASSUME RemoteInv, NEW t \in Txs,
           \/ CheckBalance(t)
           \/ Refused(t)
           \/ GetStatus(t)
           \/ GetConfirmation(t)
           \/ CheckBlockhash(t)
           \/ NotFinalized(t)
           \/ RpcError(t)
    PROVE  RemoteInv'
  <1>1. CASE CheckBalance(t)
    <2>1. recent[t] = None /\ call[t] \in Unsigned
      BY <1>1, Zenon DEF CheckBalance, Goto, RemoteInv, Calls, Unsigned
    <2>2. PICK x \in {"hashing", "ok"} : call' = [call EXCEPT ![t] = x]
      BY <1>1, Zenon DEF CheckBalance, Goto
    <2>3. UNCHANGED <<forkVars, airdrops, consensusVars, serviceVars>>
      BY <1>1, Zenon DEF CheckBalance
    <2> QED
      BY <2>1, <2>2, <2>3, CallKeeps, Zenon
  <1>2. CASE GetConfirmation(t)
    <2>1. UNCHANGED <<forkVars, airdrops, consensusVars, serviceVars>>
      BY <1>2, Zenon DEF GetConfirmation
    <2>2. PICK x \in {"ok", "failed", "unseen", "landed"} :
              /\ call' = [call EXCEPT ![t] = x]
              /\ x = "ok" => KnownConfirmed(t)
      BY <1>2, Zenon DEF GetConfirmation, Goto
    <2>3. x = "ok" => Landed(t)
      BY <2>2, StatusIsExecution, Zenon DEF KnownConfirmed, Landed, RemoteInv
    <2>4. x \notin Unsigned /\ x # "signed"
      BY <2>2, Zenon DEF Unsigned
    <2> QED
      BY <2>1, <2>2, <2>3, <2>4, CallKeeps, Zenon
  <1>3. CASE \/ Refused(t)
             \/ GetStatus(t)
             \/ CheckBlockhash(t)
             \/ NotFinalized(t)
             \/ RpcError(t)
    <2>1. UNCHANGED <<forkVars, airdrops, consensusVars, serviceVars>>
      BY <1>3, Zenon DEF Refused, GetStatus, CheckBlockhash, NotFinalized, RpcError
    <2>2. PICK x \in {"error", "unseen", "landed", "seenErr", "seen", "failed",
                      "landedSeen", "polling", "expired"} :
              call' = [call EXCEPT ![t] = x]
      BY <1>3, Zenon DEF Refused, GetStatus, CheckBlockhash, NotFinalized, RpcError, Goto
    <2>3. x \notin Unsigned /\ x # "signed" /\ x # "ok"
      BY <2>2, Zenon DEF Unsigned
    <2> QED
      BY <2>1, <2>2, <2>3, CallKeeps, Zenon
  <1> QED
    BY <1>1, <1>2, <1>3, Zenon

(* get_latest_blockhash: the service has not seen the transaction yet. *)
LEMMA SigningKeeps ==
    ASSUME RemoteInv, NEW t \in Txs, GetLatestBlockhash(t)
    PROVE  RemoteInv'
  <1>1. /\ call[t] \in Unsigned /\ call' = [call EXCEPT ![t] = "signed"]
        /\ Sign(t, confirmed)
        /\ UNCHANGED <<airdrops, consensusVars, serviceVars>>
    BY Zenon DEF GetLatestBlockhash, Goto, Unsigned
  <1>2. IInv'
    BY <1>1, SignInv, Zenon DEF RemoteInv
  <1>3. /\ bank' = bank /\ root' = root /\ confirmed' = confirmed
        /\ airdrops' = airdrops /\ UNCHANGED serviceVars
        /\ DOMAIN recent = Txs
        /\ \A u \in Txs : u # t => recent'[u] = recent[u]
    BY <1>1, Zenon DEF Sign, consensusVars, RemoteInv, IInv, TypeInv
  <1>4. Histories'
    BY <1>3, SameGrows, Zenon DEF RemoteInv
  <1>5. /\ DOMAIN call' = Txs /\ call'[t] = "signed"
        /\ \A u \in Txs : u # t => call'[u] = call[u]
    BY <1>1, Zenon DEF RemoteInv, Calls
  <1>6. t \notin Received
    BY <1>1, Zenon DEF RemoteInv, Service
  <1>7. Calls'
    BY <1>3, <1>5, Zenon DEF RemoteInv, Calls, Unsigned
  <1>8. \A u \in Received : u \in Txs /\ u # t
    BY <1>6, Zenon DEF RemoteInv, Service
  <1>9. Service'
    BY <1>3, <1>5, <1>8 DEF RemoteInv, Service, Received, Dated, Registered, Over, ExecutedIn,
                            serviceVars
  <1>10. OkIsConfirmed'
    BY <1>3, <1>5, Zenon DEF RemoteInv, OkIsConfirmed, ExecutedIn
  <1> QED
    BY <1>2, <1>3, <1>4, <1>7, <1>9, <1>10, Zenon DEF RemoteInv

(* The preflight dates a transaction: its last valid block height is       *)
(* MAX_RECENT_BLOCKHASHES blocks after the one its blockhash is of.        *)
LEMMA PreflightDates ==
    ASSUME RemoteInv, NEW t \in Txs, Preflight(t)
    PROVE  /\ Registered(recent[t])
           /\ LastValidBlockHeight(confirmed, recent[t]) =
                  bank[recent[t][1]].ages[recent[t]] + MAX_RECENT_BLOCKHASHES - 1
  <1> DEFINE h == recent[t]
             b == bank[confirmed]
  <1>1. /\ h \in DOMAIN b.ages
        /\ b.last_hash_index - b.ages[h] <= MAX_PROCESSING_AGE - MAX_TRANSACTION_FORWARDING_DELAY
    BY Zenon DEF Preflight, IsHashValidForAge
  <1>2. /\ confirmed \in DOMAIN bank /\ IsBank(b) /\ b.frozen /\ Hashes
        /\ Registered(h)
    BY <1>1, Zenon DEF RemoteInv, IInv, TypeInv, Histories
  <1>3. b.ages[h] = bank[h[1]].ages[h]
    <2>1. h[1] \in b.lineage
      BY <1>1, <1>2, Zenon DEF Hashes
    <2>2. h \in DOMAIN bank[h[1]].ages
      BY <1>2, Zenon DEF Registered
    <2> QED
      BY <1>2, <2>1, <2>2 DEF Hashes
  <1>4. /\ b.block_height \in Nat /\ b.last_hash_index = b.block_height + 1
        /\ b.ages[h] \in Nat
    BY <1>1, <1>2, Zenon DEF IsBank
  <1>5. IsBlockhashValid(confirmed, h)
    <2>1. b.last_hash_index - b.ages[h] <= MAX_RECENT_BLOCKHASHES
      <3> HIDE DEF b, h
      <3> QED
        BY <1>1, <1>4, ForksAssumption, RemoteAssumption
    <2> QED
      BY <1>1, <2>1, Zenon DEF IsBlockhashValid, IsHashValidForAge
  <1>6. LastValidBlockHeight(confirmed, h)
            = b.block_height + MAX_RECENT_BLOCKHASHES - (b.last_hash_index - b.ages[h])
    BY <1>5, Zenon DEF LastValidBlockHeight
  <1>7. LastValidBlockHeight(confirmed, h) = b.ages[h] + MAX_RECENT_BLOCKHASHES - 1
    <2> HIDE DEF b, h
    <2> QED
      BY <1>4, <1>6, ForksAssumption
  <1> QED
    BY <1>2, <1>3, <1>7, Zenon

(* get_blockhash_last_valid_block_height is a number. *)
LEMMA LastValidType ==
    ASSUME RemoteInv, NEW h
    PROVE  LastValidBlockHeight(confirmed, h) \in Int
  <1> DEFINE b == bank[confirmed]
  <1>1. IsBank(b) /\ b.frozen
    BY Zenon DEF RemoteInv, IInv, TypeInv
  <1>2. CASE IsBlockhashValid(confirmed, h)
    <2>1. b.block_height \in Nat /\ b.last_hash_index \in Nat /\ b.ages[h] \in Nat
      BY <1>1, <1>2 DEF IsBank, IsBlockhashValid, IsHashValidForAge
    <2>2. b.block_height + MAX_RECENT_BLOCKHASHES - (b.last_hash_index - b.ages[h]) \in Int
      BY <2>1, ForksAssumption
    <2> QED
      BY <1>2, <2>2, Zenon DEF LastValidBlockHeight
  <1>3. CASE ~IsBlockhashValid(confirmed, h)
    BY <1>3 DEF LastValidBlockHeight
  <1> QED
    BY <1>2, <1>3, Zenon

(* sendTransaction, requestAirdrop *)
LEMMA SendKeeps ==
    ASSUME RemoteInv, NEW t \in Txs, Send(t)
    PROVE  RemoteInv'
  <1>1. /\ call[t] = "signed" /\ call' = [call EXCEPT ![t] = "polling"]
        /\ t \in airdrops \/ Preflight(t)
        /\ batch' = batch \cup {t}
        /\ lastValid' = [lastValid EXCEPT ![t] = LastValidBlockHeight(confirmed, recent[t])]
        /\ UNCHANGED <<forkVars, airdrops, consensusVars, retry, packets, settled>>
    BY Zenon DEF Send, Goto
  <1>2. /\ IInv' /\ Histories'
        /\ bank' = bank /\ root' = root /\ recent' = recent
        /\ airdrops' = airdrops /\ confirmed' = confirmed
        /\ retry' = retry /\ packets' = packets /\ settled' = settled
    BY <1>1, ForksKept, Zenon DEF consensusVars
  <1>3. /\ DOMAIN call' = Txs /\ call'[t] = "polling"
        /\ \A u \in Txs : u # t => call'[u] = call[u]
    BY <1>1, Zenon DEF RemoteInv, Calls
  <1>4. /\ lastValid' \in [Txs -> Int]
        /\ lastValid'[t] = LastValidBlockHeight(confirmed, recent[t])
        /\ \A u \in Txs : u # t => lastValid'[u] = lastValid[u]
    BY <1>1, LastValidType, Zenon DEF RemoteInv, Service
  <1>5. t \notin Received /\ Received' = Received \cup {t} /\ Received \subseteq Txs
    BY <1>1, <1>2, Zenon DEF RemoteInv, Service, Received
  <1>6. t \notin airdrops => Dated(t)'
    BY <1>1, <1>2, <1>4, PreflightDates, Zenon DEF Dated, Registered
  <1>7. \A u \in Received \ airdrops : Dated(u)'
    BY <1>2, <1>4, <1>5, Zenon DEF RemoteInv, Service, Dated, Registered
  <1>8. \A u \in settled : Over(u)'
    BY <1>2, <1>4, <1>5, Zenon DEF RemoteInv, Service, Received, Over, ExecutedIn
  <1>9. \A u \in Received' : call'[u] \notin Unsigned \cup {"signed"}
    BY <1>3, <1>5, Zenon DEF RemoteInv, Service, Unsigned
  <1>10. Service'
    BY <1>2, <1>4, <1>5, <1>6, <1>7, <1>8, <1>9, Zenon DEF RemoteInv, Service
  <1>11. Calls' /\ OkIsConfirmed'
    BY <1>2, <1>3, Zenon DEF RemoteInv, Calls, Unsigned, OkIsConfirmed, ExecutedIn
  <1> QED
    BY <1>2, <1>10, <1>11, Zenon DEF RemoteInv

(* Banks, blocks and roots *)
LEMMA LedgerStepKeeps ==
    ASSUME RemoteInv,
           \/ LedgerStep /\ UNCHANGED remoteVars
           \/ \E s \in forks : VoteOnly(s)
           \/ \E s, r \in forks : VoteAndRoot(s, r)
           \/ UpdateCommitmentCache
    PROVE  RemoteInv'
  <1>1. IInv /\ Histories /\ packets \subseteq Txs
    BY Zenon DEF RemoteInv, Service
  <1>2. CASE LedgerStep /\ UNCHANGED remoteVars
    <2>1. ASSUME NEW p \in forks, NEW s \in Slots, NewBank(p, s)
          PROVE  IInv' /\ Grows /\ Histories' /\ recent' = recent
      BY <1>1, <2>1, NewBankInv, NewBankGrows, Zenon DEF NewBank
    <2>2. ASSUME NEW s \in forks, NEW t \in packets, NEW o \in Outcomes, Execute(s, t, o)
          PROVE  IInv' /\ Grows /\ Histories' /\ recent' = recent
      BY <1>1, <2>2, ExecuteInv, ExecuteGrows, Zenon DEF Execute, IInv, TypeInv
    <2>3. ASSUME NEW s \in forks, Freeze(s)
          PROVE  IInv' /\ Grows /\ Histories' /\ recent' = recent
      BY <1>1, <2>3, FreezeInv, FreezeGrows, Zenon DEF Freeze
    <2>4. IInv' /\ Grows /\ Histories' /\ recent' = recent
      BY <1>2, <2>1, <2>2, <2>3, Zenon DEF LedgerStep
    <2> QED
      BY <1>2, <2>4, LedgerKeeps, Zenon DEF remoteVars, consensusVars
  <1>3. ASSUME NEW s \in forks, NEW r \in forks, VoteAndRoot(s, r)
        PROVE  RemoteInv'
    <2>1. IInv' /\ Grows /\ Histories' /\ recent' = recent
      BY <1>1, <1>3, SetRootInv, SetRootGrows, Zenon DEF VoteAndRoot, SetRoot
    <2> QED
      BY <1>3, <2>1, LedgerKeeps, Zenon DEF VoteAndRoot
  <1>4. CASE UpdateCommitmentCache \/ \E s \in forks : VoteOnly(s)
    BY <1>4, ForksKept, LedgerKeeps, Zenon DEF UpdateCommitmentCache, VoteOnly
  <1> QED
    BY <1>2, <1>3, <1>4, Zenon

(* The inductive invariant of the client on the forks of a validator *)
LEMMA RemoteStep == RemoteInv /\ [Next]_vars => RemoteInv'
  <1> SUFFICES ASSUME RemoteInv, [Next]_vars PROVE RemoteInv'
    BY Zenon
  <1>1. CASE UNCHANGED vars
    BY <1>1, ForksKept, LedgerKeeps, Zenon DEF vars, remoteVars, consensusVars
  <1>2. ASSUME NEW t \in Txs, ClientStep(t) \/ NotFinalized(t) \/ RpcError(t)
        PROVE  RemoteInv'
    BY <1>2, PollingKeeps, SigningKeeps, SendKeeps, Zenon DEF ClientStep
  <1> QED
    BY <1>1, <1>2, LedgerStepKeeps, ConfirmStep, SendBatchKeeps, RetryPassKeeps, LoseKeeps, Zenon
       DEF Next

(* ... which holds for ever. *)
LEMMA RemoteInvariant == Spec => []RemoteInv
  BY RemoteInit, RemoteStep, PTL DEF Spec

(* A call that returns success is about a transaction that the confirmed   *)
(* fork holds (send_and_confirm_transaction), whatever forks the validator *)
(* abandons and whatever packets are lost.                                 *)
THEOREM OkStaysConfirmed == Spec => []OkIsConfirmed
  <1>1. RemoteInv => OkIsConfirmed
    BY Zenon DEF RemoteInv
  <1> QED
    BY <1>1, RemoteInvariant, PTL

(* A bank on the root's fork no longer takes a transaction that is over:   *)
(* its status is found, or its blockhash is too old.                       *)
LEMMA OverIsFinal ==
    ASSUME RemoteInv, NEW t \in settled \ airdrops, NEW s \in forks, ~bank[s].frozen
    PROVE  ~CheckTransaction(s, t)
  <1> SUFFICES ASSUME CheckTransaction(s, t) PROVE FALSE
    BY Zenon
  <1>1. /\ t \in Txs /\ t \in Received /\ Over(t) /\ Dated(t)
        /\ s \in DOMAIN bank /\ root \in DOMAIN bank
        /\ TypeInv /\ Chain /\ Kept /\ Hashes
    BY Zenon DEF RemoteInv, Service, Received, IInv, TypeInv
  <1> DEFINE h == recent[t]
             b == bank[s]
  <1>2. root \in b.lineage /\ root # s
    BY <1>1, Zenon DEF Kept, TypeInv
  <1>3. h \in DOMAIN b.ages /\ b.last_hash_index - b.ages[h] <= MAX_PROCESSING_AGE
    BY Zenon DEF CheckTransaction, IsHashValidForAge
  <1>4. CASE ExecutedIn(root, t) # {}
    <2>1. ExecutedIn(s, t) # {}
      BY <1>1, <1>2, <1>4, ConfirmKeeps, Zenon DEF RemoteInv
    <2>2. Status(s, t) = ExecutedIn(s, t)
      BY <1>1, LookupLemma, Zenon DEF RemoteInv, LookupExact, CheckTransaction
    <2> QED
      BY <2>1, <2>2, Zenon DEF CheckTransaction
  <1>5. CASE lastValid[t] < bank[root].block_height
    <2>1. b.ages[h] = bank[h[1]].ages[h]
      <3>1. h[1] \in b.lineage
        BY <1>1, <1>3, Zenon DEF Hashes
      <3>2. h \in DOMAIN bank[h[1]].ages
        BY <1>1, Zenon DEF Dated, Registered
      <3> QED
        BY <1>1, <3>1, <3>2 DEF Hashes
    <2>2. lastValid[t] = b.ages[h] + MAX_RECENT_BLOCKHASHES - 1
      BY <1>1, <2>1, Zenon DEF Dated
    <2>3. bank[root].block_height < b.block_height
      BY <1>1, <1>2, Zenon DEF Chain
    <2>4. /\ b.block_height \in Nat /\ b.last_hash_index = b.block_height
          /\ b.ages[h] \in Nat /\ bank[root].block_height \in Nat
      BY <1>1, <1>3, Zenon DEF TypeInv, IsBank
    <2> HIDE DEF b, h
    <2> QED
      BY <1>3, <1>5, <2>2, <2>3, <2>4, ForksAssumption, SMTT(30)
  <1> QED
    BY <1>1, <1>4, <1>5, Zenon DEF Over

(* Once the retry thread has dropped a transaction as rooted or expired    *)
(* (process_transactions), no bank that is kept executes it.               *)
THEOREM DroppedStaysSettled == Spec => DroppedIsSettled
  <1> DEFINE Step == \A t \in settled \ airdrops : \A s \in forks \cap DOMAIN bank' :
                         t \in bank'[s].done => t \in bank[s].done
  <1>1. ASSUME RemoteInv, [Next]_vars
        PROVE  [Step]_vars
    <2>1. TypeInv /\ packets \subseteq Txs /\ forks \subseteq DOMAIN bank
      BY <1>1, Zenon DEF RemoteInv, IInv, TypeInv, Service
    <2>2. ASSUME NEW p \in forks, NEW s \in Slots, NewBank(p, s)
          PROVE  Step
      BY <2>1, <2>2, Zenon DEF NewBank
    <2>3. ASSUME NEW s \in forks, NEW u \in packets, NEW o \in Outcomes, Execute(s, u, o)
          PROVE  Step
      <3>1. /\ bank'[s].done = bank[s].done \cup {u}
            /\ ~bank[s].frozen
            /\ \A f \in DOMAIN bank : f # s => bank'[f].done = bank[f].done
        BY <2>1, <2>3, ExecuteEffect, Zenon
      <3>2. u \notin settled \ airdrops
        BY <1>1, <2>3, <3>1, OverIsFinal, Zenon DEF Execute
      <3> QED
        BY <2>1, <3>1, <3>2, Zenon
    <2>4. ASSUME NEW s \in forks, Freeze(s)
          PROVE  Step
      <3>1. PICK v : version[s] = v
        BY Zenon
      <3>2. \A f \in DOMAIN bank : bank'[f].done = bank[f].done
        BY <2>1, <2>4, <3>1, FreezeEffect, Zenon
      <3> QED
        BY <2>1, <3>2, Zenon
    <2>5. CASE bank' = bank
      BY <2>5, Zenon
    <2>6. ASSUME NEW t \in Txs, ClientStep(t) \/ NotFinalized(t) \/ RpcError(t)
          PROVE  bank' = bank
      BY <2>6, Zenon DEF ClientStep, CheckBalance, GetLatestBlockhash, Sign, Send, Refused, GetStatus,
                  GetConfirmation, CheckBlockhash, NotFinalized, RpcError, forkVars
    <2>7. bank' = bank \/ LedgerStep
      <3>1. CASE UNCHANGED vars
        BY <3>1, Zenon DEF vars, forkVars
      <3>2. CASE Next
        BY <3>2, <2>6, Zenon DEF Next, VoteOnly, VoteAndRoot, SetRoot, UpdateCommitmentCache, Confirm,
                          SendBatch, RetryPass, Lose, forkVars
      <3> QED
        BY <1>1, <3>1, <3>2, Zenon
    <2> QED
      BY <2>2, <2>3, <2>4, <2>5, <2>7, Zenon DEF LedgerStep
  <1>2. RemoteInv /\ [Next]_vars => [Step]_vars
    BY <1>1, Zenon
  <1> QED
    BY <1>2, RemoteInvariant, PTL DEF Spec, DroppedIsSettled

-----------------------------------------------------------------------------
(* deploy_program: callers who deploy the same file *)

(* One create_account transaction has landed at most; who writes has sent  *)
(* it, and has seen every chunk before `next' land.  A repeated write is   *)
(* one of a chunk that is there.                                           *)
DeployInv ==
    /\ pc \in [Callers -> {"start", "create", "write", "returned", "panicked"}]
    /\ next \in [Callers -> Nat]
    /\ ~exists => written = {} /\ landed = {} /\ ~executable
    /\ \A t, u \in landed :
          t.instruction = Create /\ u.instruction = Create => t.payer = u.payer
    /\ \A t \in landed : t.instruction \in 0 .. (Chunks - 1) => t.instruction \in written
    /\ written \subseteq 0 .. (Chunks - 1)
    /\ \A c \in Callers : pc[c] = "write" =>
          /\ \E t \in landed : t.instruction = Create /\ t.payer = PayerOf[c]
          /\ next[c] <= Chunks
          /\ 0 .. (next[c] - 1) \subseteq written
    /\ executable => written = 0 .. (Chunks - 1)

(* No account is there at first. *)
LEMMA DeployInvInit == DeployInit => DeployInv
  BY DEF DeployInit, DeployInv

(* A caller that has sent a create_account transaction which landed, now   *)
(* or before, enters the loop.                                             *)
LEMMA WritingStarts ==
    ASSUME NEW c \in Callers, DeployInv, StartWriting(c),
           written' = written, executable' = executable,
           exists', landed \subseteq landed',
           \E t \in landed' : t.instruction = Create /\ t.payer = PayerOf[c],
           \A t \in landed' : t \in landed \/ t.instruction = Create,
           \A t, u \in landed' :
               t.instruction = Create /\ u.instruction = Create => t.payer = u.payer
    PROVE  DeployInv'
  <1>1. /\ next' \in [Callers -> Nat] /\ next'[c] = 0
        /\ \A d \in Callers : d # c => next'[d] = next[d] /\ pc'[d] = pc[d]
        /\ pc' \in [Callers -> {"start", "create", "write", "returned", "panicked"}]
    BY DEF DeployInv, StartWriting, Reach
  <1>2. 0 .. (0 - 1) = {} /\ 0 <= Chunks /\ Create \notin 0 .. (Chunks - 1)
    BY ChunksAssumption DEF Create
  <1>3. \A t \in landed' : t.instruction \in 0 .. (Chunks - 1) => t.instruction \in written'
    BY <1>2, Zenon DEF DeployInv
  <1>4. ASSUME NEW d \in Callers, pc'[d] = "write"
        PROVE  /\ \E t \in landed' : t.instruction = Create /\ t.payer = PayerOf[d]
               /\ next'[d] <= Chunks
               /\ 0 .. (next'[d] - 1) \subseteq written'
    <2>1. CASE d = c
      BY <1>1, <1>2, <2>1, Zenon
    <2>2. CASE d # c
      BY <1>1, <1>4, <2>2, Zenon DEF DeployInv
    <2> QED
      BY <2>1, <2>2, Zenon
  <1> QED
    BY <1>1, <1>3, <1>4, Zenon DEF DeployInv

(* One turn of the write loop, with a chunk that landed now or before *)
LEMMA ChunkWritten ==
    ASSUME NEW c \in Callers, NEW tx, DeployInv, pc[c] = "write", next[c] < Chunks, NextChunk(c),
           exists' = exists, executable' = executable, exists,
           tx.instruction = next[c], landed' = landed \cup {tx},
           written' = written \cup {next[c]},
           executable => written' = written
    PROVE  DeployInv'
  <1>1. /\ next[c] \in Nat /\ next'[c] = next[c] + 1 /\ next' \in [Callers -> Nat]
        /\ \A d \in Callers : d # c => next'[d] = next[d]
        /\ pc' = pc /\ next[c] \in 0 .. (Chunks - 1) /\ next[c] # Create
        /\ next'[c] <= Chunks
    BY ChunksAssumption DEF DeployInv, NextChunk, Create
  <1>2. 0 .. (next'[c] - 1) = 0 .. (next[c] - 1) \cup {next[c]}
    BY <1>1
  <1>3. \A t, u \in landed' :
           t.instruction = Create /\ u.instruction = Create => t.payer = u.payer
    BY <1>1, Zenon DEF DeployInv
  <1>4. ASSUME NEW d \in Callers, pc'[d] = "write"
        PROVE  /\ \E t \in landed' : t.instruction = Create /\ t.payer = PayerOf[d]
               /\ next'[d] <= Chunks
               /\ 0 .. (next'[d] - 1) \subseteq written'
    <2>1. CASE d = c
      BY <1>1, <1>2, <2>1, Zenon DEF DeployInv
    <2>2. CASE d # c
      BY <1>1, <1>4, <2>2, Zenon DEF DeployInv
    <2> QED
      BY <2>1, <2>2, Zenon
  <1> QED
    BY <1>1, <1>3, <1>4, Zenon DEF DeployInv

(* Every step of a caller, its end and its restart *)
LEMMA DeployStep == DeployInv /\ [DeployNext]_deployVars => DeployInv'
  <1> SUFFICES ASSUME DeployInv, [DeployNext]_deployVars PROVE DeployInv'
    BY Zenon
  <1>1. ASSUME NEW c \in Callers,
               GetAccount(c) \/ Stop(c) \/ Restart(c)
        PROVE  DeployInv'
    <2>1. /\ UNCHANGED <<exists, written, executable, landed, next>>
          /\ \E label \in {"start", "create", "returned", "panicked"} :
                pc' = [pc EXCEPT ![c] = label]
      BY <1>1, Zenon DEF GetAccount, Stop, Restart, Reach
    <2>2. /\ pc' \in [Callers -> {"start", "create", "write", "returned", "panicked"}]
          /\ \A d \in Callers : pc'[d] = "write" => pc[d] = "write"
      BY <2>1 DEF DeployInv
    <2> QED
      BY <2>1, <2>2, Zenon DEF DeployInv
  <1>2. ASSUME NEW c \in Callers, NEW tx, Rejected(c, tx)
        PROVE  DeployInv'
    BY <1>2 DEF DeployInv, Rejected, Reach
  <1>3. ASSUME NEW c \in Callers, NEW h \in Blockhashes, CreateAccount(c, h)
        PROVE  DeployInv'
    <2> DEFINE tx == Transaction(c, h, Create)
    <2>1. tx.instruction = Create /\ tx.payer = PayerOf[c]
      BY DEF Transaction
    <2>2. CASE ~exists /\ exists' = TRUE /\ Lands(tx) /\ UNCHANGED <<written, executable>>
               /\ StartWriting(c)
      <3>1. landed' = {tx}
        BY <2>2, Zenon DEF DeployInv, Lands
      <3> HIDE DEF tx
      <3> QED
        BY <2>1, <2>2, <3>1, WritingStarts, Zenon DEF DeployInv
    <2>3. CASE Repeated(tx) /\ StartWriting(c)
      <3>1. landed' = landed /\ tx \in landed /\ exists' /\ UNCHANGED <<written, executable>>
        BY <2>3, Zenon DEF Repeated, DeployInv
      <3> HIDE DEF tx
      <3> QED
        BY <2>1, <2>3, <3>1, WritingStarts, Zenon DEF DeployInv
    <2> QED
      BY <1>2, <1>3, <2>2, <2>3, Zenon DEF CreateAccount
  <1>4. ASSUME NEW c \in Callers, NEW h \in Blockhashes, WriteChunk(c, h)
        PROVE  DeployInv'
    <2> DEFINE tx == Transaction(c, h, next[c])
    <2>1. tx.instruction = next[c] /\ pc[c] = "write" /\ next[c] < Chunks
      BY <1>4 DEF Transaction, WriteChunk
    <2>2. exists /\ next[c] \in 0 .. (Chunks - 1)
      BY <2>1, ChunksAssumption DEF DeployInv
    <2>3. CASE ~executable /\ written' = written \cup {next[c]} /\ Lands(tx)
               /\ UNCHANGED <<exists, executable>> /\ NextChunk(c)
      <3> HIDE DEF tx
      <3> QED
        BY <2>1, <2>2, <2>3, ChunkWritten, Zenon DEF Lands
    <2>4. CASE Repeated(tx) /\ NextChunk(c)
      <3> HIDE DEF tx
      <3>1. /\ UNCHANGED <<exists, executable>> /\ written' = written
            /\ tx \in landed /\ landed' = landed /\ next[c] \in written
        BY <2>1, <2>2, <2>4, Zenon DEF Repeated, DeployInv
      <3>2. landed' = landed \cup {tx} /\ written' = written \cup {next[c]}
        BY <3>1, Zenon
      <3> QED
        BY <2>1, <2>2, <2>4, <3>1, <3>2, ChunkWritten, Zenon
    <2> QED
      BY <1>2, <1>4, <2>3, <2>4, Zenon DEF WriteChunk
  <1>5. ASSUME NEW c \in Callers, NEW h \in Blockhashes, Finalize(c, h)
        PROVE  DeployInv'
    <2> DEFINE tx == Transaction(c, h, Chunks)
    <2>1. tx.instruction = Chunks /\ Chunks # Create /\ Chunks \notin 0 .. (Chunks - 1)
      BY ChunksAssumption DEF Transaction, Create
    <2>2. written = 0 .. (Chunks - 1) /\ exists /\ next' = next
      BY <1>5, Zenon DEF DeployInv, Finalize
    <2>3. /\ pc' = [pc EXCEPT ![c] = "returned"]
          /\ written' = written /\ exists' = exists
          /\ landed' = landed \cup {tx} \/ landed' = landed
      BY <1>5, Zenon DEF Finalize, Reach, Lands, Repeated
    <2> HIDE DEF tx
    <2>4. /\ \A t, u \in landed' :
                t.instruction = Create /\ u.instruction = Create => t.payer = u.payer
          /\ \A t \in landed' : t.instruction \in 0 .. (Chunks - 1) => t.instruction \in written'
      BY <2>1, <2>3, Zenon DEF DeployInv
    <2>5. /\ pc' \in [Callers -> {"start", "create", "write", "returned", "panicked"}]
          /\ \A d \in Callers : pc'[d] = "write" => pc[d] = "write"
      BY <2>3 DEF DeployInv
    <2> QED
      BY <2>2, <2>3, <2>4, <2>5, Zenon DEF DeployInv
  <1>6. CASE UNCHANGED deployVars
    BY <1>6, Zenon DEF deployVars, DeployInv
  <1> QED
    BY <1>1, <1>3, <1>4, <1>5, <1>6, Zenon DEF DeployNext, CallerStep, Sends

(* The inductive invariant of deploy_program *)
LEMMA DeployInvariant == DeploySpec => []DeployInv
  BY DeployInvInit, DeployStep, PTL DEF DeploySpec

(* An executable account holds the whole file, for any number of callers   *)
(* and chunks, whoever stops and starts again (finalize).                  *)
THEOREM ExecutableIsComplete == DeploySpec => []ExecutableComplete
  <1>1. DeployInv => ExecutableComplete
    BY Zenon DEF DeployInv, ExecutableComplete
  <1> QED
    BY <1>1, DeployInvariant, PTL

(* Callers that write at the same time have the same payer, for any number *)
(* of callers, payers and blockhashes: only the create_account transaction *)
(* that landed lets a caller in.                                           *)
THEOREM WritersSharePayer == DeploySpec => []OnePayerWrites
  <1>1. DeployInv => OnePayerWrites
    BY Zenon DEF DeployInv, OnePayerWrites
  <1> QED
    BY <1>1, DeployInvariant, PTL

-----------------------------------------------------------------------------
(* LocalEnvironment: a bank of its own *)

(* The bank has reached the block boundary when it has a blockhash after   *)
(* genesis, and will not meet it again; so every transaction is built on   *)
(* that blockhash.  A body was executed once if its transaction is in the  *)
(* status cache, and otherwise not at all.                                 *)
LocalInv ==
    /\ tick_height \in Nat
    /\ last_blockhash \in {0, 1}
    /\ last_blockhash = 1 => tick_height >= MaxTickHeight
    /\ running \in {"build", "advance", "none"}
    /\ before = IF running = "advance" THEN 1 ELSE 0
    /\ running # "build" => last_blockhash = 1
    /\ built \subseteq [blockhash : {1}, body : Bodies]
    /\ DOMAIN status_cache \subseteq built
    /\ executions \in [Bodies -> Nat]
    /\ \A b \in Bodies : executions[b] =
          IF [blockhash |-> 1, body |-> b] \in DOMAIN status_cache THEN 1 ELSE 0

(* The bank before its first tick *)
LEMMA LocalInvInit == LocalInit => LocalInv
  BY DEF LocalInit, LocalInv

(* Every call, tick and execution *)
LEMMA LocalStep == LocalInv /\ [LocalNext]_localVars => LocalInv'
  <1> SUFFICES ASSUME LocalInv, [LocalNext]_localVars PROVE LocalInv'
    BY Zenon
  <1> USE TicksAssumption
  <1>1. CASE register_tick
    <2>1. /\ running # "none" /\ last_blockhash = before
          /\ last_blockhash' = IF NextTick(tick_height) = MaxTickHeight
                               THEN last_blockhash + 1 ELSE last_blockhash
          /\ tick_height' = NextTick(tick_height)
          /\ UNCHANGED <<running, before, built, status_cache, executions>>
      BY <1>1, Zenon DEF register_tick, is_block_boundary
    <2>2. MaxTickHeight \in Nat
      BY DEF MaxTickHeight
    <2>3. /\ NextTick(tick_height) \in Nat
          /\ tick_height >= MaxTickHeight => NextTick(tick_height) > MaxTickHeight
      BY <2>2 DEF NextTick, LocalInv
    <2>4. CASE last_blockhash = 1
      <3>1. NextTick(tick_height) # MaxTickHeight /\ NextTick(tick_height) >= MaxTickHeight
        BY <2>2, <2>3, <2>4 DEF LocalInv
      <3> QED
        BY <2>1, <2>3, <2>4, <3>1, Zenon DEF LocalInv
    <2>5. CASE last_blockhash = 0
      <3>1. running = "build"
        BY <2>1, <2>5 DEF LocalInv
      <3>2. \/ last_blockhash' = 1 /\ tick_height' = MaxTickHeight
            \/ last_blockhash' = 0
        BY <2>1, <2>5
      <3>3. last_blockhash' \in {0, 1} /\ (last_blockhash' = 1 => tick_height' >= MaxTickHeight)
        BY <2>2, <3>2
      <3> QED
        BY <2>1, <2>3, <3>1, <3>3, Zenon DEF LocalInv
    <2> QED
      BY <2>4, <2>5, Zenon DEF LocalInv
  <1>2. CASE Return
    BY <1>2 DEF Return, LocalInv
  <1>3. CASE advance_blockhash
    BY <1>3 DEF advance_blockhash, LocalInv
  <1>4. ASSUME NEW b \in Bodies, tx_with_instructions(b)
        PROVE  LocalInv'
    <2>1. /\ built' = built \cup {[blockhash |-> last_blockhash, body |-> b]}
          /\ last_blockhash = 1
          /\ UNCHANGED <<tick_height, last_blockhash, running, before, status_cache, executions>>
      BY <1>4 DEF tx_with_instructions, LocalInv
    <2>2. built' \subseteq [blockhash : {1}, body : Bodies]
      BY <2>1 DEF LocalInv
    <2> QED
      BY <2>1, <2>2, Zenon DEF LocalInv
  <1>5. ASSUME NEW tx \in built, NEW r \in Outcome, execute_transaction(tx, r)
        PROVE  LocalInv'
    <2>1. /\ tx \notin DOMAIN status_cache
          /\ DOMAIN status_cache' = DOMAIN status_cache \cup {tx}
          /\ executions' = [executions EXCEPT ![tx.body] = @ + 1]
          /\ UNCHANGED <<tick_height, last_blockhash, running, before, built>>
      BY <1>5, Zenon DEF execute_transaction, already_processed, Executed
    <2>2. tx.body \in Bodies /\ tx = [blockhash |-> 1, body |-> tx.body]
      BY DEF LocalInv
    <2>3. executions' \in [Bodies -> Nat]
      BY <2>1, <2>2 DEF LocalInv
    <2>4. ASSUME NEW b \in Bodies
          PROVE  executions'[b] =
                   IF [blockhash |-> 1, body |-> b] \in DOMAIN status_cache' THEN 1 ELSE 0
      <3>1. CASE b = tx.body
        <4>1. executions[b] = 0 /\ executions'[b] = executions[b] + 1
          BY <2>1, <2>2, <3>1 DEF LocalInv
        <4>2. [blockhash |-> 1, body |-> b] \in DOMAIN status_cache'
          BY <2>1, <2>2, <3>1, Zenon
        <4> QED
          BY <4>1, <4>2
      <3>2. CASE b # tx.body
        <4>1. executions'[b] = executions[b] /\ [blockhash |-> 1, body |-> b] # tx
          BY <2>1, <2>2, <3>2 DEF LocalInv
        <4> QED
          BY <2>1, <4>1, Zenon DEF LocalInv
      <3> QED
        BY <3>1, <3>2, Zenon
    <2> QED
      BY <2>1, <2>3, <2>4, Zenon DEF LocalInv
  <1>6. CASE UNCHANGED localVars
    BY <1>6, Zenon DEF LocalInv, localVars
  <1> QED
    BY <1>1, <1>2, <1>3, <1>4, <1>5, <1>6, Zenon DEF LocalNext, execute_not_loaded, execute_refused

(* The same instructions and signers are executed at most once in the life *)
(* of a LocalEnvironment, for any number of ticks per slot                 *)
(* (register_tick, check_status_cache).                                    *)
THEOREM AtMostOneExecution == LocalSpec => []OneExecution
  <1>1. LocalInv => OneExecution
    <2>1. LocalInv => \A b \in Bodies : executions[b] = 1 \/ executions[b] = 0
      BY Zenon DEF LocalInv
    <2> QED
      BY <2>1 DEF OneExecution
  <1> QED
    BY <1>1, LocalInvInit, LocalStep, PTL DEF LocalSpec

=============================================================================
