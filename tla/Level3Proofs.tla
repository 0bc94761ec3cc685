---------------------------- MODULE Level3Proofs ----------------------------
(***************************************************************************)
(* Solvency of the tip program for any number of users, vaults and pools,  *)
(* any u64 width, fee and transaction length.                              *)
(*                                                                         *)
(* What the pools of a vault are owed is the size of the set Claims, which *)
(* has one element for each lamport.  A tip of n adds n elements, a        *)
(* withdrawal of n removes n, and the arithmetic is that of cardinalities. *)
(***************************************************************************)
EXTENDS Level3, BankProofs, FiniteSetTheorems

Ledger == [Key -> AccountWith(Data)]

-----------------------------------------------------------------------------
(* Claims *)

(* The elements of Claims are pairs of an account and a number. *)
LEMMA ClaimsMember ==
    ASSUME NEW l, NEW v
    PROVE  /\ \A p, i : <<p, i>> \in Claims(l, v) <=>
                  p \in Holders /\ PoolOf(l[p], v) /\ i \in 1..l[p].data.value
           /\ \A c \in Claims(l, v) : c = <<c[1], c[2]>>
<1>1. \A c : c \in Claims(l, v) <=>
          \E p \in Holders : PoolOf(l[p], v) /\ c \in {p} \X (1..l[p].data.value)
  BY Zenon DEF Claims
<1> QED BY <1>1

(* Data that is neither fresh nor changed makes no claim that was not made *)
(* before.                                                                 *)
LEMMA ClaimsFrame ==
    ASSUME NEW l, NEW m, NEW v,
           \A p \in Holders : PoolOf(m[p], v) => m[p].data = l[p].data
    PROVE  Claims(m, v) \subseteq Claims(l, v)
<1>1. ASSUME NEW p, NEW i, <<p, i>> \in Claims(m, v)
      PROVE  <<p, i>> \in Claims(l, v)
  <2>1. p \in Holders /\ PoolOf(m[p], v) /\ i \in 1..m[p].data.value
    BY <1>1, ClaimsMember, Zenon
  <2>2. PoolOf(l[p], v) /\ i \in 1..l[p].data.value
    BY <2>1, Zenon DEF PoolOf
  <2> QED BY <2>1, <2>2, ClaimsMember, Zenon
<1>2. \A c \in Claims(m, v) : c \in Claims(l, v)
  BY <1>1, ClaimsMember
<1> QED BY <1>2, Zenon

(* The data of a pool or of a vault. *)
LEMMA PoolData ==
    ASSUME NEW d \in Data, d # Zeroed
    PROVE  d \in [kind : {"vault", "pool"}, withdraw_authority : Users,
                  value : U64, vault : Key]
BY Zenon DEF Data

(* The program's addresses are finitely many, and no user has one. *)
LEMMA HoldersFinite ==
    /\ IsFiniteSet(Holders)
    /\ Holders \subseteq Key /\ Users \subseteq Key
    /\ Key = Users \cup Holders /\ Users \cap Holders = {}
<1>1. /\ Holders \subseteq Key /\ Users \subseteq Key
      /\ Key = Users \cup Holders /\ Users \cap Holders = {}
  BY Level3Assumption DEF Holders
<1> QED BY <1>1, CapitalizationAssumption, FS_Subset, Zenon

(* The lamports that the pools of a vault are owed are a finite set, so    *)
(* that they can be counted.                                               *)
LEMMA ClaimsFinite ==
    ASSUME NEW l \in Ledger, NEW v
    PROVE  /\ IsFiniteSet(Claims(l, v))
           /\ Cardinality(Claims(l, v)) \in Nat
<1>1. IsFiniteSet(Holders \X (1..U64Max))
  <2>1. IsFiniteSet(1..U64Max)
    BY RentAssumption, FS_Interval
  <2> QED BY <2>1, HoldersFinite, FS_Product, Zenon
<1>2. ASSUME NEW p \in Holders, PoolOf(l[p], v)
      PROVE  1..l[p].data.value \subseteq 1..U64Max
  <2>1. l[p].data \in Data
    BY HoldersFinite, Zenon DEF Ledger, AccountWith
  <2>2. l[p].data.value \in U64
    BY <1>2, <2>1, PoolData, Zenon DEF PoolOf
  <2> QED BY <2>2, RentAssumption DEF U64
<1>3. Claims(l, v) \subseteq Holders \X (1..U64Max)
  BY <1>2, ClaimsMember
<1>4. IsFiniteSet(Claims(l, v))
  BY <1>1, <1>3, FS_Subset, Zenon
<1> QED BY <1>4, FS_CardinalityType, Zenon

(* Fewer claims are fewer lamports. *)
LEMMA ClaimsFewer ==
    ASSUME NEW l \in Ledger, NEW m \in Ledger, NEW v,
           Claims(m, v) \subseteq Claims(l, v)
    PROVE  Cardinality(Claims(m, v)) <= Cardinality(Claims(l, v))
BY ClaimsFinite, FS_Subset, Zenon

(* Raising the value of one pool of v by n adds n claims on v and none on  *)
(* another vault.                                                          *)
LEMMA ClaimsGrow ==
    ASSUME NEW l \in Ledger, NEW m \in Ledger, NEW p \in Holders, NEW v \in Key,
           NEW n \in Nat, PoolOf(l[p], v), PoolOf(m[p], v),
           m[p].data.value = l[p].data.value + n,
           \A q \in Holders \ {p} : m[q].data = l[q].data
    PROVE  /\ Cardinality(Claims(m, v)) = Cardinality(Claims(l, v)) + n
           /\ \A w : w # v => Claims(m, w) = Claims(l, w)
<1> DEFINE x   == l[p].data.value
           new == {p} \X ((x + 1)..(x + n))
<1>1. x \in Nat
  <2>1. l[p].data \in Data
    BY HoldersFinite, Zenon DEF Ledger, AccountWith
  <2> QED BY <2>1, PoolData, RentAssumption DEF PoolOf, U64
<1> HIDE DEF x
<1>2. IsFiniteSet(new) /\ Cardinality(new) = n
  <2>1. /\ IsFiniteSet((x + 1)..(x + n))
        /\ Cardinality((x + 1)..(x + n)) = n
    <3>1. x + 1 \in Int /\ x + n \in Int
      BY <1>1
    <3>2. /\ IsFiniteSet((x + 1)..(x + n))
          /\ Cardinality((x + 1)..(x + n)) =
                IF x + 1 > x + n THEN 0 ELSE (x + n) - (x + 1) + 1
      BY <3>1, FS_Interval, Zenon
    <3> QED BY <1>1, <3>2
  <2>2. /\ IsFiniteSet(new)
        /\ Cardinality(new) = Cardinality({p}) * Cardinality((x + 1)..(x + n))
    BY <2>1, FS_Singleton, FS_Product, Zenon
  <2>3. Cardinality({p}) = 1
    BY FS_Singleton, Zenon
  <2> QED BY <2>1, <2>2, <2>3
<1>3. \A q, i : <<q, i>> \in new <=> q = p /\ i \in (x + 1)..(x + n)
  BY Zenon
<1>4. \A c \in new : c = <<c[1], c[2]>>
  OBVIOUS
<1> HIDE DEF new
<1>5. \A q, i : <<q, i>> \in Claims(m, v) <=>
                    <<q, i>> \in Claims(l, v) \/ <<q, i>> \in new
  <2> SUFFICES ASSUME NEW q, NEW i
               PROVE  <<q, i>> \in Claims(m, v) <=>
                          <<q, i>> \in Claims(l, v) \/ <<q, i>> \in new
    BY Zenon
  <2>1. CASE q = p
    <3>1. <<p, i>> \in Claims(m, v) <=> i \in 1..(x + n)
      BY ClaimsMember, Zenon DEF x
    <3>2. <<p, i>> \in Claims(l, v) <=> i \in 1..x
      BY ClaimsMember, Zenon DEF x
    <3>3. i \in 1..(x + n) <=> i \in 1..x \/ i \in (x + 1)..(x + n)
      BY <1>1
    <3> QED BY <1>3, <2>1, <3>1, <3>2, <3>3, Zenon
  <2>2. CASE q # p
    BY <1>3, <2>2, ClaimsMember DEF PoolOf
  <2> QED BY <2>1, <2>2, Zenon
<1>6. Claims(m, v) = Claims(l, v) \cup new
  <2>1. \A c \in Claims(m, v) : c \in Claims(l, v) \cup new
    BY <1>5, ClaimsMember
  <2>2. \A c \in Claims(l, v) \cup new : c \in Claims(m, v)
    BY <1>4, <1>5, ClaimsMember
  <2> QED BY <2>1, <2>2, Zenon
<1>7. Claims(l, v) \cap new = {}
  <2> SUFFICES ASSUME NEW c, c \in Claims(l, v), c \in new PROVE FALSE
    BY Zenon
  <2>1. c[1] = p /\ c[2] \in (x + 1)..(x + n)
    BY <1>3, <1>4
  <2>2. c[2] \in 1..x
    BY <2>1, ClaimsMember DEF x
  <2> QED BY <1>1, <2>1, <2>2
<1>8. Cardinality(Claims(m, v)) = Cardinality(Claims(l, v)) + n
  <2>1. Cardinality(Claims(l, v) \cup new) =
            Cardinality(Claims(l, v)) + Cardinality(new) - Cardinality({})
    BY <1>2, <1>7, ClaimsFinite, FS_Union
  <2> QED BY <1>2, <1>6, <2>1, FS_EmptySet, ClaimsFinite
<1>9. ASSUME NEW w, w # v
      PROVE  Claims(m, w) = Claims(l, w)
  <2>1. ASSUME NEW q, NEW i
        PROVE  <<q, i>> \in Claims(m, w) <=> <<q, i>> \in Claims(l, w)
    <3>1. <<q, i>> \in Claims(m, w) <=>
              q \in Holders /\ PoolOf(m[q], w) /\ i \in 1..m[q].data.value
      BY ClaimsMember, Zenon
    <3>2. <<q, i>> \in Claims(l, w) <=>
              q \in Holders /\ PoolOf(l[q], w) /\ i \in 1..l[q].data.value
      BY ClaimsMember, Zenon
    <3>3. ~PoolOf(m[p], w) /\ ~PoolOf(l[p], w)
      BY <1>9, Zenon DEF PoolOf
    <3> QED BY <3>1, <3>2, <3>3, Zenon DEF PoolOf
  <2>2. \A c \in Claims(m, w) : c \in Claims(l, w)
    BY <2>1, ClaimsMember
  <2>3. \A c \in Claims(l, w) : c \in Claims(m, w)
    BY <2>1, ClaimsMember
  <2> QED BY <2>2, <2>3, Zenon
<1> QED BY <1>8, <1>9, Zenon

-----------------------------------------------------------------------------
(* The inductive invariant.  It holds of the stored accounts and of the    *)
(* loaded copy.  An account of the program that is nobody's fee recipient  *)
(* is never without lamports, so it survives the purge; a pool names an    *)
(* account of the program, so an address has no claims before it has one,  *)
(* again unless it is a fee recipient.                                     *)

Plain(acc) == acc.owner = System /\ acc.space = 0 /\ acc.data = Zeroed

UsersPlain(l) == \A u \in Users : Plain(l[u])

HoldersShaped(l) == \A k \in Holders : Plain(l[k]) \/ OwnedByProgram(l, k)

NamesOwned(l) ==
    \A p \in Holders, v \in Key \ FeeRecipients :
        PoolOf(l[p], v) => OwnedByProgram(l, v)

LedgerInv(l) ==
    /\ UsersPlain(l)
    /\ HoldersShaped(l)
    /\ NamesOwned(l)
    /\ SolventIn(l)

AllTermsKept(l, m) == \A p \in Holders : TermsKept(l, m, p)

IInv ==
    /\ BankInv(Data)
    /\ LedgerInv(accounts)
    /\ LedgerInv(work)
    /\ AllTermsKept(accounts, work)

(* A stored account keeps its terms, or is purged and was a fee recipient. *)
TermsOrPurged(l, m) ==
    \A p \in Holders : \/ TermsKept(l, m, p)
                       \/ p \in FeeRecipients /\ m[p] = DefaultAccount

(* An account of the program that is nobody's fee recipient has lamports. *)
LEMMA HolderFunded ==
    ASSUME NEW l \in Ledger, LedgerInv(l), NEW k \in Holders \ FeeRecipients,
           OwnedByProgram(l, k)
    PROVE  l[k].lamports # 0
<1>1. k \in Key /\ k \in Holders
  BY HoldersFinite, Zenon
<1>2. Cardinality(Claims(l, k)) + MinimumBalance(l[k].space) <= l[k].lamports
  BY Zenon DEF LedgerInv, SolventIn
<1>3. l[k].space \in Nat /\ l[k].lamports \in Nat
  BY <1>1, FieldTypes, Zenon DEF Ledger
<1>4. /\ Cardinality(Claims(l, k)) \in Nat
      /\ MinimumBalance(l[k].space) \in Nat /\ MinimumBalance(l[k].space) > 0
  BY <1>3, ClaimsFinite, MinimumBalanceType, Zenon
<1> QED BY <1>2, <1>3, <1>4

(* Changing balances, those of accounts that are nobody's fee recipient    *)
(* only upwards, and purging fee recipients.                               *)
LEMMA BalancesFrame ==
    ASSUME NEW l \in Ledger, NEW m \in Ledger, LedgerInv(l),
           \A k \in Key : \/ /\ m[k].owner = l[k].owner
                             /\ m[k].space = l[k].space
                             /\ m[k].data = l[k].data
                          \/ k \in FeeRecipients /\ m[k] = DefaultAccount,
           \A k \in Holders : m[k].lamports >= l[k].lamports \/ k \in FeeRecipients
    PROVE  LedgerInv(m)
<1>1. /\ Users \subseteq Key /\ Holders \subseteq Key
      /\ Key = Users \cup Holders /\ Users \cap Holders = {}
  BY HoldersFinite, Zenon
<1>2. Plain(DefaultAccount) /\ DefaultAccount.data = Zeroed
  BY DEF Plain, DefaultAccount
<1>3. UsersPlain(m)
  BY <1>1, <1>2, Zenon DEF LedgerInv, UsersPlain, Plain
<1>4. HoldersShaped(m)
  BY <1>1, <1>2, Zenon DEF LedgerInv, HoldersShaped, Plain, OwnedByProgram
<1>5. \A v : \A p \in Holders : PoolOf(m[p], v) => m[p].data = l[p].data
  BY <1>1, <1>2, Zenon DEF PoolOf
<1>6. NamesOwned(m)
  <2> SUFFICES ASSUME NEW p \in Holders, NEW v \in Key \ FeeRecipients, PoolOf(m[p], v)
               PROVE  OwnedByProgram(m, v)
    BY Zenon DEF NamesOwned
  <2>1. PoolOf(l[p], v)
    BY <1>5, Zenon DEF PoolOf
  <2> QED BY <2>1, Zenon DEF LedgerInv, NamesOwned, OwnedByProgram
<1>7. SolventIn(m)
  <2> SUFFICES ASSUME NEW v \in Holders \ FeeRecipients, OwnedByProgram(m, v)
               PROVE  Cardinality(Claims(m, v)) + MinimumBalance(m[v].space)
                          <= m[v].lamports
    BY Zenon DEF SolventIn
  <2>1. v \in Key /\ v \in Holders /\ v \notin FeeRecipients
    BY <1>1, Zenon
  <2>2. /\ OwnedByProgram(l, v) /\ m[v].space = l[v].space
        /\ m[v].lamports >= l[v].lamports
    BY <2>1, Zenon DEF OwnedByProgram
  <2>3. Claims(m, v) \subseteq Claims(l, v)
    BY <1>5, ClaimsFrame, Zenon
  <2>4. Cardinality(Claims(m, v)) <= Cardinality(Claims(l, v))
    BY <2>3, ClaimsFewer, Zenon
  <2>5. Cardinality(Claims(l, v)) + MinimumBalance(l[v].space) <= l[v].lamports
    BY <2>2, Zenon DEF LedgerInv, SolventIn
  <2>6. /\ l[v].lamports \in Nat /\ m[v].lamports \in Nat /\ l[v].space \in Nat
    BY <2>1, FieldTypes, Zenon DEF Ledger
  <2>7. /\ Cardinality(Claims(l, v)) \in Nat /\ Cardinality(Claims(m, v)) \in Nat
        /\ MinimumBalance(l[v].space) \in Nat
    BY <2>6, ClaimsFinite, MinimumBalanceType, Zenon
  <2> QED BY <2>2, <2>4, <2>5, <2>6, <2>7
<1> QED BY <1>3, <1>4, <1>6, <1>7, Zenon DEF LedgerInv

(* The purge touches no account of the program but a fee recipient. *)
LEMMA PurgeKeeps ==
    ASSUME NEW l \in Ledger, LedgerInv(l)
    PROVE  LedgerInv(Purged(l)) /\ TermsOrPurged(l, Purged(l))
<1> DEFINE m == Purged(l)
<1>1. /\ Users \subseteq Key /\ Holders \subseteq Key
      /\ Key = Users \cup Holders /\ Users \cap Holders = {}
  BY HoldersFinite, Zenon
<1>2. /\ m \in Ledger
      /\ \A k \in Key : m[k] = IF l[k].lamports = 0 THEN DefaultAccount ELSE l[k]
  BY PurgedFields, Zenon DEF Ledger, Data
<1> HIDE DEF m
<1>3. \A k \in Key : l[k].lamports = 0 => Plain(l[k]) \/ k \in FeeRecipients
  BY <1>1, HolderFunded, Zenon DEF LedgerInv, UsersPlain, HoldersShaped
<1>4. ASSUME NEW k \in Key
      PROVE  \/ /\ m[k].owner = l[k].owner
                /\ m[k].space = l[k].space
                /\ m[k].data = l[k].data
                /\ m[k].lamports = l[k].lamports
             \/ k \in FeeRecipients /\ m[k] = DefaultAccount
  <2>1. CASE l[k].lamports = 0 /\ Plain(l[k])
    <3>1. m[k] = DefaultAccount
      BY <1>2, <2>1, Zenon
    <3> QED BY <2>1, <3>1 DEF DefaultAccount, Plain
  <2>2. CASE l[k].lamports = 0 /\ k \in FeeRecipients
    BY <1>2, <2>2, Zenon
  <2>3. CASE l[k].lamports # 0
    BY <1>2, <2>3, Zenon
  <2> QED BY <1>3, <2>1, <2>2, <2>3, Zenon
<1>5. \A k \in Holders : m[k].lamports >= l[k].lamports \/ k \in FeeRecipients
  <2>1. \A k \in Key : l[k].lamports \in Nat
    BY FieldTypes, Zenon DEF Ledger
  <2>2. \A x \in Nat : x >= x
    OBVIOUS
  <2> QED BY <1>1, <1>4, <2>1, <2>2, Zenon
<1>6. LedgerInv(m)
  BY <1>2, <1>4, <1>5, BalancesFrame, Zenon
<1>7. TermsOrPurged(l, m)
  BY <1>1, <1>4, Zenon DEF TermsOrPurged, TermsKept
<1> QED BY <1>6, <1>7, Zenon DEF m

-----------------------------------------------------------------------------
(* One lemma per instruction. *)

(* Fresh, vault and tip-pool data are account data. *)
LEMMA DataMembers ==
    /\ Zeroed \in Data
    /\ \A u \in Users, x \in U64, v \in Key : Vault(u, x, v) \in Data
    /\ \A u \in Users, x \in U64, v \in Key : TipPool(u, x, v) \in Data
BY Zenon DEF Data, Vault, TipPool

(* Written data is not zeroed. *)
LEMMA DataWritten ==
    ASSUME NEW u, NEW x, NEW v
    PROVE  /\ Vault(u, x, v) # Zeroed /\ Vault(u, x, v).vault = v
           /\ TipPool(u, x, v) # Zeroed /\ TipPool(u, x, v).vault = v
           /\ TipPool(u, x, v).value = x
<1>1. /\ Vault(u, x, v).kind = "vault" /\ TipPool(u, x, v).kind = "pool"
      /\ Zeroed.kind = "zeroed"
      /\ Vault(u, x, v).vault = v /\ TipPool(u, x, v).vault = v
      /\ TipPool(u, x, v).value = x
  BY DEF Vault, TipPool, Zeroed
<1>2. "vault" # "zeroed" /\ "pool" # "zeroed"
  OBVIOUS
<1> QED BY <1>1, <1>2, Zenon

(* A transfer by a user (system program) keeps the ledger invariant: it    *)
(* can only add to a vault.                                                *)
LEMMA SystemTransferKeeps ==
    ASSUME NEW l \in Ledger, LedgerInv(l), NEW u \in Users, NEW k \in Key,
           NEW n \in U64, TransferOk(l, u, k, n)
    PROVE  /\ Transferred(l, u, k, n) \in Ledger
           /\ LedgerInv(Transferred(l, u, k, n))
           /\ AllTermsKept(l, Transferred(l, u, k, n))
<1> DEFINE m == Transferred(l, u, k, n)
<1>1. u \in Key /\ u \notin Holders /\ Holders \subseteq Key
  BY HoldersFinite, Zenon
<1>2. /\ m \in [Key -> AccountWith(Data)]
      /\ \A j \in Key : /\ m[j].owner = l[j].owner
                        /\ m[j].space = l[j].space
                        /\ m[j].data = l[j].data
      /\ \A j \in Key \ {u, k} : m[j] = l[j]
      /\ u # k => m[k].lamports = l[k].lamports + n
  BY <1>1, TransferredFields DEF Ledger
<1> HIDE DEF m
<1>3. \A j \in Holders : m[j].lamports >= l[j].lamports
  <2> SUFFICES ASSUME NEW j \in Holders
               PROVE  m[j].lamports >= l[j].lamports
    BY Zenon
  <2>1. j \in Key /\ j # u /\ l[j].lamports \in Nat /\ n \in Nat
    BY <1>1, FieldTypes, RentAssumption DEF Ledger, U64
  <2>2. CASE j = k
    BY <1>2, <2>1, <2>2
  <2>3. CASE j # k
    BY <1>2, <2>1, <2>3
  <2> QED BY <2>2, <2>3, Zenon
<1>4. LedgerInv(m)
  BY <1>2, <1>3, BalancesFrame, Zenon DEF Ledger
<1>5. AllTermsKept(l, m)
  BY <1>1, <1>2, Zenon DEF AllTermsKept, TermsKept
<1> QED BY <1>2, <1>4, <1>5, Zenon DEF Ledger, m

(* Making an account of the program, or writing the data of a fresh one,   *)
(* keeps the ledger invariant when nothing that was nobody's fee recipient *)
(* is claimed by what is written.                                          *)
LEMMA FreshKeeps ==
    ASSUME NEW l \in Ledger, NEW m \in Ledger, LedgerInv(l), NEW k \in Holders,
           l[k].data = Zeroed, OwnedByProgram(m, k),
           UsersPlain(m),
           \A j \in Holders \ {k} : m[j] = l[j],
           ~OwnedByProgram(l, k) => MinimumBalance(m[k].space) <= m[k].lamports,
           OwnedByProgram(l, k) => /\ m[k].lamports = l[k].lamports
                                   /\ m[k].space = l[k].space,
           \A v \in Key \ FeeRecipients : PoolOf(m[k], v) =>
               OwnedByProgram(m, v) /\ m[k].data.value = 0
    PROVE  LedgerInv(m) /\ AllTermsKept(l, m)
<1>1. Holders \subseteq Key /\ Key = Users \cup Holders
  BY HoldersFinite, Zenon
<1>2. HoldersShaped(m)
  BY Zenon DEF LedgerInv, HoldersShaped, OwnedByProgram
<1>3. NamesOwned(m)
  <2> SUFFICES ASSUME NEW p \in Holders, NEW v \in Key \ FeeRecipients, PoolOf(m[p], v)
               PROVE  OwnedByProgram(m, v)
    BY Zenon DEF NamesOwned
  <2>1. CASE p = k
    BY <2>1, Zenon
  <2>2. CASE p # k
    <3>1. PoolOf(l[p], v)
      BY <2>2, Zenon
    <3>2. OwnedByProgram(l, v)
      BY <3>1, Zenon DEF LedgerInv, NamesOwned
    <3>3. v \in Holders
      BY <1>1, <3>2, ProgramsDiffer, Zenon DEF LedgerInv, UsersPlain, Plain, OwnedByProgram
    <3> QED BY <3>2, <3>3, Zenon DEF OwnedByProgram
  <2> QED BY <2>1, <2>2, Zenon
<1>4. ASSUME NEW v \in Key \ FeeRecipients
      PROVE  Claims(m, v) \subseteq Claims(l, v)
  <2>1. ASSUME NEW p, NEW i, <<p, i>> \in Claims(m, v)
        PROVE  <<p, i>> \in Claims(l, v)
    <3>1. p \in Holders /\ PoolOf(m[p], v) /\ i \in 1..m[p].data.value
      BY <2>1, ClaimsMember, Zenon
    <3>2. CASE p = k
      <4>1. m[k].data.value = 0
        BY <3>1, <3>2, Zenon
      <4>2. i \in 1..0
        BY <3>1, <3>2, <4>1, Zenon
      <4> QED BY <4>2
    <3>3. CASE p # k
      <4>1. m[p] = l[p]
        BY <3>1, <3>3, Zenon
      <4> QED BY <3>1, <4>1, ClaimsMember, Zenon
    <3> QED BY <3>2, <3>3, Zenon
  <2>2. \A c \in Claims(m, v) : c \in Claims(l, v)
    BY <2>1, ClaimsMember
  <2> QED BY <2>2, Zenon
<1>5. SolventIn(m)
  <2> SUFFICES ASSUME NEW v \in Holders \ FeeRecipients, OwnedByProgram(m, v)
               PROVE  Cardinality(Claims(m, v)) + MinimumBalance(m[v].space)
                          <= m[v].lamports
    BY Zenon DEF SolventIn
  <2>1. v \in Key \ FeeRecipients /\ v \in Holders
    BY <1>1, Zenon
  <2>2. Cardinality(Claims(m, v)) <= Cardinality(Claims(l, v))
    BY <1>4, <2>1, ClaimsFewer, Zenon
  <2>3. /\ m[v].lamports \in Nat /\ m[v].space \in Nat
    BY <2>1, FieldTypes, Zenon DEF Ledger
  <2>4. /\ Cardinality(Claims(l, v)) \in Nat /\ Cardinality(Claims(m, v)) \in Nat
        /\ MinimumBalance(m[v].space) \in Nat
    BY <2>3, ClaimsFinite, MinimumBalanceType, Zenon
  <2>5. CASE OwnedByProgram(l, v)
    <3>1. Cardinality(Claims(l, v)) + MinimumBalance(l[v].space) <= l[v].lamports
      BY <2>1, <2>5, Zenon DEF LedgerInv, SolventIn
    <3>2. m[v].lamports = l[v].lamports /\ m[v].space = l[v].space
      BY <2>1, <2>5, Zenon
    <3> QED BY <2>2, <2>3, <2>4, <3>1, <3>2
  <2>6. CASE ~OwnedByProgram(l, v)
    <3>1. v = k
      BY <2>1, <2>6, Zenon DEF OwnedByProgram
    <3>2. \A p \in Holders : ~PoolOf(l[p], v)
      BY <2>1, <2>6, Zenon DEF LedgerInv, NamesOwned
    <3>3. \A c : c \notin Claims(l, v)
      BY <3>2, ClaimsMember
    <3>4. Cardinality(Claims(l, v)) = 0
      BY <3>3, FS_EmptySet, Zenon
    <3>5. MinimumBalance(m[v].space) <= m[v].lamports
      BY <2>6, <3>1, Zenon
    <3> QED BY <2>2, <2>3, <2>4, <3>4, <3>5
  <2> QED BY <2>5, <2>6, Zenon
<1>6. AllTermsKept(l, m)
  BY Zenon DEF AllTermsKept, TermsKept
<1> QED BY <1>2, <1>3, <1>5, <1>6, Zenon DEF LedgerInv

(* initialize keeps the ledger invariant: the new vault has its minimum,   *)
(* no pool names it yet unless it is a fee recipient, and it names one.    *)
LEMMA InitializeKeeps ==
    ASSUME NEW l \in Ledger, LedgerInv(l), NEW i \in Users, NEW v \in Vaults,
           NEW fee \in Fees, NEW r \in FeeRecipients, InitializeOk(l, i, v)
    PROVE  /\ InitializePost(l, i, v, fee, r) \in Ledger
           /\ LedgerInv(InitializePost(l, i, v, fee, r))
           /\ AllTermsKept(l, InitializePost(l, i, v, fee, r))
<1> DEFINE min == MinimumBalance(VAULT_LEN)
           d   == Vault(i, fee, r)
           a   == AccountCreated(l, i, v, min, VAULT_LEN, Program)
           m   == InitializePost(l, i, v, fee, r)
<1>1. /\ i \in Key /\ v \in Key /\ v \in Holders /\ i # v /\ i \notin Holders
      /\ Users \subseteq Key /\ Holders \subseteq Key /\ Users \cap Holders = {}
  <2>1. v \in Holders
    BY Zenon DEF Holders
  <2> QED BY <2>1, HoldersFinite, Zenon
<1>2. min \in Nat /\ min \in U64
  <2>1. min \in Nat
    BY MinimumBalanceType, Zenon DEF VAULT_LEN
  <2>2. min <= l[i].lamports
    BY Zenon DEF InitializeOk, CreateAccountOk, TransferOk
  <2>3. l[i].lamports \in Nat /\ l[i].lamports <= U64Max
    BY <1>1, FieldTypes, Zenon DEF Ledger
  <2> HIDE DEF min
  <2> QED BY <2>1, <2>2, <2>3, RentAssumption DEF U64
<1>3. /\ CreateAccountOk(l, i, v, min)
      /\ l[v].owner = System
  BY Zenon DEF InitializeOk, CreateAccountOk
<1>4. d \in Data /\ d # Zeroed /\ d.vault = r
  <2>1. fee \in U64 /\ r \in Key
    BY Level3Assumption, Zenon
  <2>2. d \in Data
    BY <2>1, DataMembers, Zenon
  <2>3. d # Zeroed /\ d.vault = r
    BY DataWritten
  <2> QED BY <2>2, <2>3, Zenon
<1>5. m = SetData(a, v, d)
  BY Zenon DEF InitializePost
<1> HIDE DEF min, d, m
<1>6. /\ a \in [Key -> AccountWith(Data)]
      /\ a[v] = [lamports |-> min, owner |-> Program,
                 space |-> VAULT_LEN, data |-> Zeroed]
      /\ a[i] = [lamports |-> l[i].lamports - min, owner |-> l[i].owner,
                 space |-> l[i].space, data |-> l[i].data]
      /\ \A k \in Key \ {i, v} : a[k] = l[k]
  <2>1. VAULT_LEN \in Nat
    BY Zenon DEF VAULT_LEN
  <2> QED BY <1>1, <1>2, <1>3, <2>1, DataMembers, AccountCreatedFields DEF Ledger
<1> HIDE DEF a
<1>7. /\ m \in [Key -> AccountWith(Data)]
      /\ m[v] = [lamports |-> a[v].lamports, owner |-> a[v].owner,
                 space |-> a[v].space, data |-> d]
      /\ \A k \in Key \ {v} : m[k] = a[k]
  BY <1>1, <1>4, <1>5, <1>6, SetDataFields
<1>8. /\ m[v].lamports = min /\ m[v].owner = Program
      /\ m[v].space = VAULT_LEN /\ m[v].data = d
      /\ m[i].owner = l[i].owner /\ m[i].space = l[i].space /\ m[i].data = l[i].data
      /\ \A k \in Key \ {i, v} : m[k] = l[k]
  BY <1>1, <1>6, <1>7
<1>9. UsersPlain(m)
  BY <1>1, <1>8, Zenon DEF LedgerInv, UsersPlain, Plain
<1>10. \A j \in Holders \ {v} : m[j] = l[j]
  BY <1>1, <1>8, Zenon
<1>11. l[v].data = Zeroed /\ ~OwnedByProgram(l, v)
  BY <1>1, <1>3, ProgramsDiffer, Zenon DEF LedgerInv, HoldersShaped, Plain, OwnedByProgram
<1>12. MinimumBalance(m[v].space) <= m[v].lamports
  <2>1. min <= min
    BY <1>2
  <2> QED BY <1>8, <2>1, Zenon DEF min
<1>13. \A w \in Key \ FeeRecipients : ~PoolOf(m[v], w)
  BY <1>4, <1>8, Zenon DEF PoolOf
<1>14. m \in Ledger /\ OwnedByProgram(m, v)
  BY <1>7, <1>8, Zenon DEF Ledger, OwnedByProgram
<1>15. LedgerInv(m) /\ AllTermsKept(l, m)
  BY <1>1, <1>9, <1>10, <1>11, <1>12, <1>13, <1>14, FreshKeeps, Zenon
<1> QED BY <1>14, <1>15, Zenon DEF m

(* Making a pool account keeps the ledger invariant: its zeroed data names *)
(* no vault.                                                               *)
LEMMA CreatePoolAccountKeeps ==
    ASSUME NEW l \in Ledger, LedgerInv(l), NEW u \in Users, NEW p \in Pools,
           CreateAccountOk(l, u, p, MinimumBalance(TIP_POOL_LEN))
    PROVE  LET m == AccountCreated(l, u, p, MinimumBalance(TIP_POOL_LEN),
                                   TIP_POOL_LEN, Program)
           IN  m \in Ledger /\ LedgerInv(m) /\ AllTermsKept(l, m)
<1> DEFINE min == MinimumBalance(TIP_POOL_LEN)
           m   == AccountCreated(l, u, p, min, TIP_POOL_LEN, Program)
<1>1. /\ u \in Key /\ p \in Key /\ p \in Holders /\ u # p /\ u \notin Holders
      /\ Users \subseteq Key /\ Holders \subseteq Key /\ Users \cap Holders = {}
  <2>1. p \in Holders
    BY Zenon DEF Holders
  <2> QED BY <2>1, HoldersFinite, Zenon
<1>2. min \in Nat /\ min \in U64
  <2>1. min \in Nat
    BY MinimumBalanceType, Zenon DEF TIP_POOL_LEN
  <2>2. min <= l[u].lamports
    BY Zenon DEF CreateAccountOk, TransferOk
  <2>3. l[u].lamports \in Nat /\ l[u].lamports <= U64Max
    BY <1>1, FieldTypes, Zenon DEF Ledger
  <2> HIDE DEF min
  <2> QED BY <2>1, <2>2, <2>3, RentAssumption DEF U64
<1>3. CreateAccountOk(l, u, p, min) /\ l[p].owner = System
  BY Zenon DEF CreateAccountOk
<1> HIDE DEF min
<1>4. /\ m \in [Key -> AccountWith(Data)]
      /\ m[p] = [lamports |-> min, owner |-> Program,
                 space |-> TIP_POOL_LEN, data |-> Zeroed]
      /\ m[u] = [lamports |-> l[u].lamports - min, owner |-> l[u].owner,
                 space |-> l[u].space, data |-> l[u].data]
      /\ \A k \in Key \ {u, p} : m[k] = l[k]
  <2>1. TIP_POOL_LEN \in Nat
    BY Zenon DEF TIP_POOL_LEN
  <2> QED BY <1>1, <1>2, <1>3, <2>1, DataMembers, AccountCreatedFields DEF Ledger
<1> HIDE DEF m
<1>5. /\ m[p].lamports = min /\ m[p].owner = Program
      /\ m[p].space = TIP_POOL_LEN /\ m[p].data = Zeroed
      /\ m[u].owner = l[u].owner /\ m[u].space = l[u].space /\ m[u].data = l[u].data
  BY <1>4
<1>6. UsersPlain(m)
  BY <1>1, <1>4, <1>5, Zenon DEF LedgerInv, UsersPlain, Plain
<1>7. \A j \in Holders \ {p} : m[j] = l[j]
  BY <1>1, <1>4, Zenon
<1>8. l[p].data = Zeroed /\ ~OwnedByProgram(l, p)
  BY <1>1, <1>3, ProgramsDiffer, Zenon DEF LedgerInv, HoldersShaped, Plain, OwnedByProgram
<1>9. MinimumBalance(m[p].space) <= m[p].lamports
  <2>1. min <= min
    BY <1>2
  <2> QED BY <1>5, <2>1, Zenon DEF min
<1>10. \A w : ~PoolOf(m[p], w)
  BY <1>5, Zenon DEF PoolOf
<1>11. m \in Ledger /\ OwnedByProgram(m, p)
  BY <1>4, <1>5, Zenon DEF Ledger, OwnedByProgram
<1>12. LedgerInv(m) /\ AllTermsKept(l, m)
  BY <1>1, <1>6, <1>7, <1>8, <1>9, <1>10, <1>11, FreshKeeps, Zenon
<1> QED BY <1>11, <1>12, Zenon DEF m, min

(* create_pool keeps the ledger invariant: the new pool is owed nothing,   *)
(* and only an unclaimed account is written.                               *)
LEMMA CreatePoolKeeps ==
    ASSUME NEW l \in Ledger, LedgerInv(l),
           NEW v \in Holders, NEW a \in Users, NEW p \in Holders,
           OwnedByProgram(l, v), OwnedByProgram(l, p), l[p].data = Zeroed
    PROVE  LET m == SetData(l, p, TipPool(a, 0, v))
           IN  m \in Ledger /\ LedgerInv(m) /\ AllTermsKept(l, m)
<1> DEFINE d == TipPool(a, 0, v)
           m == SetData(l, p, d)
<1>1. /\ p \in Key /\ v \in Key /\ p \notin Users
      /\ Users \subseteq Key /\ Holders \subseteq Key
  BY HoldersFinite, Zenon
<1>2. d \in Data /\ d # Zeroed /\ d.vault = v /\ d.value = 0
  <2>1. 0 \in U64
    BY RentAssumption DEF U64
  <2>2. d \in Data
    BY <1>1, <2>1, DataMembers, Zenon
  <2>3. d # Zeroed /\ d.vault = v /\ d.value = 0
    BY DataWritten
  <2> QED BY <2>2, <2>3, Zenon
<1> HIDE DEF d
<1>3. /\ m \in [Key -> AccountWith(Data)]
      /\ m[p] = [lamports |-> l[p].lamports, owner |-> l[p].owner,
                 space |-> l[p].space, data |-> d]
      /\ \A k \in Key \ {p} : m[k] = l[k]
  BY <1>1, <1>2, SetDataFields DEF Ledger
<1> HIDE DEF m
<1>4. /\ m[p].data = d /\ m[p].owner = l[p].owner
      /\ m[p].lamports = l[p].lamports /\ m[p].space = l[p].space
  BY <1>3
<1>5. UsersPlain(m)
  BY <1>1, <1>3, Zenon DEF LedgerInv, UsersPlain
<1>6. \A j \in Holders \ {p} : m[j] = l[j]
  BY <1>1, <1>3, Zenon
<1>7. OwnedByProgram(m, p) /\ OwnedByProgram(m, v)
  BY <1>1, <1>3, <1>4, Zenon DEF OwnedByProgram
<1>8. \A w \in Key \ FeeRecipients : PoolOf(m[p], w) =>
          OwnedByProgram(m, w) /\ m[p].data.value = 0
  BY <1>2, <1>4, <1>7, Zenon DEF PoolOf
<1>9. m \in Ledger
  BY <1>3, Zenon DEF Ledger
<1>10. LedgerInv(m) /\ AllTermsKept(l, m)
  BY <1>4, <1>5, <1>6, <1>7, <1>8, <1>9, FreshKeeps, Zenon
<1> QED BY <1>9, <1>10, Zenon DEF m, d

(* What tip and withdraw have in common: the value of one pool of v        *)
(* changes, and balances of v and of users change with it.                 *)
LEMMA PoolValueChanged ==
    ASSUME NEW l \in Ledger, NEW m \in Ledger, LedgerInv(l),
           NEW p \in Holders, NEW v \in Holders, OwnedByProgram(l, v),
           PoolOf(l[p], v), PoolOf(m[p], v),
           m[p].data.kind = l[p].data.kind,
           m[p].data.withdraw_authority = l[p].data.withdraw_authority,
           \A k \in Key : m[k].owner = l[k].owner /\ m[k].space = l[k].space,
           \A k \in Key \ {p} : m[k].data = l[k].data,
           \A k \in Holders \ {v} : m[k].lamports = l[k].lamports,
           \A w : w # v => Claims(m, w) = Claims(l, w),
           v \notin FeeRecipients =>
               Cardinality(Claims(m, v)) + MinimumBalance(l[v].space) <= m[v].lamports
    PROVE  LedgerInv(m) /\ AllTermsKept(l, m)
<1>1. /\ p \in Key /\ v \in Key /\ p \notin Users
      /\ Users \subseteq Key /\ Holders \subseteq Key
  BY HoldersFinite, Zenon
<1>2. UsersPlain(m)
  BY <1>1, Zenon DEF LedgerInv, UsersPlain, Plain
<1>3. HoldersShaped(m)
  <2> SUFFICES ASSUME NEW q \in Holders
               PROVE  Plain(m[q]) \/ OwnedByProgram(m, q)
    BY Zenon DEF HoldersShaped
  <2>1. Plain(l[q]) \/ OwnedByProgram(l, q)
    BY Zenon DEF LedgerInv, HoldersShaped
  <2>2. Plain(l[q]) => q # p
    BY Zenon DEF Plain, PoolOf
  <2> QED BY <1>1, <2>1, <2>2, Zenon DEF Plain, OwnedByProgram
<1>4. \A q \in Holders : \A w : PoolOf(m[q], w) <=> PoolOf(l[q], w)
  <2> SUFFICES ASSUME NEW q \in Holders, NEW w
               PROVE  PoolOf(m[q], w) <=> PoolOf(l[q], w)
    BY Zenon
  <2>1. CASE q = p
    BY <2>1, Zenon DEF PoolOf
  <2>2. CASE q # p
    BY <1>1, <2>2, Zenon DEF PoolOf
  <2> QED BY <2>1, <2>2, Zenon
<1>5. NamesOwned(m)
  BY <1>4, Zenon DEF LedgerInv, NamesOwned, OwnedByProgram
<1>6. SolventIn(m)
  <2> SUFFICES ASSUME NEW w \in Holders \ FeeRecipients, OwnedByProgram(m, w)
               PROVE  Cardinality(Claims(m, w)) + MinimumBalance(m[w].space)
                          <= m[w].lamports
    BY Zenon DEF SolventIn
  <2>1. w \in Key /\ w \in Holders /\ OwnedByProgram(l, w) /\ m[w].space = l[w].space
    BY <1>1, Zenon DEF OwnedByProgram
  <2>2. CASE w = v
    BY <2>1, <2>2, Zenon
  <2>3. CASE w # v
    <3>1. m[w].lamports = l[w].lamports
      BY <2>1, <2>3, Zenon
    <3>2. Claims(m, w) = Claims(l, w)
      BY <2>3, Zenon
    <3>3. Cardinality(Claims(l, w)) + MinimumBalance(l[w].space) <= l[w].lamports
      BY <2>1, Zenon DEF LedgerInv, SolventIn
    <3> QED BY <2>1, <3>1, <3>2, <3>3, Zenon
  <2> QED BY <2>2, <2>3, Zenon
<1>7. AllTermsKept(l, m)
  <2> SUFFICES ASSUME NEW q \in Holders, l[q].data # Zeroed
               PROVE  /\ m[q].data # Zeroed
                      /\ m[q].data.kind = l[q].data.kind
                      /\ m[q].data.withdraw_authority = l[q].data.withdraw_authority
                      /\ m[q].data.vault = l[q].data.vault
    BY Zenon DEF AllTermsKept, TermsKept
  <2>1. CASE q = p
    BY <2>1, Zenon DEF PoolOf
  <2>2. CASE q # p
    BY <1>1, <2>2, Zenon
  <2> QED BY <2>1, <2>2, Zenon
<1> QED BY <1>2, <1>3, <1>5, <1>6, <1>7, Zenon DEF LedgerInv

(* Writing the value of a pool. *)
LEMMA SetValue ==
    ASSUME NEW l \in Ledger, NEW p \in Holders, NEW v \in Key,
           PoolOf(l[p], v), NEW x \in U64
    PROVE  LET d == [l[p].data EXCEPT !.value = x]
           IN  /\ d \in Data /\ d # Zeroed /\ d.vault = v /\ d.value = x
               /\ d.kind = l[p].data.kind
               /\ d.withdraw_authority = l[p].data.withdraw_authority
<1> DEFINE d == [l[p].data EXCEPT !.value = x]
<1>1. l[p].data \in [kind : {"vault", "pool"}, withdraw_authority : Users,
                     value : U64, vault : Key]
  <2>1. l[p].data \in Data /\ l[p].data # Zeroed
    BY HoldersFinite, Zenon DEF Ledger, AccountWith, PoolOf
  <2> QED BY <2>1, PoolData, Zenon
<1>2. /\ d \in Data /\ d.vault = v /\ d.value = x
      /\ d.kind = l[p].data.kind
      /\ d.withdraw_authority = l[p].data.withdraw_authority
  BY <1>1, Zenon DEF PoolOf, Data
<1>3. d.kind = "vault" \/ d.kind = "pool"
  BY <1>1, <1>2, Zenon
<1>4. d # Zeroed
  <2> HIDE DEF d
  <2> QED BY <1>3 DEF Zeroed
<1> QED BY <1>2, <1>4, Zenon

(* tip keeps the ledger invariant: the vault gains what the pool is        *)
(* credited.                                                               *)
LEMMA TipKeeps ==
    ASSUME NEW l \in Ledger, LedgerInv(l), NEW v \in Holders, NEW p \in Holders,
           NEW u \in Users, NEW n \in U64, TipOk(l, v, p, u, n)
    PROVE  /\ TipPost(l, v, p, u, n) \in Ledger
           /\ LedgerInv(TipPost(l, v, p, u, n))
           /\ AllTermsKept(l, TipPost(l, v, p, u, n))
<1> DEFINE x == l[p].data.value + n
           t == Transferred(l, u, v, n)
           d == [l[p].data EXCEPT !.value = x]
           m == TipPost(l, v, p, u, n)
<1>1. /\ u \in Key /\ v \in Key /\ p \in Key /\ u # v /\ p # u
      /\ u \notin Holders /\ Holders \subseteq Key
  BY HoldersFinite, Zenon
<1>2. PoolOf(l[p], v) /\ TransferOk(l, u, v, n) /\ x <= U64Max /\ OwnedByProgram(l, v)
  BY Zenon DEF TipOk
<1>3. n \in Nat /\ l[p].data.value \in Nat /\ x \in U64
  <2>1. n \in Nat
    BY RentAssumption DEF U64
  <2>2. l[p].data.value \in Nat
    BY <1>1, <1>2, FieldTypes, PoolData, RentAssumption DEF Ledger, PoolOf, U64
  <2> QED BY <1>2, <2>1, <2>2, RentAssumption DEF U64
<1>4. /\ t \in [Key -> AccountWith(Data)]
      /\ \A k \in Key : /\ t[k].owner = l[k].owner
                        /\ t[k].space = l[k].space
                        /\ t[k].data = l[k].data
      /\ \A k \in Key \ {u, v} : t[k] = l[k]
      /\ t[v].lamports = l[v].lamports + n
  BY <1>1, <1>2, TransferredFields DEF Ledger
<1>5. m = SetData(t, p, d)
  BY Zenon DEF TipPost
<1>6. /\ d \in Data /\ d # Zeroed /\ d.vault = v /\ d.value = x
      /\ d.kind = l[p].data.kind
      /\ d.withdraw_authority = l[p].data.withdraw_authority
  BY <1>1, <1>2, <1>3, SetValue
<1> HIDE DEF t, d, m
<1>7. /\ m \in [Key -> AccountWith(Data)]
      /\ m[p] = [lamports |-> t[p].lamports, owner |-> t[p].owner,
                 space |-> t[p].space, data |-> d]
      /\ \A k \in Key \ {p} : m[k] = t[k]
      /\ \A k \in Key : /\ m[k].lamports = t[k].lamports
                        /\ m[k].owner = t[k].owner
                        /\ m[k].space = t[k].space
  BY <1>1, <1>4, <1>5, <1>6, SetDataFields
<1>8. PoolOf(m[p], v) /\ m[p].data.value = l[p].data.value + n
  BY <1>6, <1>7 DEF PoolOf
<1>9. \A k \in Key : m[k].owner = l[k].owner /\ m[k].space = l[k].space
  BY <1>4, <1>7, Zenon
<1>10. \A k \in Key \ {p} : m[k].data = l[k].data
  BY <1>4, <1>7, Zenon
<1>11. \A k \in Holders \ {v} : m[k].lamports = l[k].lamports
  BY <1>1, <1>4, <1>7, Zenon
<1>12. m[v].lamports = l[v].lamports + n
  BY <1>1, <1>4, <1>7, Zenon
<1>13. /\ Cardinality(Claims(m, v)) = Cardinality(Claims(l, v)) + n
       /\ \A w : w # v => Claims(m, w) = Claims(l, w)
  <2>1. \A q \in Holders \ {p} : m[q].data = l[q].data
    BY <1>1, <1>10, Zenon
  <2>2. m \in Ledger
    BY <1>7, Zenon DEF Ledger
  <2>3. PoolOf(l[p], v) /\ n \in Nat /\ v \in Key
    BY <1>1, <1>2, <1>3, Zenon
  <2> QED BY <1>8, <2>1, <2>2, <2>3, ClaimsGrow
<1>14. ASSUME v \notin FeeRecipients
       PROVE  Cardinality(Claims(m, v)) + MinimumBalance(l[v].space) <= m[v].lamports
  <2>1. Cardinality(Claims(l, v)) + MinimumBalance(l[v].space) <= l[v].lamports
    BY <1>2, <1>14, Zenon DEF LedgerInv, SolventIn
  <2>2. l[v].lamports \in Nat /\ l[v].space \in Nat
    BY <1>1, FieldTypes, Zenon DEF Ledger
  <2>3. Cardinality(Claims(l, v)) \in Nat /\ MinimumBalance(l[v].space) \in Nat
    BY <2>2, ClaimsFinite, MinimumBalanceType, Zenon
  <2> QED BY <1>3, <1>12, <1>13, <2>1, <2>2, <2>3
<1>15. m[p].data.kind = l[p].data.kind
       /\ m[p].data.withdraw_authority = l[p].data.withdraw_authority
  BY <1>6, <1>7
<1>16. m \in Ledger
  BY <1>7, Zenon DEF Ledger
<1>17. LedgerInv(m) /\ AllTermsKept(l, m)
  BY <1>2, <1>8, <1>9, <1>10, <1>11, <1>13, <1>14, <1>15, <1>16, PoolValueChanged, Zenon
<1> QED BY <1>16, <1>17, Zenon DEF m

(* withdraw keeps the ledger invariant: the vault loses what the pool is   *)
(* debited, and has it.                                                    *)
LEMMA WithdrawKeeps ==
    ASSUME NEW l \in Ledger, LedgerInv(l), NEW v \in Holders, NEW p \in Holders,
           NEW a \in Users, NEW n \in U64, WithdrawOk(l, v, p, a, n)
    PROVE  /\ WithdrawPost(l, v, p, a, n) \in Ledger
           /\ LedgerInv(WithdrawPost(l, v, p, a, n))
           /\ AllTermsKept(l, WithdrawPost(l, v, p, a, n))
<1> DEFINE x == l[p].data.value - n
           t == MoveLamports(l, v, a, n)
           d == [l[p].data EXCEPT !.value = x]
           m == WithdrawPost(l, v, p, a, n)
<1>1. /\ a \in Key /\ v \in Key /\ p \in Key /\ a # v /\ p # a
      /\ a \notin Holders /\ Holders \subseteq Key
  BY HoldersFinite, Zenon
<1>2. PoolOf(l[p], v) /\ n <= l[p].data.value /\ OwnedByProgram(l, v)
  BY Zenon DEF WithdrawOk
<1>3. n \in Nat /\ l[p].data.value \in Nat /\ x \in U64
  <2>1. n \in Nat
    BY RentAssumption DEF U64
  <2>2. l[p].data.value \in Nat /\ l[p].data.value <= U64Max
    BY <1>1, <1>2, FieldTypes, PoolData, RentAssumption DEF Ledger, PoolOf, U64
  <2> QED BY <1>2, <2>1, <2>2, RentAssumption DEF U64
<1>4. /\ t \in [Key -> AccountWith(Data)]
      /\ \A k \in Key : /\ t[k].owner = l[k].owner
                        /\ t[k].space = l[k].space
                        /\ t[k].data = l[k].data
      /\ \A k \in Key \ {v, a} : t[k] = l[k]
      /\ t[v].lamports = WrapSub(l[v].lamports, n)
  BY <1>1, MoveLamportsFields DEF Ledger
<1>5. m = SetData(t, p, d)
  BY Zenon DEF WithdrawPost
<1>6. /\ d \in Data /\ d # Zeroed /\ d.vault = v /\ d.value = x
      /\ d.kind = l[p].data.kind
      /\ d.withdraw_authority = l[p].data.withdraw_authority
  BY <1>1, <1>2, <1>3, SetValue
<1> HIDE DEF t, d, m
<1>7. /\ m \in [Key -> AccountWith(Data)]
      /\ m[p] = [lamports |-> t[p].lamports, owner |-> t[p].owner,
                 space |-> t[p].space, data |-> d]
      /\ \A k \in Key \ {p} : m[k] = t[k]
      /\ \A k \in Key : /\ m[k].lamports = t[k].lamports
                        /\ m[k].owner = t[k].owner
                        /\ m[k].space = t[k].space
  BY <1>1, <1>4, <1>5, <1>6, SetDataFields
<1>8. PoolOf(m[p], v) /\ l[p].data.value = m[p].data.value + n
  BY <1>3, <1>6, <1>7 DEF PoolOf
<1>9. \A k \in Key : m[k].owner = l[k].owner /\ m[k].space = l[k].space
  BY <1>4, <1>7, Zenon
<1>10. \A k \in Key \ {p} : m[k].data = l[k].data
  BY <1>4, <1>7, Zenon
<1>11. \A k \in Holders \ {v} : m[k].lamports = l[k].lamports
  BY <1>1, <1>4, <1>7, Zenon
<1>12. /\ Cardinality(Claims(l, v)) = Cardinality(Claims(m, v)) + n
       /\ \A w : w # v => Claims(m, w) = Claims(l, w)
  <2>1. \A q \in Holders \ {p} : l[q].data = m[q].data
    BY <1>1, <1>10, Zenon
  <2>2. m \in Ledger
    BY <1>7, Zenon DEF Ledger
  <2>3. PoolOf(l[p], v) /\ n \in Nat /\ v \in Key
    BY <1>1, <1>2, <1>3, Zenon
  <2>4. /\ Cardinality(Claims(l, v)) = Cardinality(Claims(m, v)) + n
        /\ \A w : w # v => Claims(l, w) = Claims(m, w)
    BY <1>8, <2>1, <2>2, <2>3, ClaimsGrow
  <2> QED BY <2>4, Zenon
<1>13. ASSUME v \notin FeeRecipients
       PROVE  Cardinality(Claims(m, v)) + MinimumBalance(l[v].space) <= m[v].lamports
  <2>1. Cardinality(Claims(l, v)) + MinimumBalance(l[v].space) <= l[v].lamports
    BY <1>2, <1>13, Zenon DEF LedgerInv, SolventIn
  <2>2. l[v].lamports \in Nat /\ l[v].space \in Nat
    BY <1>1, FieldTypes, Zenon DEF Ledger
  <2>3. MinimumBalance(l[v].space) \in Nat
    BY <2>2, MinimumBalanceType, Zenon
  <2>4. Cardinality(Claims(m, v)) \in Nat
    BY <1>7, ClaimsFinite, Zenon DEF Ledger
  <2>5. l[v].lamports >= n
    BY <1>3, <1>12, <2>1, <2>2, <2>3, <2>4
  <2>6. m[v].lamports = l[v].lamports - n
    BY <1>1, <1>4, <1>7, <2>5, Zenon DEF WrapSub
  <2> QED BY <1>3, <1>12, <2>1, <2>2, <2>3, <2>4, <2>6
<1>14. m[p].data.kind = l[p].data.kind
       /\ m[p].data.withdraw_authority = l[p].data.withdraw_authority
  BY <1>6, <1>7
<1>15. m \in Ledger
  BY <1>7, Zenon DEF Ledger
<1>16. LedgerInv(m) /\ AllTermsKept(l, m)
  BY <1>2, <1>8, <1>9, <1>10, <1>11, <1>12, <1>13, <1>14, <1>15, PoolValueChanged, Zenon
<1> QED BY <1>15, <1>16, Zenon DEF m

-----------------------------------------------------------------------------
(* The invariant is inductive. *)

(* Terms that are fixed step by step are fixed. *)
LEMMA TermsTransitive ==
    ASSUME NEW l, NEW m, NEW k, AllTermsKept(l, m)
    PROVE  /\ AllTermsKept(m, k) => AllTermsKept(l, k)
           /\ TermsOrPurged(m, k) => TermsOrPurged(l, k)
BY Zenon DEF AllTermsKept, TermsOrPurged, TermsKept

(* The inductive invariant holds of the genesis accounts. *)
LEMMA IInvInit == Init => IInv
<1> SUFFICES ASSUME Init PROVE IInv
  BY Zenon
<1>1. accounts = Genesis /\ work = Genesis
  BY Zenon DEF Init, BankInit
<1>2. BankInv(Data)
  BY BankInvInit, DataMembers, Zenon DEF Init
<1>3. \A k \in Key : Plain(Genesis[k])
  BY GenesisAssumption, Zenon DEF Plain
<1>4. Users \subseteq Key /\ Holders \subseteq Key
  BY HoldersFinite, Zenon
<1>5. UsersPlain(Genesis) /\ HoldersShaped(Genesis)
  BY <1>3, <1>4, Zenon DEF UsersPlain, HoldersShaped
<1>6. NamesOwned(Genesis)
  BY <1>3, <1>4, Zenon DEF NamesOwned, Plain, PoolOf
<1>7. SolventIn(Genesis)
  BY <1>3, <1>4, ProgramsDiffer, Zenon DEF SolventIn, OwnedByProgram, Plain
<1>8. AllTermsKept(Genesis, Genesis)
  BY Zenon DEF AllTermsKept, TermsKept
<1> QED BY <1>1, <1>2, <1>5, <1>6, <1>7, <1>8, Zenon DEF IInv, LedgerInv

(* An instruction that keeps the ledger invariant and the terms of the     *)
(* pools preserves the inductive invariant.                                *)
LEMMA IInvInstruction ==
    ASSUME IInv, NEW post \in Ledger, LedgerInv(post), AllTermsKept(work, post),
           Instruction(post)
    PROVE  IInv'
<1>1. BankInv(Data)'
  BY BankInvInstruction, Zenon DEF IInv, Ledger
<1>2. accounts' = accounts /\ work' = post
  BY Zenon DEF Instruction
<1>3. AllTermsKept(accounts, post)
  BY TermsTransitive, Zenon DEF IInv
<1> QED BY <1>1, <1>2, <1>3, Zenon DEF IInv

(* The accounts as loaded, the fee charged, satisfy the ledger invariant:  *)
(* the fee payer is a user and no vault.                                   *)
LEMMA LoadedKeeps ==
    ASSUME IInv, NEW p \in Payers, FeePayerOk(p)
    PROVE  /\ Loaded(p) \in Ledger
           /\ LedgerInv(Loaded(p))
           /\ AllTermsKept(accounts, Loaded(p))
<1>1. /\ Loaded(p) \in Ledger
      /\ Loaded(p)[p] = [accounts[p] EXCEPT !.lamports = @ - Fee]
      /\ \A k \in Key \ {p} : Loaded(p)[k] = accounts[k]
  BY LoadedFields, Zenon DEF IInv, Ledger
<1>2. p \in Key /\ p \notin Holders /\ Holders \subseteq Key
  BY HoldersFinite, BankAssumption, Zenon
<1>3. accounts \in Ledger
  BY Zenon DEF IInv, BankInv, BankTypeOK, Ledger
<1>4. \A k \in Key : /\ Loaded(p)[k].owner = accounts[k].owner
                     /\ Loaded(p)[k].space = accounts[k].space
                     /\ Loaded(p)[k].data = accounts[k].data
  <2> SUFFICES ASSUME NEW k \in Key
               PROVE  /\ Loaded(p)[k].owner = accounts[k].owner
                      /\ Loaded(p)[k].space = accounts[k].space
                      /\ Loaded(p)[k].data = accounts[k].data
    BY Zenon
  <2>1. CASE k = p
    BY <1>1, <1>2, <1>3, <2>1, Zenon DEF Ledger, AccountWith
  <2>2. CASE k # p
    BY <1>1, <2>2, Zenon
  <2> QED BY <2>1, <2>2, Zenon
<1>5. \A k \in Holders : Loaded(p)[k].lamports >= accounts[k].lamports
  <2>1. \A k \in Key : accounts[k].lamports \in Nat
    BY <1>3, FieldTypes, Zenon DEF Ledger
  <2>2. \A x \in Nat : x >= x
    OBVIOUS
  <2>3. \A k \in Holders : Loaded(p)[k] = accounts[k] /\ k \in Key
    BY <1>1, <1>2, Zenon
  <2> QED BY <2>1, <2>2, <2>3, Zenon
<1>6. LedgerInv(Loaded(p))
  BY <1>1, <1>3, <1>4, <1>5, BalancesFrame, Zenon DEF IInv
<1>7. AllTermsKept(accounts, Loaded(p))
  BY <1>2, <1>4, Zenon DEF AllTermsKept, TermsKept
<1> QED BY <1>1, <1>6, <1>7, Zenon

(* What the end of a transaction stores. *)
LEMMA EndKeeps ==
    ASSUME NEW l \in Ledger, LedgerInv(l), AllTermsKept(accounts, l), End(l)
    PROVE  /\ LedgerInv(accounts') /\ LedgerInv(work')
           /\ AllTermsKept(accounts', work')
           /\ TermsOrPurged(accounts, accounts')
<1>1. accounts' = Purged(l) /\ work' = Purged(l)
  BY Zenon DEF End
<1>2. LedgerInv(Purged(l)) /\ TermsOrPurged(l, Purged(l))
  BY PurgeKeeps, Zenon
<1>3. TermsOrPurged(accounts, Purged(l))
  BY <1>2, TermsTransitive, Zenon
<1>4. AllTermsKept(Purged(l), Purged(l))
  BY Zenon DEF AllTermsKept, TermsKept
<1> QED BY <1>1, <1>2, <1>3, <1>4, Zenon

(* Every step of a transaction preserves the inductive invariant, and none *)
(* changes the terms of a stored pool.                                     *)
LEMMA IInvNext == IInv /\ [Next]_bankVars => IInv' /\ TermsOrPurged(accounts, accounts')
<1> SUFFICES ASSUME IInv, [Next]_bankVars
             PROVE  IInv' /\ TermsOrPurged(accounts, accounts')
  BY Zenon
<1>1. /\ BankInv(Data) /\ LedgerInv(accounts) /\ LedgerInv(work)
      /\ AllTermsKept(accounts, work) /\ accounts \in Ledger /\ work \in Ledger
  BY Zenon DEF IInv, BankInv, BankTypeOK, Ledger
<1>2. TermsOrPurged(accounts, accounts)
  BY Zenon DEF TermsOrPurged, TermsKept
<1>3. \A n \in Amounts : n \in U64
  BY Level3Assumption, Zenon
<1>4. ASSUME NEW post, Instruction(post) PROVE accounts' = accounts
  BY <1>4, Zenon DEF Instruction
<1>5. ASSUME NEW u \in Payers, Begin(u) PROVE IInv' /\ TermsOrPurged(accounts, accounts')
  <2>1. FeePayerOk(u) /\ accounts' = accounts /\ work' = Loaded(u)
    BY <1>5, Zenon DEF Begin
  <2>2. BankInv(Data)'
    BY <1>1, <1>5, BankInvBegin, Zenon
  <2>3. LedgerInv(Loaded(u)) /\ AllTermsKept(accounts, Loaded(u))
    BY <2>1, LoadedKeeps, Zenon
  <2> QED BY <1>1, <1>2, <2>1, <2>2, <2>3, Zenon DEF IInv
<1>6. ASSUME NEW u \in Users, NEW v \in Vaults, NEW fee \in Fees,
             NEW r \in FeeRecipients, Initialize(u, v, fee, r)
      PROVE  IInv' /\ TermsOrPurged(accounts, accounts')
  <2> DEFINE post == InitializePost(work, u, v, fee, r)
  <2>1. InitializeOk(work, u, v) /\ Instruction(post)
    BY <1>6, Zenon DEF Initialize
  <2>2. post \in Ledger /\ LedgerInv(post) /\ AllTermsKept(work, post)
    BY <1>1, <2>1, InitializeKeeps, Zenon
  <2> HIDE DEF post
  <2> QED BY <1>2, <1>4, <2>1, <2>2, IInvInstruction, Zenon
<1>7. ASSUME NEW u \in Users, NEW p \in Pools, CreatePoolAccount(u, p)
      PROVE  IInv' /\ TermsOrPurged(accounts, accounts')
  <2> DEFINE post == AccountCreated(work, u, p, MinimumBalance(TIP_POOL_LEN),
                                    TIP_POOL_LEN, Program)
  <2>1. /\ CreateAccountOk(work, u, p, MinimumBalance(TIP_POOL_LEN))
        /\ Instruction(post)
    BY <1>7, Zenon DEF CreatePoolAccount
  <2>2. post \in Ledger /\ LedgerInv(post) /\ AllTermsKept(work, post)
    BY <1>1, <2>1, CreatePoolAccountKeeps, Zenon
  <2> HIDE DEF post
  <2> QED BY <1>2, <1>4, <2>1, <2>2, IInvInstruction, Zenon
<1>8. ASSUME NEW v \in Holders, NEW a \in Users, NEW p \in Holders, CreatePool(v, a, p)
      PROVE  IInv' /\ TermsOrPurged(accounts, accounts')
  <2> DEFINE post == SetData(work, p, TipPool(a, 0, v))
  <2>1. /\ OwnedByProgram(work, v) /\ OwnedByProgram(work, p)
        /\ work[p].data = Zeroed /\ Instruction(post)
    BY <1>8, Zenon DEF CreatePool
  <2>2. post \in Ledger /\ LedgerInv(post) /\ AllTermsKept(work, post)
    BY <1>1, <2>1, CreatePoolKeeps, Zenon
  <2> HIDE DEF post
  <2> QED BY <1>2, <1>4, <2>1, <2>2, IInvInstruction, Zenon
<1>9. ASSUME NEW v \in Holders, NEW p \in Holders, NEW u \in Users, NEW n \in Amounts,
             Tip(v, p, u, n)
      PROVE  IInv' /\ TermsOrPurged(accounts, accounts')
  <2>1. TipOk(work, v, p, u, n) /\ Instruction(TipPost(work, v, p, u, n))
    BY <1>9, Zenon DEF Tip
  <2>2. /\ TipPost(work, v, p, u, n) \in Ledger
        /\ LedgerInv(TipPost(work, v, p, u, n))
        /\ AllTermsKept(work, TipPost(work, v, p, u, n))
    BY <1>1, <1>3, <2>1, TipKeeps, Zenon
  <2> QED BY <1>2, <1>4, <2>1, <2>2, IInvInstruction, Zenon
<1>10. ASSUME NEW v \in Holders, NEW p \in Holders, NEW a \in Users, NEW n \in Amounts,
              Withdraw(v, p, a, n)
       PROVE  IInv' /\ TermsOrPurged(accounts, accounts')
  <2>1. WithdrawOk(work, v, p, a, n) /\ Instruction(WithdrawPost(work, v, p, a, n))
    BY <1>10, Zenon DEF Withdraw
  <2>2. /\ WithdrawPost(work, v, p, a, n) \in Ledger
        /\ LedgerInv(WithdrawPost(work, v, p, a, n))
        /\ AllTermsKept(work, WithdrawPost(work, v, p, a, n))
    BY <1>1, <1>3, <2>1, WithdrawKeeps, Zenon
  <2> QED BY <1>2, <1>4, <2>1, <2>2, IInvInstruction, Zenon
<1>11. ASSUME NEW u \in Users, NEW k \in Key, NEW n \in Amounts, SystemTransfer(u, k, n)
       PROVE  IInv' /\ TermsOrPurged(accounts, accounts')
  <2>1. TransferOk(work, u, k, n) /\ Instruction(Transferred(work, u, k, n))
    BY <1>11, Zenon DEF SystemTransfer
  <2>2. /\ Transferred(work, u, k, n) \in Ledger
        /\ LedgerInv(Transferred(work, u, k, n))
        /\ AllTermsKept(work, Transferred(work, u, k, n))
    BY <1>1, <1>3, <2>1, SystemTransferKeeps, Zenon
  <2> QED BY <1>2, <1>4, <2>1, <2>2, IInvInstruction, Zenon
<1>12. ASSUME Commit PROVE IInv' /\ TermsOrPurged(accounts, accounts')
  <2>1. End(work)
    BY <1>12, Zenon DEF Commit
  <2>2. BankInv(Data)'
    BY <1>1, <1>12, BankInvCommit, DataMembers, Zenon
  <2> QED BY <1>1, <2>1, <2>2, EndKeeps, Zenon DEF IInv
<1>13. ASSUME Fail PROVE IInv' /\ TermsOrPurged(accounts, accounts')
  <2>1. End(Loaded(payer)) /\ payer \in Payers /\ FeePayerOk(payer)
    BY <1>1, <1>13, Zenon DEF Fail, BankInv, BankTypeOK, OpenPayerOk
  <2>2. BankInv(Data)'
    BY <1>1, <1>13, BankInvFail, DataMembers, Zenon
  <2>3. /\ Loaded(payer) \in Ledger /\ LedgerInv(Loaded(payer))
        /\ AllTermsKept(accounts, Loaded(payer))
    BY <2>1, LoadedKeeps, Zenon
  <2> QED BY <2>1, <2>2, <2>3, EndKeeps, Zenon DEF IInv
<1>14. ASSUME UNCHANGED bankVars PROVE IInv' /\ TermsOrPurged(accounts, accounts')
  <2>1. BankInv(Data)'
    BY <1>1, <1>14, BankInvStutter, Zenon
  <2> QED BY <1>1, <1>2, <1>14, <2>1, Zenon DEF bankVars, IInv
<1> QED BY <1>5, <1>6, <1>7, <1>8, <1>9, <1>10, <1>11, <1>12, <1>13, <1>14, Zenon DEF Next

(* The inductive invariant holds in every reachable state. *)
LEMMA Invariance == Spec => []IInv
BY IInvInit, IInvNext, PTL DEF Spec

-----------------------------------------------------------------------------
(* Every balance and every pool value of the tip program stays a u64, in   *)
(* the stored accounts and inside transactions.                            *)
THEOREM TypeCorrect == Spec => []TypeOK
<1>1. IInv => TypeOK
  BY Zenon DEF IInv, BankInv, TypeOK
<1> QED BY <1>1, Invariance, PTL

(* An account of the tip program that is nobody's fee recipient always     *)
(* holds its rent-exempt minimum and every lamport that tip has credited   *)
(* to its pools and withdraw has not yet paid out, whatever accounts of    *)
(* the program are passed as vaults and as pools.                          *)
THEOREM Solvent == Spec => []Solvency
<1>1. IInv => Solvency
  BY Zenon DEF IInv, LedgerInv, Solvency
<1> QED BY <1>1, Invariance, PTL

(* No transaction of the tip program leaves an account rent-paying. *)
THEOREM AlwaysRentExempt == Spec => []RentExempt
<1>1. IInv => RentExempt
  BY Zenon DEF IInv, BankInv
<1> QED BY <1>1, Invariance, PTL

(* What a pool names as its vault is an account of the program, if it is   *)
(* nobody's fee recipient.                                                 *)
THEOREM VaultsExist == Spec => []PoolsHaveVaults
<1>1. IInv => PoolsHaveVaults
  BY Zenon DEF IInv, LedgerInv, PoolsHaveVaults, NamesOwned
<1> QED BY <1>1, Invariance, PTL

(* Whatever is executed after initialize or create_pool, the keys in the   *)
(* account never change, and only a fee recipient can disappear.           *)
THEOREM TermsFixed == Spec => PoolTermsFixed
<1>1. IInv /\ [Next]_bankVars =>
          [\A p \in Holders :
              \/ TermsKept(accounts, accounts', p)
              \/ p \in FeeRecipients /\ accounts'[p] = DefaultAccount]_bankVars
  BY IInvNext, Zenon DEF TermsOrPurged
<1> QED BY <1>1, Invariance, PTL DEF Spec, PoolTermsFixed

-----------------------------------------------------------------------------
(* Conservation, and what follows from it for withdrawals *)

(* No instruction of the tip program makes lamports or loses any. *)
LEMMA AccountedNext == IInv /\ Accounted /\ [Next]_bankVars => Accounted'
<1> SUFFICES ASSUME IInv, Accounted, [Next]_bankVars
             PROVE  Accounted'
  BY Zenon
<1>1. /\ BankInv(Data) /\ Zeroed \in Data
      /\ work \in [Key -> AccountWith(Data)]
  BY DataMembers, Zenon DEF IInv, BankInv, BankTypeOK
<1>2. /\ Users \subseteq Key /\ Vaults \subseteq Key /\ Pools \subseteq Key
      /\ Holders \subseteq Key /\ Amounts \subseteq U64
  BY Level3Assumption, HoldersFinite, Zenon
<1>3. ASSUME NEW u \in Users, NEW k \in Key, NEW len \in Nat,
             CreateAccountOk(work, u, k, MinimumBalance(len))
      PROVE  /\ MinimumBalance(len) \in U64
             /\ TotalLamports(AccountCreated(work, u, k, MinimumBalance(len), len, Program))
                  = TotalLamports(work)
             /\ AccountCreated(work, u, k, MinimumBalance(len), len, Program)
                  \in [Key -> AccountWith(Data)]
  <2>1. MinimumBalance(len) \in Nat /\ u \in Key
    BY <1>2, MinimumBalanceType, Zenon
  <2>2. MinimumBalance(len) <= work[u].lamports
    BY <1>3, Zenon DEF CreateAccountOk, TransferOk
  <2>3. work[u].lamports \in Nat /\ work[u].lamports <= U64Max
    BY <1>1, <2>1, FieldTypes, Zenon
  <2>4. MinimumBalance(len) \in U64
    BY <2>1, <2>2, <2>3, RentAssumption DEF U64
  <2>5. AccountCreated(work, u, k, MinimumBalance(len), len, Program)
          \in [Key -> AccountWith(Data)]
    BY <1>1, <1>3, <2>1, <2>4, AccountCreatedFields, Zenon
  <2> QED BY <1>1, <1>3, <2>1, <2>4, <2>5, TotalAccountCreated, Zenon
<1>4. ASSUME NEW u \in Payers, Begin(u) PROVE Accounted'
  BY <1>1, <1>4, AccountedBegin, Zenon
<1>5. ASSUME NEW u \in Users, NEW v \in Vaults, NEW fee \in Fees,
             NEW r \in FeeRecipients, Initialize(u, v, fee, r)
      PROVE  Accounted'
  <2> DEFINE made == AccountCreated(work, u, v, MinimumBalance(VAULT_LEN), VAULT_LEN, Program)
  <2>1. /\ CreateAccountOk(work, u, v, MinimumBalance(VAULT_LEN))
        /\ Instruction(SetData(made, v, Vault(u, fee, r)))
    BY <1>5, Zenon DEF Initialize, InitializeOk, InitializePost
  <2>2. v \in Key /\ VAULT_LEN \in Nat
    BY <1>2, Zenon DEF VAULT_LEN
  <2>3. /\ TotalLamports(made) = TotalLamports(work)
        /\ made \in [Key -> AccountWith(Data)]
    BY <1>3, <2>1, <2>2, Zenon
  <2> HIDE DEF made
  <2>4. TotalLamports(SetData(made, v, Vault(u, fee, r))) = TotalLamports(work)
    BY <2>2, <2>3, TotalSetData, Zenon
  <2> QED BY <2>1, <2>4, AccountedInstruction, Zenon
<1>6. ASSUME NEW u \in Users, NEW p \in Pools, CreatePoolAccount(u, p)
      PROVE  Accounted'
  <2> DEFINE made == AccountCreated(work, u, p, MinimumBalance(TIP_POOL_LEN),
                                    TIP_POOL_LEN, Program)
  <2>1. CreateAccountOk(work, u, p, MinimumBalance(TIP_POOL_LEN)) /\ Instruction(made)
    BY <1>6, Zenon DEF CreatePoolAccount
  <2>2. p \in Key /\ TIP_POOL_LEN \in Nat
    BY <1>2, Zenon DEF TIP_POOL_LEN
  <2>3. TotalLamports(made) = TotalLamports(work)
    BY <1>3, <2>1, <2>2, Zenon
  <2> HIDE DEF made
  <2> QED BY <2>1, <2>3, AccountedInstruction, Zenon
<1>7. ASSUME NEW v \in Holders, NEW a \in Users, NEW p \in Holders, CreatePool(v, a, p)
      PROVE  Accounted'
  <2>1. Instruction(SetData(work, p, TipPool(a, 0, v))) /\ p \in Key
    BY <1>2, <1>7, Zenon DEF CreatePool
  <2>2. TotalLamports(SetData(work, p, TipPool(a, 0, v))) = TotalLamports(work)
    BY <1>1, <2>1, TotalSetData, Zenon
  <2> QED BY <2>1, <2>2, AccountedInstruction, Zenon
<1>8. ASSUME NEW v \in Holders, NEW p \in Holders, NEW u \in Users, NEW n \in Amounts,
             Tip(v, p, u, n)
      PROVE  Accounted'
  <2> DEFINE moved == Transferred(work, u, v, n)
             d     == [work[p].data EXCEPT !.value = @ + n]
  <2>1. TransferOk(work, u, v, n) /\ Instruction(SetData(moved, p, d))
    BY <1>8, Zenon DEF Tip, TipOk, TipPost
  <2>2. u \in Key /\ v \in Key /\ p \in Key /\ n \in U64
    BY <1>2, Zenon
  <2>3. moved \in [Key -> AccountWith(Data)]
    BY <1>1, <2>1, <2>2, TransferredFields, Zenon
  <2>4. TotalLamports(moved) = TotalLamports(work)
    BY <1>1, <2>1, <2>2, TotalTransferred, Zenon
  <2> HIDE DEF moved, d
  <2>5. TotalLamports(SetData(moved, p, d)) = TotalLamports(work)
    BY <2>2, <2>3, <2>4, TotalSetData, Zenon
  <2> QED BY <2>1, <2>5, AccountedInstruction, Zenon
<1>9. ASSUME NEW v \in Holders, NEW p \in Holders, NEW a \in Users, NEW n \in Amounts,
             Withdraw(v, p, a, n)
      PROVE  Accounted'
  <2> DEFINE moved == MoveLamports(work, v, a, n)
             d     == [work[p].data EXCEPT !.value = @ - n]
             post  == SetData(moved, p, d)
  <2>1. Balanced(work, post, v, a) /\ Instruction(post)
    BY <1>9, Zenon DEF Withdraw, WithdrawOk, Verified, WithdrawPost
  <2>2. a \in Key /\ v \in Key /\ p \in Key /\ n \in U64
    BY <1>2, Zenon
  <2>3. moved \in [Key -> AccountWith(Data)]
    BY <1>1, <2>2, MoveLamportsFields, Zenon
  <2> HIDE DEF moved, d
  <2>4. post[v].lamports = moved[v].lamports /\ post[a].lamports = moved[a].lamports
    BY <2>2, <2>3, Zenon DEF SetData, AccountWith
  <2>5. TotalLamports(post) = TotalLamports(moved)
    BY <2>2, <2>3, TotalSetData, Zenon
  <2> HIDE DEF post
  <2>6. Balanced(work, moved, v, a)
    BY <2>1, <2>4, Zenon DEF Balanced
  <2>7. TotalLamports(moved) = TotalLamports(work)
    BY <1>1, <2>2, <2>6, TotalBalanced, Zenon DEF moved
  <2> QED BY <2>1, <2>5, <2>7, AccountedInstruction, Zenon
<1>10. ASSUME NEW u \in Users, NEW k \in Key, NEW n \in Amounts, SystemTransfer(u, k, n)
       PROVE  Accounted'
  <2>1. TransferOk(work, u, k, n) /\ Instruction(Transferred(work, u, k, n))
    BY <1>10, Zenon DEF SystemTransfer
  <2>2. TotalLamports(Transferred(work, u, k, n)) = TotalLamports(work)
    BY <1>1, <1>2, <2>1, TotalTransferred, Zenon
  <2> QED BY <2>1, <2>2, AccountedInstruction, Zenon
<1>11. ASSUME Commit PROVE Accounted'
  BY <1>1, <1>11, AccountedCommit, Zenon
<1>12. ASSUME Fail PROVE Accounted'
  BY <1>1, <1>12, AccountedFail, Zenon
<1>13. ASSUME UNCHANGED bankVars PROVE Accounted'
  BY <1>13, AccountedStutter, Zenon
<1> QED BY <1>4, <1>5, <1>6, <1>7, <1>8, <1>9, <1>10, <1>11, <1>12, <1>13, Zenon DEF Next

(* The lamports of the tip program's accounts and the fees collected for   *)
(* its transactions are those of the genesis accounts: no sequence of      *)
(* wrapping `-=` and `+=`, failures and purges makes or loses one.         *)
THEOREM LamportsConserved == Spec => []Conservation
<1>1. Init => Accounted
  BY AccountedInit, Zenon DEF Init
<1>2. Accounted => Conservation
  BY Zenon DEF Accounted
<1> QED BY <1>1, <1>2, AccountedNext, Invariance, PTL DEF Spec

(* What one pool is owed is among what the pools of its vault are owed. *)
LEMMA ClaimsCover ==
    ASSUME NEW l \in Ledger, NEW v, NEW p \in Holders, PoolOf(l[p], v)
    PROVE  l[p].data.value <= Cardinality(Claims(l, v))
<1> DEFINE x   == l[p].data.value
           own == {p} \X (1..x)
<1>1. x \in Nat
  <2>1. l[p].data \in Data
    BY HoldersFinite, Zenon DEF Ledger, AccountWith
  <2> QED BY <2>1, PoolData, RentAssumption DEF PoolOf, U64
<1>2. \A c \in own : c \in Claims(l, v)
  BY ClaimsMember
<1> HIDE DEF x
<1>3. IsFiniteSet(1..x) /\ Cardinality(1..x) = x
  BY <1>1, FS_Interval
<1>4. IsFiniteSet({p}) /\ Cardinality({p}) = 1
  BY FS_Singleton, Zenon
<1>5. Cardinality(own) = Cardinality({p}) * Cardinality(1..x)
  BY <1>3, <1>4, FS_Product, Zenon
<1>6. Cardinality(own) = x
  BY <1>1, <1>3, <1>4, <1>5
<1>7. IsFiniteSet(Claims(l, v)) /\ own \subseteq Claims(l, v)
  BY <1>2, ClaimsFinite, Zenon
<1>8. Cardinality(own) <= Cardinality(Claims(l, v))
  BY <1>7, FS_Subset, Zenon
<1> QED BY <1>6, <1>8, Zenon DEF x

(* A withdrawal of up to the pool's value goes through: the vault can pay  *)
(* it and keeps its rent-exempt minimum, the authority's balance does not  *)
(* overflow, and the program writes only accounts it owns.                 *)
LEMMA WithdrawalPasses ==
    ASSUME IInv, Conservation, NEW p \in Holders, NEW v \in Key \ FeeRecipients,
           NEW n \in U64,
           PoolOf(accounts[p], v), n <= accounts[p].data.value
    PROVE  LET a == accounts[p].data.withdraw_authority
           IN  /\ WithdrawOk(accounts, v, p, a, n)
               /\ \/ RentStatesOk(accounts, WithdrawPost(accounts, v, p, a, n))
                  \/ accounts[a].lamports + n < MinimumBalance(0)
<1> DEFINE l == accounts
           a == l[p].data.withdraw_authority
           x == l[p].data.value
           t == MoveLamports(l, v, a, n)
           d == [l[p].data EXCEPT !.value = @ - n]
           m == WithdrawPost(l, v, p, a, n)
           min == MinimumBalance(l[v].space)
<1>1. /\ l \in Ledger /\ l \in [Key -> AccountWith(Data)]
      /\ LedgerInv(l) /\ BankTypeOK(Data) /\ RentExempt
  BY Zenon DEF IInv, BankInv, BankTypeOK, Ledger
<1>2. l[p].data \in [kind : {"vault", "pool"}, withdraw_authority : Users,
                     value : U64, vault : Key]
  <2>1. p \in Key
    BY HoldersFinite, Zenon
  <2> QED BY <1>1, <2>1, FieldTypes, PoolData, Zenon DEF PoolOf
<1>3. /\ OwnedByProgram(l, v) /\ OwnedByProgram(l, p) /\ v \in Holders
  <2>1. OwnedByProgram(l, v)
    BY <1>1, Zenon DEF LedgerInv, NamesOwned
  <2>2. OwnedByProgram(l, p)
    BY <1>1, Zenon DEF LedgerInv, HoldersShaped, Plain, PoolOf
  <2>3. v \notin Users
    BY <1>1, <2>1, ProgramsDiffer, Zenon DEF LedgerInv, UsersPlain, Plain, OwnedByProgram
  <2> QED BY <2>1, <2>2, <2>3, HoldersFinite, Zenon
<1>4. x \in Nat /\ n \in Nat /\ n <= x
  BY <1>2, RentAssumption DEF U64
<1>5. a \in Users /\ a \in Key /\ v \in Key /\ p \in Key /\ a # v /\ p # a
  BY <1>2, <1>3, HoldersFinite, Zenon
<1>6. l[a].lamports \in Nat /\ l[v].lamports \in Nat /\ min \in Nat
  <2>1. l[a].lamports \in Nat /\ l[v].lamports \in Nat /\ l[v].space \in Nat
    BY <1>1, <1>5, FieldTypes, Zenon
  <2> QED BY <2>1, MinimumBalanceType, Zenon
<1>7. n + min <= l[v].lamports
  <2>1. Cardinality(Claims(l, v)) + min <= l[v].lamports
    BY <1>1, <1>3, Zenon DEF LedgerInv, SolventIn
  <2>2. x <= Cardinality(Claims(l, v)) /\ Cardinality(Claims(l, v)) \in Nat
    BY <1>1, ClaimsCover, ClaimsFinite, Zenon
  <2> HIDE DEF l, x, min
  <2> QED BY <1>4, <1>6, <2>1, <2>2
<1>8. l[v].lamports + l[a].lamports <= U64Max
  BY <1>1, <1>5, BalancesFit, Zenon
<1>9. /\ t \in [Key -> AccountWith(Data)]
      /\ \A k \in Key : /\ t[k].owner = l[k].owner
                        /\ t[k].space = l[k].space
                        /\ t[k].data = l[k].data
      /\ \A k \in Key \ {v, a} : t[k] = l[k]
      /\ t[v].lamports = WrapSub(l[v].lamports, n)
      /\ t[a].lamports = WrapAdd(l[a].lamports, n)
  BY <1>1, <1>5, MoveLamportsFields
<1>10. WrapSub(l[v].lamports, n) = l[v].lamports - n
  BY <1>4, <1>6, <1>7 DEF WrapSub
<1>11. WrapAdd(l[a].lamports, n) = l[a].lamports + n
  <2>1. l[a].lamports + n <= U64Max
    BY <1>4, <1>6, <1>7, <1>8, RentAssumption
  <2> QED BY <2>1, Zenon DEF WrapAdd
<1>12. d \in Data
  <2>1. x - n \in U64
    BY <1>2, <1>4, RentAssumption DEF U64
  <2> QED BY <1>1, <1>5, <2>1, SetValue
<1>13. m = SetData(t, p, d)
  BY Zenon DEF WithdrawPost
<1> HIDE DEF l, t, d, m, x, a, min
<1>14. /\ m \in [Key -> AccountWith(Data)]
       /\ m[p] = [lamports |-> t[p].lamports, owner |-> t[p].owner,
                  space |-> t[p].space, data |-> d]
       /\ \A k \in Key \ {p} : m[k] = t[k]
       /\ \A k \in Key : /\ m[k].lamports = t[k].lamports
                         /\ m[k].owner = t[k].owner
                         /\ m[k].space = t[k].space
  <2>1. t \in [Key -> AccountWith(Data)]
    BY <1>9, Zenon
  <2> QED BY <1>5, <1>12, <1>13, <2>1, SetDataFields
<1>15. /\ m[v].lamports = l[v].lamports - n
       /\ m[a].lamports = l[a].lamports + n
       /\ \A k \in Key \ {v, a} : m[k].lamports = l[k].lamports
       /\ \A k \in Key : m[k].owner = l[k].owner /\ m[k].space = l[k].space
       /\ \A k \in Key \ {p} : m[k].data = l[k].data
  BY <1>5, <1>9, <1>10, <1>11, <1>14
<1>16. Balanced(l, m, v, a)
  BY <1>5, <1>4, <1>6, <1>15 DEF Balanced
<1>17. ASSUME NEW k \in Key
       PROVE  VerifiedAccount(Program, l[k], m[k])
  <2>1. l[k].lamports \in Nat
    BY <1>1, FieldTypes, Zenon
  <2>2. m[k].owner = l[k].owner
    BY <1>15, Zenon
  <2>3. CASE k = v \/ k = p
    BY <1>3, <2>2, <2>3, Zenon DEF VerifiedAccount, OwnedByProgram
  <2>4. CASE k # v /\ k # p
    <3>1. m[k].lamports >= l[k].lamports
      BY <1>4, <1>6, <1>15, <2>1, <2>4
    <3>2. m[k].space = l[k].space /\ m[k].data = l[k].data
      BY <1>15, <2>4, Zenon
    <3> QED BY <2>2, <3>1, <3>2, Zenon DEF VerifiedAccount
  <2> QED BY <2>3, <2>4, Zenon
<1>18. WithdrawOk(l, v, p, a, n)
  BY <1>4, <1>3, <1>16, <1>17, Zenon DEF WithdrawOk, Verified, m, x, a, l
<1>19. ASSUME l[a].lamports + n >= MinimumBalance(0), NEW k \in Key
       PROVE  TransitionAllowed(l[k], m[k])
  <2>1. CASE k = v
    <3>1. m[v].lamports = l[v].lamports - n /\ m[v].space = l[v].space
      BY <1>5, <1>3, <1>15, Zenon
    <3>2. m[v].lamports >= min
      BY <1>4, <1>6, <1>7, <3>1
    <3> QED BY <1>5, <2>1, <3>1, <3>2, Zenon DEF TransitionAllowed, RentPaying, IsExempt, min
  <2>2. CASE k = a
    <3>1. m[a].space = 0
      BY <1>1, <1>5, <1>15, Zenon DEF LedgerInv, UsersPlain, Plain
    <3> QED BY <1>15, <1>19, <2>2, <3>1, Zenon DEF TransitionAllowed, RentPaying, IsExempt
  <2>3. CASE k # v /\ k # a
    <3>1. m[k].lamports = l[k].lamports /\ m[k].space = l[k].space /\ ~RentPaying(l[k])
      BY <1>1, <1>15, <2>3, Zenon DEF RentExempt, l
    <3> QED BY <3>1, Zenon DEF TransitionAllowed, RentPaying, IsExempt
  <2> QED BY <2>1, <2>2, <2>3, Zenon
<1>20. RentStatesOk(l, m) \/ l[a].lamports + n < MinimumBalance(0)
  <2>1. MinimumBalance(0) \in Nat
    BY MinimumBalanceType, Zenon
  <2>2. CASE l[a].lamports + n >= MinimumBalance(0)
    BY <1>19, <2>2, Zenon DEF RentStatesOk
  <2>3. CASE ~(l[a].lamports + n >= MinimumBalance(0))
    BY <1>4, <1>6, <2>1, <2>3
  <2> QED BY <2>2, <2>3, Zenon
<1> QED BY <1>18, <1>20, Zenon DEF m, a, l

(* Whatever a pool is owed can be withdrawn if its vault is nobody's fee   *)
(* recipient: in every reachable state, withdraw and the rent-state check  *)
(* let the authority have any amount up to the pool's value, unless it is  *)
(* too small for its account to exist.                                     *)
THEOREM AlwaysPayable == Spec => []Payable
<1>1. IInv /\ Conservation => Payable
  <2> SUFFICES ASSUME IInv, Conservation, NEW p \in Holders,
                      NEW v \in Key \ FeeRecipients, PoolOf(accounts[p], v), NEW n \in Amounts,
                      n <= accounts[p].data.value
               PROVE  LET a == accounts[p].data.withdraw_authority
                      IN  /\ WithdrawOk(accounts, v, p, a, n)
                          /\ \/ RentStatesOk(accounts, WithdrawPost(accounts, v, p, a, n))
                             \/ accounts[a].lamports + n < MinimumBalance(0)
    BY Zenon DEF Payable
  <2>1. n \in U64
    BY Level3Assumption, Zenon
  <2> QED BY <2>1, WithdrawalPasses, Zenon
<1> QED BY <1>1, Invariance, LamportsConserved, PTL

===============================================================================
