--------------------------- MODULE SplTokenProofs ---------------------------
(***************************************************************************)
(* Proofs about the token program: wrapped lamports are backed, the supply *)
(* of a mint is the sum of its balances, delegations are bounded, frozen   *)
(* accounts stay as they are and a mint without authority stays fixed.     *)
(*                                                                         *)
(* Every instruction is described by the ledger it finds and the ledger it *)
(* leaves, so that the same lemmas serve the token program on its own and  *)
(* the wallet program that calls it.                                       *)
(***************************************************************************)
EXTENDS SplToken, BankProofs

-----------------------------------------------------------------------------
(* Types *)

MintRecord ==
    [kind : {"mint"}, mint_authority : Officers \cup {None}, supply : U64,
     freeze_authority : Officers \cup {None}]

TokenRecord ==
    [kind : {"account"}, mint : Mints \cup {NativeMint}, owner : Key, amount : U64,
     delegate : Delegates \cup {None}, delegated_amount : U64, frozen : BOOLEAN,
     is_native : U64 \cup {None}, close_authority : Officers \cup {None},
     approver : Key \cup {None}, granted : U64, drawn : Nat]

MultisigRecord == [kind : {"multisig"}, m : 1..MAX_SIGNERS, signers : SignerLists]

TokenDatum == {Zeroed} \cup MintRecord \cup TokenRecord \cup MultisigRecord

TokenLedger == [Key -> AccountWith(TokenDatum)]

(* What unpack finds in an account's data tells what it is. *)
LEMMA Kinds ==
    ASSUME NEW d \in TokenDatum
    PROVE  /\ d.kind = "account" <=> d \in TokenRecord
           /\ d.kind = "mint" <=> d \in MintRecord
           /\ d.kind = "zeroed" <=> d = Zeroed
           /\ d = Zeroed => d.kind # "account" /\ d.kind # "mint"
           /\ d \in MultisigRecord => d.kind # "account" /\ d.kind # "mint"
BY DEF TokenDatum, MintRecord, TokenRecord, MultisigRecord, Zeroed

(* The fields of a token account. *)
LEMMA TokenFields ==
    ASSUME NEW d \in TokenRecord
    PROVE  /\ d.kind = "account"
           /\ d.mint \in Mints \cup {NativeMint}
           /\ d.owner \in Key
           /\ d.amount \in Nat /\ d.amount <= U64Max
           /\ d.delegated_amount \in Nat /\ d.delegated_amount <= U64Max
           /\ d.granted \in Nat /\ d.granted <= U64Max
           /\ d.drawn \in Nat
           /\ d.is_native # None => d.is_native \in Nat
BY RentAssumption DEF TokenRecord, U64

(* Ending a delegation (process_revoke, process_set_authority) changes     *)
(* nothing but the delegation.                                             *)
LEMMA UndelegatedFields ==
    ASSUME NEW d \in TokenRecord
    PROVE  LET e == Undelegated(d)
           IN  /\ e \in TokenRecord
               /\ e.mint = d.mint /\ e.owner = d.owner /\ e.amount = d.amount
               /\ e.is_native = d.is_native /\ e.frozen = d.frozen
               /\ e.close_authority = d.close_authority
               /\ e.delegate = None
<1>1. 0 \in U64 /\ 0 \in Nat
  BY RentAssumption DEF U64
<1>2. Undelegated(d) \in TokenRecord
  BY <1>1, Zenon DEF Undelegated, TokenRecord
<1> QED
  BY <1>2, Zenon DEF Undelegated, TokenRecord

(* Changing the balance and the delegation of an account (process_transfer, *)
(* process_burn, process_mint_to) leaves the rest of it.                   *)
LEMMA SpentFields ==
    ASSUME NEW d \in TokenRecord, NEW auth, NEW n \in Nat, n <= d.amount,
           d.delegate = auth => n <= d.delegated_amount
    PROVE  LET e == Spent(d, auth, n)
           IN  /\ e \in TokenRecord
               /\ e.mint = d.mint /\ e.owner = d.owner
               /\ e.amount = d.amount - n
               /\ e.is_native = d.is_native /\ e.frozen = d.frozen
               /\ e.close_authority = d.close_authority
               /\ \/ e.delegate = None
                  \/ /\ e.delegate = d.delegate /\ e.approver = d.approver
                     /\ e.granted = d.granted
                     /\ e.drawn + e.delegated_amount = d.drawn + d.delegated_amount
<1> DEFINE left == [d EXCEPT !.amount = @ - n]
           less == [left EXCEPT !.delegated_amount = @ - n, !.drawn = @ + n]
<1>1. d.amount - n \in U64
  BY TokenFields, RentAssumption DEF U64
<1>2. /\ left \in TokenRecord
      /\ left.amount = d.amount - n
      /\ left.mint = d.mint /\ left.owner = d.owner
      /\ left.is_native = d.is_native /\ left.frozen = d.frozen
      /\ left.close_authority = d.close_authority
      /\ left.delegate = d.delegate /\ left.approver = d.approver
      /\ left.granted = d.granted /\ left.drawn = d.drawn
      /\ left.delegated_amount = d.delegated_amount
  BY <1>1, Zenon DEF TokenRecord
<1> HIDE DEF left
<1>3. CASE d.delegate # auth
  BY <1>2, <1>3, Zenon DEF Spent, left
<1>4. CASE d.delegate = auth /\ d.delegated_amount = n
  <2>1. Spent(d, auth, n) = Undelegated(left)
    BY <1>4, Zenon DEF Spent, left
  <2> QED
    BY <1>2, <2>1, UndelegatedFields
<1>5. CASE d.delegate = auth /\ d.delegated_amount # n
  <2>1. /\ left.delegated_amount - n \in U64
        /\ left.drawn + n \in Nat
        /\ left.drawn + n + (left.delegated_amount - n) = left.drawn + left.delegated_amount
    BY <1>2, <1>5, TokenFields, RentAssumption DEF U64
  <2>2. Spent(d, auth, n) = less
    BY <1>5, Zenon DEF Spent, left
  <2>3. /\ less \in TokenRecord
        /\ less.amount = left.amount
        /\ less.mint = left.mint /\ less.owner = left.owner
        /\ less.is_native = left.is_native /\ less.frozen = left.frozen
        /\ less.close_authority = left.close_authority
        /\ less.delegate = left.delegate /\ less.approver = left.approver
        /\ less.granted = left.granted
        /\ less.drawn = left.drawn + n
        /\ less.delegated_amount = left.delegated_amount - n
    BY <1>2, <2>1, Zenon DEF TokenRecord
  <2> QED
    BY <1>2, <2>1, <2>2, <2>3, Zenon
<1> QED
  BY <1>3, <1>4, <1>5, Zenon

-----------------------------------------------------------------------------
(* The invariant of a ledger *)

(* A token account with data d and n lamports. *)
TokenOk(d, n) ==
    /\ IsNative(d) => /\ d.mint = NativeMint
                      /\ d.is_native = MinimumBalance(ACCOUNT_LEN)
                      /\ d.amount + d.is_native <= n
                      /\ ~d.frozen
    /\ ~IsNative(d) => d.mint \in Mints
    /\ d.delegate # None => /\ d.approver = d.owner
                            /\ d.drawn + d.delegated_amount = d.granted

(* Only accounts of the token program hold what it writes.  Mints and      *)
(* token accounts keep the lamports that exempt them from rent, which is   *)
(* why no end of a transaction drops one.                                  *)
Sound(acc) ==
    /\ acc.owner # Program => acc.data = Zeroed
    /\ acc.data.kind = "account" => /\ acc.lamports >= MinimumBalance(ACCOUNT_LEN)
                                    /\ TokenOk(acc.data, acc.lamports)
    /\ acc.data.kind = "mint" => acc.lamports >= MinimumBalance(MINT_LEN)

AllSound(l) == \A k \in Key : Sound(l[k])

(* Every token account belongs to a mint that exists. *)
MintsExist(l) ==
    \A k \in Key : IsAccount(l, k) /\ ~IsNative(l[k].data) => IsMint(l, l[k].data.mint)

SupplyIs(l) == \A m \in Mints : IsMint(l, m) => l[m].data.supply = Balances(l, m)

LedgerInv(l) == l \in TokenLedger /\ AllSound(l) /\ MintsExist(l) /\ SupplyIs(l)

(* The accounts of a ledger, by what they hold. *)
LEMMA LedgerFields ==
    ASSUME NEW l \in TokenLedger, NEW k \in Key
    PROVE  /\ l[k].lamports \in Nat /\ l[k].lamports <= U64Max
           /\ l[k].space \in Nat
           /\ l[k].data \in TokenDatum
           /\ IsAccount(l, k) => l[k].data \in TokenRecord
           /\ IsMint(l, k) => l[k].data \in MintRecord
           /\ IsAccount(l, k) => ~IsMint(l, k)
<1>1. /\ l[k].lamports \in Nat /\ l[k].lamports <= U64Max
      /\ l[k].space \in Nat
      /\ l[k].data \in TokenDatum
  BY FieldTypes, Zenon DEF TokenLedger
<1> QED
  BY <1>1, Kinds, Zenon DEF IsAccount, IsMint

(* Mints and token accounts are accounts of the token program. *)
LEMMA OwnedByProgram ==
    ASSUME NEW l \in TokenLedger, AllSound(l), NEW k \in Key,
           IsAccount(l, k) \/ IsMint(l, k)
    PROVE  l[k].owner = Program
BY DEF AllSound, Sound, IsAccount, IsMint, Zeroed

(* What an account holds of a mint is a natural number. *)
LEMMA HeldType ==
    ASSUME NEW l \in TokenLedger, NEW m, NEW k \in Key
    PROVE  Held(l, m, k) \in Nat
BY LedgerFields, TokenFields, Zenon DEF Held

(* The sum of the balances of a mint bounds each two of them. *)
LEMMA BalancesBound ==
    ASSUME NEW l \in TokenLedger, NEW m
    PROVE  /\ Balances(l, m) \in Nat
           /\ \A k \in Key : Held(l, m, k) <= Balances(l, m)
           /\ \A j, k \in Key : j # k => Held(l, m, j) + Held(l, m, k) <= Balances(l, m)
<1> DEFINE f == [k \in Key |-> Held(l, m, k)]
<1>1. \A k \in Key : f[k] = Held(l, m, k) /\ f[k] \in Nat
  BY HeldType, Zenon
<1>2. Balances(l, m) = SumFunctionOnSet(f, Key)
  BY Zenon DEF Balances
<1>3. IsFiniteSet(Key)
  BY CapitalizationAssumption, Zenon
<1> HIDE DEF f
<1>4. /\ SumFunctionOnSet(f, Key) \in Nat
      /\ \A j \in Key : f[j] <= SumFunctionOnSet(f, Key)
      /\ \A j, k \in Key : j # k => f[j] + f[k] <= SumFunctionOnSet(f, Key)
  BY <1>1, <1>3, SumType, SumBound, Zenon
<1> QED
  BY <1>1, <1>2, <1>4, Zenon

(* When one account changes, the sum of the balances changes with it. *)
LEMMA BalancesChange ==
    ASSUME NEW l \in TokenLedger, NEW n \in TokenLedger, NEW m, NEW k \in Key,
           \A j \in Key \ {k} : n[j].data = l[j].data
    PROVE  Balances(n, m) + Held(l, m, k) = Balances(l, m) + Held(n, m, k)
<1> DEFINE f == [j \in Key |-> Held(l, m, j)]
           g == [j \in Key |-> Held(n, m, j)]
<1>1. \A j \in Key : /\ f[j] = Held(l, m, j) /\ f[j] \in Nat
                     /\ g[j] = Held(n, m, j) /\ g[j] \in Nat
  BY HeldType, Zenon
<1>2. Balances(l, m) = SumFunctionOnSet(f, Key) /\ Balances(n, m) = SumFunctionOnSet(g, Key)
  BY Zenon DEF Balances
<1>3. IsFiniteSet(Key)
  BY CapitalizationAssumption, Zenon
<1>4. \A j \in Key \ {k} : Held(n, m, j) = Held(l, m, j)
  BY Zenon DEF Held, IsAccount
<1> HIDE DEF f, g
<1>5. \A j \in Key \ {k} : g[j] = f[j]
  BY <1>1, <1>4, Zenon
<1>6. SumFunctionOnSet(g, Key) + f[k] = SumFunctionOnSet(f, Key) + g[k]
  BY <1>1, <1>3, <1>5, SumChange
<1> QED
  BY <1>1, <1>2, <1>6, Zenon

(* Ledgers with the same balances have the same sums. *)
LEMMA BalancesSame ==
    ASSUME NEW l, NEW n, NEW m, \A k \in Key : Held(n, m, k) = Held(l, m, k)
    PROVE  Balances(n, m) = Balances(l, m)
BY Zenon DEF Balances

(* A mint none of whose accounts holds anything. *)
LEMMA BalancesNone ==
    ASSUME NEW l, NEW m, \A k \in Key : Held(l, m, k) = 0
    PROVE  Balances(l, m) = 0
<1> DEFINE f == [k \in Key |-> Held(l, m, k)]
           Q == {s \in SUBSET Key : SumFunctionOnSet(f, s) = 0}
<1>1. IsFiniteSet(Key)
  BY CapitalizationAssumption, Zenon
<1>2. \A k \in Key : f[k] = 0
  BY Zenon
<1>3. Balances(l, m) = SumFunctionOnSet(f, Key)
  BY Zenon DEF Balances
<1> HIDE DEF f
<1>4. {} \in Q
  BY SumEmpty, Zenon
<1>5. ASSUME NEW s \in SUBSET Key, s # {}, s \ {Pick(s)} \in Q
      PROVE  s \in Q
  <2>1. Pick(s) \in s /\ IsFiniteSet(s)
    BY <1>1, <1>5, FS_Subset, Zenon DEF Pick
  <2>2. SumFunctionOnSet(f, s) = f[Pick(s)] + SumFunctionOnSet(f, s \ {Pick(s)})
    BY <1>5, <2>1, SumStep, Zenon
  <2> QED
    BY <1>2, <1>5, <2>1, <2>2
<1>6. SUBSET Key \subseteq Q
  <2> HIDE DEF Q
  <2> QED
    BY <1>1, <1>4, <1>5, SetInduction, Zenon
<1> QED
  BY <1>3, <1>6, Zenon

-----------------------------------------------------------------------------
(* Writing one account *)

Kept(l, n) == SupplyKept(l, n) /\ FrozenKept(l, n)

(* It is enough to look at accounts one by one, at mints, which must stay, *)
(* and at the sums.                                                        *)
LEMMA LedgerStep ==
    ASSUME NEW l, LedgerInv(l), NEW n \in TokenLedger,
           \A k \in Key : Sound(n[k]),
           \A k \in Key : IsMint(l, k) => IsMint(n, k),
           \A k \in Key : IsAccount(n, k) /\ ~IsNative(n[k].data) =>
               IsMint(l, n[k].data.mint),
           SupplyIs(n)
    PROVE  LedgerInv(n)
<1>1. ASSUME NEW k \in Key, IsAccount(n, k), ~IsNative(n[k].data)
      PROVE  IsMint(n, n[k].data.mint)
  <2>1. IsMint(l, n[k].data.mint)
    BY <1>1, Zenon
  <2>2. n[k].data.mint \in Mints
    BY <1>1, Zenon DEF Sound, TokenOk, IsAccount
  <2> QED
    BY <2>1, <2>2, TokenAssumption, Zenon
<1> QED
  BY <1>1, Zenon DEF LedgerInv, AllSound, MintsExist

KeptAt(l, n, k) ==
    /\ IsMint(l, k) /\ l[k].data.mint_authority = None =>
           /\ IsMint(n, k)
           /\ n[k].data.mint_authority = None
           /\ n[k].data.supply <= l[k].data.supply
    /\ IsAccount(l, k) /\ l[k].data.frozen =>
           \/ n[k].data = [l[k].data EXCEPT !.frozen = FALSE]
           \/ n[k].data = l[k].data
           \/ l[k].data.amount = 0 /\ n[k].data = Zeroed

(* The accounts that are not written keep their supply and their freeze. *)
LEMMA KeptStep ==
    ASSUME NEW l \in TokenLedger, NEW n,
           \A k \in Key : n[k].data = l[k].data \/ KeptAt(l, n, k)
    PROVE  Kept(l, n)
<1>1. ASSUME NEW k \in Key, n[k].data = l[k].data
      PROVE  KeptAt(l, n, k)
  <2>1. IsMint(l, k) => l[k].data.supply \in Nat
    BY LedgerFields, RentAssumption DEF MintRecord, U64
  <2> QED
    BY <1>1, <2>1 DEF KeptAt, IsMint
<1>2. \A k \in Key : KeptAt(l, n, k)
  BY <1>1, Zenon
<1>3. SupplyKept(l, n)
  BY <1>2, Zenon DEF KeptAt, SupplyKept
<1>4. FrozenKept(l, n)
  BY <1>2, Zenon DEF KeptAt, FrozenKept
<1> QED
  BY <1>3, <1>4, Zenon DEF Kept

(* A new record for a token account of the same mint, with the same        *)
(* balance unless it holds wrapped lamports.                               *)
LEMMA AccountWritten ==
    ASSUME NEW l, LedgerInv(l), NEW k \in Key, IsAccount(l, k), NEW d \in TokenRecord,
           d.mint = l[k].data.mint, d.is_native = l[k].data.is_native,
           d.amount = l[k].data.amount \/ IsNative(d),
           TokenOk(d, l[k].lamports),
           l[k].data.frozen => d = [l[k].data EXCEPT !.frozen = FALSE]
    PROVE  LedgerInv(SetData(l, k, d)) /\ Kept(l, SetData(l, k, d))
<1> DEFINE n == SetData(l, k, d)
<1>1. l \in TokenLedger /\ AllSound(l) /\ MintsExist(l) /\ SupplyIs(l)
  BY Zenon DEF LedgerInv
<1>2. d \in TokenDatum
  BY Zenon DEF TokenDatum
<1>3. /\ n \in TokenLedger
      /\ n[k] = [lamports |-> l[k].lamports, owner |-> l[k].owner,
                 space |-> l[k].space, data |-> d]
      /\ \A j \in Key \ {k} : n[j] = l[j]
  BY <1>1, <1>2, SetDataFields DEF TokenLedger
<1> HIDE DEF n
<1>4. /\ n[k].lamports = l[k].lamports /\ n[k].owner = l[k].owner
      /\ n[k].space = l[k].space /\ n[k].data = d
  BY <1>3
<1>5. d.kind = "account" /\ l[k].data.kind = "account"
  BY TokenFields, Zenon DEF IsAccount
<1>6. l[k].owner = Program /\ Sound(l[k])
  BY <1>1, OwnedByProgram, Zenon DEF AllSound
<1>7. Sound(n[k])
  BY <1>4, <1>5, <1>6, Zenon DEF Sound
<1>8. \A j \in Key : Sound(n[j])
  BY <1>1, <1>3, <1>7, Zenon DEF AllSound
<1>9. \A j \in Key : IsMint(n, j) <=> IsMint(l, j)
  BY <1>3, <1>4, <1>5, Zenon DEF IsMint
<1>10. ASSUME NEW j \in Key, IsAccount(n, j), ~IsNative(n[j].data)
       PROVE  IsMint(l, n[j].data.mint)
  <2>1. IsAccount(l, j) /\ ~IsNative(l[j].data) /\ l[j].data.mint = n[j].data.mint
    BY <1>3, <1>4, <1>5, <1>10, Zenon DEF IsAccount, IsNative
  <2> QED
    BY <1>1, <2>1, Zenon DEF MintsExist
<1>11. ASSUME NEW m \in Mints
       PROVE  Balances(n, m) = Balances(l, m)
  <2>1. Held(n, m, k) = Held(l, m, k)
    <3>1. m # NativeMint
      BY TokenAssumption, Zenon
    <3>2. IsNative(d) => d.mint # m
      BY <3>1, Zenon DEF TokenOk
    <3> QED
      BY <1>4, <1>5, <3>2, Zenon DEF Held, IsAccount
  <2>2. \A j \in Key : Held(n, m, j) = Held(l, m, j)
    BY <1>3, <2>1, Zenon DEF Held, IsAccount
  <2> QED
    BY <2>2, BalancesSame, Zenon
<1>12. SupplyIs(n)
  <2> SUFFICES ASSUME NEW m \in Mints, IsMint(n, m)
               PROVE  n[m].data.supply = Balances(n, m)
    BY Zenon DEF SupplyIs
  <2>1. m \in Key /\ IsMint(l, m) /\ m # k
    BY <1>4, <1>5, <1>9, TokenAssumption, Zenon DEF IsMint
  <2> QED
    BY <1>1, <1>3, <1>11, <2>1, Zenon DEF SupplyIs
<1>13. LedgerInv(n)
  BY <1>3, <1>8, <1>9, <1>10, <1>12, LedgerStep, Zenon
<1>14. KeptAt(l, n, k)
  BY <1>4, <1>5, Zenon DEF KeptAt, IsMint
<1>15. Kept(l, n)
  BY <1>1, <1>3, <1>14, KeptStep
<1> QED
  BY <1>13, <1>15, Zenon DEF n

(* A new record for a mint with the same supply. *)
LEMMA MintWritten ==
    ASSUME NEW l, LedgerInv(l), NEW k \in Key, IsMint(l, k), NEW d \in MintRecord,
           d.supply = l[k].data.supply,
           l[k].data.mint_authority = None => d.mint_authority = None
    PROVE  LedgerInv(SetData(l, k, d)) /\ Kept(l, SetData(l, k, d))
<1> DEFINE n == SetData(l, k, d)
<1>1. l \in TokenLedger /\ AllSound(l) /\ MintsExist(l) /\ SupplyIs(l)
  BY Zenon DEF LedgerInv
<1>2. d \in TokenDatum /\ d.kind = "mint" /\ d.supply \in Nat
  BY RentAssumption DEF TokenDatum, MintRecord, U64
<1>3. /\ n \in TokenLedger
      /\ n[k] = [lamports |-> l[k].lamports, owner |-> l[k].owner,
                 space |-> l[k].space, data |-> d]
      /\ \A j \in Key \ {k} : n[j] = l[j]
  BY <1>1, <1>2, SetDataFields DEF TokenLedger
<1> HIDE DEF n
<1>4. /\ n[k].lamports = l[k].lamports /\ n[k].owner = l[k].owner
      /\ n[k].space = l[k].space /\ n[k].data = d
  BY <1>3
<1>5. l[k].data.kind = "mint" /\ l[k].owner = Program /\ Sound(l[k])
  BY <1>1, OwnedByProgram, Zenon DEF AllSound, IsMint
<1>6. \A j \in Key : Sound(n[j])
  <2>1. Sound(n[k])
    BY <1>2, <1>4, <1>5, Zenon DEF Sound
  <2> QED
    BY <1>1, <1>3, <2>1, Zenon DEF AllSound
<1>7. \A j \in Key : /\ IsMint(n, j) <=> IsMint(l, j)
                     /\ IsAccount(n, j) <=> IsAccount(l, j)
                     /\ IsAccount(n, j) => n[j].data = l[j].data
  BY <1>2, <1>3, <1>4, <1>5, Zenon DEF IsMint, IsAccount
<1>8. ASSUME NEW j \in Key, IsAccount(n, j), ~IsNative(n[j].data)
      PROVE  IsMint(l, n[j].data.mint)
  BY <1>1, <1>7, <1>8, Zenon DEF MintsExist
<1>9. SupplyIs(n)
  <2> SUFFICES ASSUME NEW m \in Mints, IsMint(n, m)
               PROVE  n[m].data.supply = Balances(n, m)
    BY Zenon DEF SupplyIs
  <2>1. \A j \in Key : Held(n, m, j) = Held(l, m, j)
    BY <1>7, Zenon DEF Held
  <2>2. m \in Key /\ IsMint(l, m) /\ n[m].data.supply = l[m].data.supply
    BY <1>3, <1>4, <1>7, TokenAssumption, Zenon
  <2> QED
    BY <1>1, <2>1, <2>2, BalancesSame, Zenon DEF SupplyIs
<1>10. LedgerInv(n)
  BY <1>3, <1>6, <1>7, <1>8, <1>9, LedgerStep, Zenon
<1>11. KeptAt(l, n, k)
  BY <1>2, <1>4, <1>5 DEF KeptAt, IsMint, IsAccount
<1>12. Kept(l, n)
  BY <1>1, <1>3, <1>11, KeptStep, Zenon
<1> QED
  BY <1>10, <1>12, Zenon DEF n

(* Claiming an unused account (process_initialize_mint, _account and       *)
(* _multisig): nothing is held in it yet, and a new mint has no accounts.  *)
LEMMA RecordOpened ==
    ASSUME NEW l, LedgerInv(l), NEW k \in Key, l[k].data = Zeroed, l[k].owner = Program,
           NEW d \in TokenDatum,
           d.kind = "mint" => /\ d.supply = 0
                              /\ l[k].lamports >= MinimumBalance(MINT_LEN),
           d.kind = "account" => /\ l[k].lamports >= MinimumBalance(ACCOUNT_LEN)
                                 /\ TokenOk(d, l[k].lamports)
                                 /\ d.amount = 0 \/ IsNative(d)
                                 /\ ~IsNative(d) => IsMint(l, d.mint)
    PROVE  LedgerInv(SetData(l, k, d)) /\ Kept(l, SetData(l, k, d))
<1> DEFINE n == SetData(l, k, d)
<1>1. l \in TokenLedger /\ AllSound(l) /\ MintsExist(l) /\ SupplyIs(l)
  BY Zenon DEF LedgerInv
<1>2. /\ n \in TokenLedger
      /\ n[k] = [lamports |-> l[k].lamports, owner |-> l[k].owner,
                 space |-> l[k].space, data |-> d]
      /\ \A j \in Key \ {k} : n[j] = l[j]
  BY <1>1, SetDataFields DEF TokenLedger
<1> HIDE DEF n
<1>3. /\ n[k].lamports = l[k].lamports /\ n[k].owner = l[k].owner
      /\ n[k].space = l[k].space /\ n[k].data = d
  BY <1>2
<1>4. ~IsAccount(l, k) /\ ~IsMint(l, k)
  BY DEF IsAccount, IsMint, Zeroed
<1>5. \A j \in Key : Sound(n[j])
  <2>1. Sound(n[k])
    BY <1>3, Zenon DEF Sound
  <2> QED
    BY <1>1, <1>2, <2>1, Zenon DEF AllSound
<1>6. \A j \in Key : IsMint(l, j) => j # k /\ IsMint(n, j)
  BY <1>2, <1>4, Zenon DEF IsMint
<1>7. ASSUME NEW j \in Key, IsAccount(n, j), ~IsNative(n[j].data)
      PROVE  IsMint(l, n[j].data.mint)
  <2>1. CASE j = k
    BY <1>3, <1>7, <2>1, Zenon DEF IsAccount
  <2>2. CASE j # k
    BY <1>1, <1>2, <1>7, <2>2, Zenon DEF IsAccount, MintsExist
  <2> QED
    BY <2>1, <2>2, Zenon
<1>8. \A m \in Mints : \A j \in Key : Held(n, m, j) = Held(l, m, j)
  <2> TAKE m \in Mints
  <2> TAKE j \in Key
  <2>1. CASE j = k
    <3>1. m # NativeMint
      BY TokenAssumption, Zenon
    <3>2. d.kind = "account" /\ d.mint = m => d.amount = 0
      BY <3>1, Zenon DEF TokenOk
    <3> QED
      BY <1>3, <1>4, <2>1, <3>2, Zenon DEF Held, IsAccount
  <2>2. CASE j # k
    BY <1>2, <2>2, Zenon DEF Held, IsAccount
  <2> QED
    BY <2>1, <2>2, Zenon
<1>9. SupplyIs(n)
  <2> SUFFICES ASSUME NEW m \in Mints, IsMint(n, m)
               PROVE  n[m].data.supply = Balances(n, m)
    BY Zenon DEF SupplyIs
  <2>1. m \in Key /\ m # NativeMint
    BY TokenAssumption, Zenon
  <2>2. Balances(n, m) = Balances(l, m)
    BY <1>8, BalancesSame, Zenon
  <2>3. CASE m = k
    <3>1. ASSUME NEW j \in Key, IsAccount(l, j), l[j].data.mint = m
          PROVE  FALSE
      <4>1. ~IsNative(l[j].data)
        BY <1>1, <2>1, <3>1, Zenon DEF AllSound, Sound, TokenOk, IsAccount
      <4> QED
        BY <1>1, <1>4, <2>3, <3>1, <4>1, Zenon DEF MintsExist
    <3>2. Balances(l, m) = 0
      BY <3>1, BalancesNone, Zenon DEF Held
    <3>3. n[m].data.supply = 0
      BY <1>3, <2>3, Zenon DEF IsMint
    <3> QED
      BY <2>2, <3>2, <3>3, Zenon
  <2>4. CASE m # k
    BY <1>1, <1>2, <2>1, <2>2, <2>4, Zenon DEF SupplyIs, IsMint
  <2> QED
    BY <2>3, <2>4, Zenon
<1>10. LedgerInv(n)
  BY <1>2, <1>5, <1>6, <1>7, <1>9, LedgerStep, Zenon
<1>11. Kept(l, n)
  <2>1. KeptAt(l, n, k)
    BY <1>4, Zenon DEF KeptAt
  <2> QED
    BY <1>1, <1>2, <2>1, KeptStep, Zenon
<1> QED
  BY <1>10, <1>11, Zenon DEF n

(* Moving lamports, and dropping accounts that are neither mints nor token *)
(* accounts with a balance of tokens.                                      *)
LEMMA LamportsOnly ==
    ASSUME NEW l, LedgerInv(l), NEW n \in TokenLedger,
           \A k \in Key : Sound(n[k]),
           \A k \in Key : \/ n[k].data = l[k].data
                          \/ /\ n[k].data = Zeroed
                             /\ ~IsMint(l, k)
                             /\ IsAccount(l, k) => \/ IsNative(l[k].data)
                                                   \/ l[k].data.amount = 0
    PROVE  LedgerInv(n) /\ Kept(l, n)
<1>1. l \in TokenLedger /\ AllSound(l) /\ MintsExist(l) /\ SupplyIs(l)
  BY Zenon DEF LedgerInv
<1>2. \A k \in Key : IsMint(l, k) => n[k].data = l[k].data
  BY Zenon
<1>3. \A k \in Key : IsAccount(n, k) \/ IsMint(n, k) => n[k].data = l[k].data
  BY DEF IsAccount, IsMint, Zeroed
<1>4. ASSUME NEW k \in Key, IsAccount(n, k), ~IsNative(n[k].data)
      PROVE  IsMint(l, n[k].data.mint)
  <2>1. IsAccount(l, k) /\ n[k].data = l[k].data
    BY <1>3, <1>4, Zenon DEF IsAccount
  <2> QED
    BY <1>1, <1>4, <2>1, Zenon DEF MintsExist
<1>5. ASSUME NEW m \in Mints, NEW k \in Key
      PROVE  Held(n, m, k) = Held(l, m, k)
  <2>1. CASE n[k].data = l[k].data
    BY <2>1, Zenon DEF Held, IsAccount
  <2>2. CASE n[k].data # l[k].data
    <3>1. ~IsAccount(n, k)
      BY <1>3, <2>2, Zenon
    <3>2. IsAccount(l, k) /\ l[k].data.mint = m => l[k].data.amount = 0
      <4>1. m # NativeMint
        BY TokenAssumption, Zenon
      <4>2. IsAccount(l, k) /\ IsNative(l[k].data) => l[k].data.mint = NativeMint
        BY <1>1, Zenon DEF AllSound, Sound, TokenOk, IsAccount
      <4> QED
        BY <2>2, <4>1, <4>2, Zenon
    <3> QED
      BY <3>1, <3>2, Zenon DEF Held
  <2> QED
    BY <2>1, <2>2, Zenon
<1>6. SupplyIs(n)
  <2> SUFFICES ASSUME NEW m \in Mints, IsMint(n, m)
               PROVE  n[m].data.supply = Balances(n, m)
    BY Zenon DEF SupplyIs
  <2>1. m \in Key /\ n[m].data = l[m].data
    BY <1>3, TokenAssumption, Zenon
  <2>2. Balances(n, m) = Balances(l, m)
    BY <1>5, BalancesSame, Zenon
  <2> QED
    BY <1>1, <2>1, <2>2, Zenon DEF SupplyIs, IsMint
<1>7. LedgerInv(n)
  BY <1>2, <1>4, <1>6, LedgerStep DEF IsMint
<1>8. Kept(l, n)
  <2>1. ASSUME NEW k \in Key, n[k].data # l[k].data
        PROVE  KeptAt(l, n, k)
    <3>1. n[k].data = Zeroed /\ ~IsMint(l, k)
      BY <2>1, Zenon
    <3>2. IsAccount(l, k) /\ l[k].data.frozen => l[k].data.amount = 0
      BY <1>1, <2>1, Zenon DEF AllSound, Sound, TokenOk, IsAccount
    <3> QED
      BY <3>1, <3>2, Zenon DEF KeptAt
  <2> QED
    BY <1>1, <2>1, KeptStep, Zenon
<1> QED
  BY <1>7, <1>8, Zenon

-----------------------------------------------------------------------------
(* Writing two accounts *)

(* Tokens made or burned (process_mint_to, process_burn): the balance of   *)
(* the account and the supply of its mint change by the same amount.       *)
LEMMA SupplyChanged ==
    ASSUME NEW l, LedgerInv(l), NEW k \in Key, NEW m \in Mints,
           IsAccount(l, k), IsMint(l, m), l[k].data.mint = m,
           ~IsNative(l[k].data), ~l[k].data.frozen,
           NEW d \in TokenRecord, NEW e \in MintRecord,
           d.mint = m, ~IsNative(d), TokenOk(d, l[k].lamports),
           d.amount + l[m].data.supply = l[k].data.amount + e.supply,
           l[m].data.mint_authority = None =>
               e.mint_authority = None /\ e.supply <= l[m].data.supply
    PROVE  LET n == SetData(SetData(l, k, d), m, e)
           IN  /\ LedgerInv(n) /\ Kept(l, n)
               /\ n[k].data = d /\ n[m].data = e
               /\ \A j \in Key \ {k, m} : n[j] = l[j]
<1> DEFINE p == SetData(l, k, d)
           n == SetData(p, m, e)
<1>1. l \in TokenLedger /\ AllSound(l) /\ MintsExist(l) /\ SupplyIs(l)
  BY Zenon DEF LedgerInv
<1>2. /\ d \in TokenDatum /\ d.kind = "account" /\ d.amount \in Nat
      /\ e \in TokenDatum /\ e.kind = "mint" /\ e.supply \in Nat
  BY TokenFields, RentAssumption DEF TokenDatum, MintRecord, U64
<1>3. m \in Key /\ m # k
  BY TokenAssumption, Zenon DEF IsAccount, IsMint
<1>4. /\ p \in TokenLedger
      /\ p[k] = [lamports |-> l[k].lamports, owner |-> l[k].owner,
                 space |-> l[k].space, data |-> d]
      /\ \A j \in Key \ {k} : p[j] = l[j]
  BY <1>1, <1>2, SetDataFields DEF TokenLedger
<1> HIDE DEF p
<1>5. /\ n \in TokenLedger
      /\ n[m] = [lamports |-> p[m].lamports, owner |-> p[m].owner,
                 space |-> p[m].space, data |-> e]
      /\ \A j \in Key \ {m} : n[j] = p[j]
  BY <1>2, <1>3, <1>4, SetDataFields DEF TokenLedger
<1> HIDE DEF n
<1>6. /\ n[k].lamports = l[k].lamports /\ n[k].owner = l[k].owner /\ n[k].data = d
      /\ n[m].lamports = l[m].lamports /\ n[m].owner = l[m].owner /\ n[m].data = e
      /\ \A j \in Key \ {k, m} : n[j] = l[j]
  BY <1>3, <1>4, <1>5
<1>7. \A j \in Key : Sound(n[j])
  <2>1. /\ l[k].owner = Program /\ Sound(l[k]) /\ l[k].data.kind = "account"
        /\ l[m].owner = Program /\ Sound(l[m]) /\ l[m].data.kind = "mint"
    BY <1>1, <1>3, OwnedByProgram, Zenon DEF AllSound, IsAccount, IsMint
  <2>2. Sound(n[k])
    BY <1>2, <1>6, <2>1, Zenon DEF Sound
  <2>3. Sound(n[m])
    BY <1>2, <1>6, <2>1, Zenon DEF Sound
  <2> QED
    BY <1>1, <1>6, <2>2, <2>3, Zenon DEF AllSound
<1>8. \A j \in Key : IsMint(l, j) <=> IsMint(n, j)
  BY <1>2, <1>6, Zenon DEF IsMint, IsAccount
<1>9. ASSUME NEW j \in Key, IsAccount(n, j), ~IsNative(n[j].data)
      PROVE  IsMint(l, n[j].data.mint)
  <2>1. CASE j = k
    BY <1>6, <2>1, Zenon
  <2>2. CASE j = m
    BY <1>2, <1>6, <1>9, <2>2, Zenon DEF IsAccount
  <2>3. CASE j # k /\ j # m
    BY <1>1, <1>6, <1>9, <2>3, Zenon DEF IsAccount, MintsExist
  <2> QED
    BY <2>1, <2>2, <2>3, Zenon
<1>10. ASSUME NEW x
       PROVE  Balances(n, x) + Held(l, x, k) = Balances(l, x) + Held(n, x, k)
  <2>1. \A j \in Key \ {k} : Held(n, x, j) = Held(p, x, j)
    <3>1. ~IsAccount(n, m) /\ ~IsAccount(p, m)
      BY <1>2, <1>3, <1>4, <1>6, Zenon DEF IsAccount, IsMint
    <3> QED
      BY <1>5, <3>1, Zenon DEF Held, IsAccount
  <2>2. Held(n, x, k) = Held(p, x, k)
    BY <1>3, <1>5, Zenon DEF Held, IsAccount
  <2>3. Balances(n, x) = Balances(p, x)
    BY <2>1, <2>2, BalancesSame
  <2>4. \A j \in Key \ {k} : p[j].data = l[j].data
    BY <1>4, Zenon
  <2>5. Balances(p, x) + Held(l, x, k) = Balances(l, x) + Held(p, x, k)
    BY <1>1, <1>4, <2>4, BalancesChange, Zenon
  <2> QED
    BY <2>2, <2>3, <2>5, Zenon
<1>11. SupplyIs(n)
  <2> SUFFICES ASSUME NEW x \in Mints, IsMint(n, x)
               PROVE  n[x].data.supply = Balances(n, x)
    BY Zenon DEF SupplyIs
  <2>1. x \in Key /\ IsMint(l, x) /\ x # k
    BY <1>2, <1>6, <1>8, TokenAssumption, Zenon DEF IsMint
  <2>2. l[x].data.supply = Balances(l, x)
    BY <1>1, <2>1, Zenon DEF SupplyIs
  <2>3. /\ Balances(n, x) + Held(l, x, k) = Balances(l, x) + Held(n, x, k)
        /\ Balances(n, x) \in Nat /\ Balances(l, x) \in Nat
        /\ Held(l, x, k) \in Nat /\ Held(n, x, k) \in Nat
    BY <1>1, <1>5, <1>10, BalancesBound, HeldType, Zenon
  <2>4. CASE x = m
    <3>1. Held(l, x, k) = l[k].data.amount /\ Held(n, x, k) = d.amount
      BY <1>2, <1>6, <2>4, Zenon DEF Held, IsAccount
    <3>2. d.amount + l[m].data.supply = l[k].data.amount + e.supply
      BY Zenon
    <3>3. n[x].data.supply = e.supply /\ e.supply \in Nat
      BY <1>2, <1>6, <2>4, Zenon
    <3> QED
      BY <2>2, <2>3, <2>4, <3>1, <3>2, <3>3
  <2>5. CASE x # m
    <3>1. Held(l, x, k) = 0 /\ Held(n, x, k) = 0
      BY <1>6, <2>5, Zenon DEF Held
    <3>2. n[x].data.supply = l[x].data.supply
      BY <1>6, <2>1, <2>5, Zenon
    <3> QED
      BY <2>2, <2>3, <3>1, <3>2
  <2> QED
    BY <2>4, <2>5, Zenon
<1>12. LedgerInv(n)
  BY <1>5, <1>7, <1>8, <1>9, <1>11, LedgerStep, Zenon
<1>13. Kept(l, n)
  <2>1. KeptAt(l, n, k)
    BY Zenon DEF KeptAt, IsMint, IsAccount
  <2>2. KeptAt(l, n, m)
    BY <1>2, <1>6, Zenon DEF KeptAt, IsMint, IsAccount
  <2> QED
    BY <1>1, <1>6, <2>1, <2>2, KeptStep, Zenon
<1> QED
  BY <1>6, <1>12, <1>13, Zenon DEF n, p

(* The ledger that process_transfer leaves, when it moves tokens from one  *)
(* account to another.                                                     *)
LEMMA TransferPostFields ==
    ASSUME NEW l \in TokenLedger, NEW from \in Key, NEW to \in Key, from # to, NEW auth,
           NEW S, NEW x \in U64, ProcessTransferOk(l, from, to, auth, S, x)
    PROVE  LET n == ProcessTransferPost(l, from, to, auth, x)
               d == Spent(l[from].data, auth, x)
               e == [l[to].data EXCEPT !.amount = @ + x]
           IN  /\ n \in TokenLedger
               /\ d \in TokenRecord /\ e \in TokenRecord
               /\ \A k \in Key : n[k].owner = l[k].owner /\ n[k].space = l[k].space
               /\ n[from].data = d /\ n[to].data = e
               /\ \A k \in Key \ {from, to} : n[k] = l[k]
               /\ IsNative(l[from].data) => /\ n[from].lamports = l[from].lamports - x
                                            /\ n[to].lamports = l[to].lamports + x
               /\ ~IsNative(l[from].data) => /\ n[from].lamports = l[from].lamports
                                             /\ n[to].lamports = l[to].lamports
<1> DEFINE d == Spent(l[from].data, auth, x)
           e == [l[to].data EXCEPT !.amount = @ + x]
           q == IF IsNative(l[from].data) THEN MoveLamports(l, from, to, x) ELSE l
           p == SetData(q, from, d)
           n == SetData(p, to, e)
<1>1. l[from].data \in TokenRecord /\ l[to].data \in TokenRecord
  BY LedgerFields, Zenon DEF ProcessTransferOk
<1>2. x \in Nat
  BY RentAssumption DEF U64
<1>3. d \in TokenRecord
  <2>1. l[from].data.delegate = auth => x <= l[from].data.delegated_amount
    BY Zenon DEF ProcessTransferOk, MaySpend
  <2>2. x <= l[from].data.amount
    BY Zenon DEF ProcessTransferOk
  <2> QED
    BY <1>1, <1>2, <2>1, <2>2, SpentFields, Zenon
<1>4. e \in TokenRecord
  <2>1. l[to].data.amount + x \in U64
    BY <1>1, <1>2, TokenFields, RentAssumption DEF ProcessTransferOk, U64
  <2> QED
    BY <1>1, <2>1 DEF TokenRecord
<1>5. d \in TokenDatum /\ e \in TokenDatum
  BY <1>3, <1>4, Zenon DEF TokenDatum
<1>6. ProcessTransferPost(l, from, to, auth, x) = n
  BY Zenon DEF ProcessTransferPost
<1> HIDE DEF d, e
<1>7. /\ q \in TokenLedger
      /\ \A k \in Key : q[k].owner = l[k].owner /\ q[k].space = l[k].space
      /\ \A k \in Key \ {from, to} : q[k] = l[k]
      /\ IsNative(l[from].data) => /\ q[from].lamports = l[from].lamports - x
                                   /\ q[to].lamports = l[to].lamports + x
      /\ ~IsNative(l[from].data) => /\ q[from].lamports = l[from].lamports
                                    /\ q[to].lamports = l[to].lamports
  <2>1. CASE IsNative(l[from].data)
    <3> DEFINE r == MoveLamports(l, from, to, x)
    <3>1. q = r
      BY <2>1, Zenon
    <3>2. /\ r \in TokenLedger
          /\ \A k \in Key : r[k].owner = l[k].owner /\ r[k].space = l[k].space
          /\ \A k \in Key \ {from, to} : r[k] = l[k]
          /\ r[from].lamports = WrapSub(l[from].lamports, x)
          /\ r[to].lamports = WrapAdd(l[to].lamports, x)
      BY MoveLamportsFields DEF TokenLedger
    <3>3. x <= l[from].lamports /\ l[to].lamports + x <= U64Max
      BY <2>1, Zenon DEF ProcessTransferOk
    <3>4. /\ WrapSub(l[from].lamports, x) = l[from].lamports - x
          /\ WrapAdd(l[to].lamports, x) = l[to].lamports + x
      BY <1>2, <3>3, LedgerFields, Zenon DEF WrapSub, WrapAdd
    <3> QED
      BY <2>1, <3>1, <3>2, <3>4, Zenon
  <2>2. CASE ~IsNative(l[from].data)
    BY <2>2, Zenon
  <2> QED
    BY <2>1, <2>2, Zenon
<1> HIDE DEF q
<1>8. /\ p \in TokenLedger
      /\ p[from] = [lamports |-> q[from].lamports, owner |-> q[from].owner,
                    space |-> q[from].space, data |-> d]
      /\ \A j \in Key \ {from} : p[j] = q[j]
      /\ \A j \in Key : /\ p[j].lamports = q[j].lamports
                        /\ p[j].owner = q[j].owner
                        /\ p[j].space = q[j].space
  BY <1>5, <1>7, SetDataFields DEF TokenLedger
<1> HIDE DEF p
<1>9. /\ n \in TokenLedger
      /\ n[to] = [lamports |-> p[to].lamports, owner |-> p[to].owner,
                  space |-> p[to].space, data |-> e]
      /\ \A j \in Key \ {to} : n[j] = p[j]
      /\ \A j \in Key : /\ n[j].lamports = p[j].lamports
                        /\ n[j].owner = p[j].owner
                        /\ n[j].space = p[j].space
  BY <1>5, <1>8, SetDataFields DEF TokenLedger
<1> HIDE DEF n
<1>10. n[from].data = d /\ n[to].data = e
  BY <1>8, <1>9
<1>11. \A k \in Key \ {from, to} : n[k] = l[k]
  BY <1>7, <1>8, <1>9, Zenon
<1>12. \A k \in Key : n[k].owner = l[k].owner /\ n[k].space = l[k].space
  BY <1>7, <1>8, <1>9, Zenon
<1>13. n[from].lamports = q[from].lamports /\ n[to].lamports = q[to].lamports
  BY <1>8, <1>9, Zenon
<1> QED
  BY <1>3, <1>4, <1>6, <1>7, <1>9, <1>10, <1>11, <1>12, <1>13, Zenon DEF d, e

(* process_transfer moves tokens and, for wrapped lamports, as many        *)
(* lamports; no mint has more or fewer tokens afterwards.                  *)
LEMMA TransferKeeps ==
    ASSUME NEW l, LedgerInv(l), NEW from \in Key, NEW to \in Key, NEW auth, NEW S,
           NEW x \in U64, ProcessTransferOk(l, from, to, auth, S, x)
    PROVE  LET n == ProcessTransferPost(l, from, to, auth, x)
           IN  LedgerInv(n) /\ Kept(l, n)
<1> DEFINE n == ProcessTransferPost(l, from, to, auth, x)
<1>1. l \in TokenLedger /\ AllSound(l) /\ MintsExist(l) /\ SupplyIs(l)
  BY Zenon DEF LedgerInv
<1>2. CASE from = to
  <2>1. n = l
    BY <1>2, Zenon DEF ProcessTransferPost
  <2> QED
    BY <1>1, <2>1, KeptStep, Zenon
<1>3. CASE from # to
  <2> DEFINE d == Spent(l[from].data, auth, x)
             e == [l[to].data EXCEPT !.amount = @ + x]
             p == SetData(l, from, d)
  <2>1. /\ l[from].data \in TokenRecord /\ l[to].data \in TokenRecord
        /\ l[from].data.kind = "account" /\ l[to].data.kind = "account"
        /\ l[from].data.mint = l[to].data.mint
        /\ ~l[from].data.frozen /\ ~l[to].data.frozen
        /\ x <= l[from].data.amount
        /\ l[from].data.delegate = auth => x <= l[from].data.delegated_amount
    BY <1>1, LedgerFields, Zenon DEF ProcessTransferOk, MaySpend, IsAccount
  <2>2. x \in Nat /\ l[from].data.amount \in Nat /\ l[to].data.amount \in Nat
    BY <2>1, TokenFields, RentAssumption DEF U64
  <2>3. /\ n \in TokenLedger
        /\ d \in TokenRecord /\ e \in TokenRecord
        /\ \A k \in Key : n[k].owner = l[k].owner /\ n[k].space = l[k].space
        /\ n[from].data = d /\ n[to].data = e
        /\ \A k \in Key \ {from, to} : n[k] = l[k]
        /\ IsNative(l[from].data) => /\ n[from].lamports = l[from].lamports - x
                                     /\ n[to].lamports = l[to].lamports + x
        /\ ~IsNative(l[from].data) => /\ n[from].lamports = l[from].lamports
                                      /\ n[to].lamports = l[to].lamports
    BY <1>1, <1>3, TransferPostFields
  <2>4. /\ d.mint = l[from].data.mint /\ d.owner = l[from].data.owner
        /\ d.amount = l[from].data.amount - x
        /\ d.is_native = l[from].data.is_native /\ d.frozen = l[from].data.frozen
        /\ \/ d.delegate = None
           \/ /\ d.delegate = l[from].data.delegate /\ d.approver = l[from].data.approver
              /\ d.granted = l[from].data.granted
              /\ d.drawn + d.delegated_amount =
                     l[from].data.drawn + l[from].data.delegated_amount
    BY <2>1, <2>2, SpentFields
  <2>5. /\ e.mint = l[to].data.mint /\ e.owner = l[to].data.owner
        /\ e.amount = l[to].data.amount + x
        /\ e.is_native = l[to].data.is_native /\ e.frozen = l[to].data.frozen
        /\ e.delegate = l[to].data.delegate /\ e.approver = l[to].data.approver
        /\ e.granted = l[to].data.granted /\ e.drawn = l[to].data.drawn
        /\ e.delegated_amount = l[to].data.delegated_amount
    BY <2>1, Zenon DEF TokenRecord
  <2>6. d.kind = "account" /\ e.kind = "account"
    BY <2>3, TokenFields, Zenon
  <2> HIDE DEF n, d, e
  <2>7. /\ Sound(l[from]) /\ TokenOk(l[from].data, l[from].lamports)
        /\ Sound(l[to]) /\ TokenOk(l[to].data, l[to].lamports)
        /\ l[from].owner = Program /\ l[to].owner = Program
        /\ l[from].lamports >= MinimumBalance(ACCOUNT_LEN)
        /\ l[to].lamports >= MinimumBalance(ACCOUNT_LEN)
    BY <1>1, <2>1, OwnedByProgram, Zenon DEF AllSound, Sound, IsAccount
  <2>8. IsNative(l[from].data) <=> IsNative(l[to].data)
    BY <2>1, <2>7, TokenAssumption, Zenon DEF TokenOk
  <2>9. /\ MinimumBalance(ACCOUNT_LEN) \in Nat
        /\ l[from].lamports \in Nat /\ l[to].lamports \in Nat
    BY <1>1, LedgerFields, MinimumBalanceType DEF ACCOUNT_LEN
  <2>10. TokenOk(d, n[from].lamports) /\ n[from].lamports >= MinimumBalance(ACCOUNT_LEN)
    <3>1. CASE IsNative(l[from].data)
      <4>1. /\ d.amount + d.is_native <= n[from].lamports
            /\ n[from].lamports >= MinimumBalance(ACCOUNT_LEN)
        <5>1. /\ l[from].data.is_native = MinimumBalance(ACCOUNT_LEN)
              /\ l[from].data.amount + l[from].data.is_native <= l[from].lamports
          BY <2>7, <3>1, Zenon DEF TokenOk
        <5> QED
          BY <2>1, <2>2, <2>3, <2>4, <2>9, <3>1, <5>1
      <4> QED
        BY <2>4, <2>7, <3>1, <4>1, Zenon DEF TokenOk, IsNative
    <3>2. CASE ~IsNative(l[from].data)
      BY <2>3, <2>4, <2>7, <3>2, Zenon DEF TokenOk, IsNative
    <3> QED
      BY <3>1, <3>2, Zenon
  <2>11. TokenOk(e, n[to].lamports) /\ n[to].lamports >= MinimumBalance(ACCOUNT_LEN)
    <3>1. CASE IsNative(l[from].data)
      <4>1. /\ e.amount + e.is_native <= n[to].lamports
            /\ n[to].lamports >= MinimumBalance(ACCOUNT_LEN)
        <5>1. /\ l[to].data.is_native = MinimumBalance(ACCOUNT_LEN)
              /\ l[to].data.amount + l[to].data.is_native <= l[to].lamports
          BY <2>7, <2>8, <3>1, Zenon DEF TokenOk
        <5> QED
          BY <2>2, <2>3, <2>5, <2>9, <3>1, <5>1
      <4> QED
        BY <2>5, <2>7, <2>8, <3>1, <4>1, Zenon DEF TokenOk, IsNative
    <3>2. CASE ~IsNative(l[from].data)
      BY <2>3, <2>5, <2>7, <2>8, <3>2, Zenon DEF TokenOk, IsNative
    <3> QED
      BY <3>1, <3>2, Zenon
  <2>12. \A k \in Key : Sound(n[k])
    <3>1. Sound(n[from]) /\ Sound(n[to])
      BY <2>3, <2>6, <2>7, <2>10, <2>11, Zenon DEF Sound
    <3> QED
      BY <1>1, <2>3, <3>1, Zenon DEF AllSound
  <2>13. \A k \in Key : IsMint(l, k) <=> IsMint(n, k)
    BY <2>1, <2>3, <2>6, Zenon DEF IsMint
  <2>14. ASSUME NEW k \in Key, IsAccount(n, k), ~IsNative(n[k].data)
         PROVE  IsMint(l, n[k].data.mint)
    <3>1. /\ IsAccount(l, k) /\ ~IsNative(l[k].data)
          /\ n[k].data.mint = l[k].data.mint
      BY <2>1, <2>3, <2>4, <2>5, <2>14 DEF IsAccount, IsNative
    <3> QED
      BY <1>1, <3>1, Zenon DEF MintsExist
  <2>15. ASSUME NEW m
         PROVE  Balances(n, m) = Balances(l, m)
    <3>1. d \in TokenDatum
      BY <2>3, Zenon DEF TokenDatum
    <3>2. /\ p \in TokenLedger
          /\ p[from] = [lamports |-> l[from].lamports, owner |-> l[from].owner,
                        space |-> l[from].space, data |-> d]
          /\ \A j \in Key \ {from} : p[j] = l[j]
      BY <1>1, <3>1, SetDataFields DEF TokenLedger
    <3> HIDE DEF p
    <3>3. Balances(p, m) + Held(l, m, from) = Balances(l, m) + Held(p, m, from)
      BY <1>1, <3>2, BalancesChange
    <3>4. \A j \in Key \ {to} : n[j].data = p[j].data
      <4>1. n[from].data = d /\ p[from].data = d
        BY <2>3, <3>2
      <4>2. \A j \in Key \ {from, to} : n[j] = l[j] /\ p[j] = l[j]
        BY <2>3, <3>2, Zenon
      <4> QED
        BY <4>1, <4>2, Zenon
    <3>5. Balances(n, m) + Held(p, m, to) = Balances(p, m) + Held(n, m, to)
      BY <2>3, <3>2, <3>4, BalancesChange, Zenon
    <3>6. /\ Balances(n, m) \in Nat /\ Balances(p, m) \in Nat /\ Balances(l, m) \in Nat
      BY <1>1, <2>3, <3>2, BalancesBound, Zenon
    <3>7. p[from].data = d /\ p[to].data = l[to].data
      BY <1>3, <3>2
    <3>8. CASE l[from].data.mint = m
      <4>1. /\ Held(l, m, from) = l[from].data.amount
            /\ Held(p, m, from) = l[from].data.amount - x
            /\ Held(p, m, to) = l[to].data.amount
            /\ Held(n, m, to) = l[to].data.amount + x
        BY <2>1, <2>3, <2>4, <2>5, <2>6, <3>7, <3>8, Zenon DEF Held, IsAccount
      <4> QED
        BY <2>1, <2>2, <3>3, <3>5, <3>6, <4>1
    <3>9. CASE l[from].data.mint # m
      <4>1. /\ Held(l, m, from) = 0 /\ Held(p, m, from) = 0
            /\ Held(p, m, to) = 0 /\ Held(n, m, to) = 0
        BY <2>1, <2>3, <2>4, <2>5, <2>6, <3>7, <3>9 DEF Held, IsAccount
      <4> QED
        BY <3>3, <3>5, <3>6, <4>1, SMTT(30)
    <3> QED
      BY <3>8, <3>9, Zenon
  <2>16. SupplyIs(n)
    <3> SUFFICES ASSUME NEW m \in Mints, IsMint(n, m)
                 PROVE  n[m].data.supply = Balances(n, m)
      BY Zenon DEF SupplyIs
    <3>1. m \in Key /\ IsMint(l, m) /\ n[m] = l[m]
      BY <2>3, <2>6, <2>13, TokenAssumption, Zenon DEF IsMint
    <3> QED
      BY <1>1, <2>15, <3>1, Zenon DEF SupplyIs
  <2>17. LedgerInv(n)
    BY <2>3, <2>12, <2>13, <2>14, <2>16, LedgerStep, Zenon
  <2>18. Kept(l, n)
    <3>1. KeptAt(l, n, from) /\ KeptAt(l, n, to)
      BY <2>1, Zenon DEF KeptAt, IsMint
    <3> QED
      BY <1>1, <2>3, <3>1, KeptStep
  <2> QED
    BY <2>17, <2>18, Zenon DEF n
<1> QED
  BY <1>2, <1>3, Zenon

-----------------------------------------------------------------------------
(* The instructions *)

(* The amounts of rent are what unpack and the rent checks compare. *)
LEMMA Minimums ==
    /\ MinimumBalance(ACCOUNT_LEN) \in Nat /\ MinimumBalance(ACCOUNT_LEN) > 0
    /\ MinimumBalance(MINT_LEN) \in Nat /\ MinimumBalance(MINT_LEN) > 0
<1>1. ACCOUNT_LEN \in Nat /\ MINT_LEN \in Nat
  BY DEF ACCOUNT_LEN, MINT_LEN
<1> QED
  BY <1>1, MinimumBalanceType, Zenon

(* process_initialize_mint makes a mint without supply. *)
LEMMA InitializeMintKeeps ==
    ASSUME NEW l, LedgerInv(l), NEW k \in Key, l[k].owner = Program, Unused(l, k, MINT_LEN),
           NEW a \in Officers, NEW f \in Officers \cup {None}
    PROVE  LET n == InitializeMintPost(l, k, a, f)
           IN  LedgerInv(n) /\ Kept(l, n)
<1> DEFINE d == MintData(a, 0, f)
<1>1. l \in TokenLedger /\ AllSound(l)
  BY Zenon DEF LedgerInv
<1>2. /\ l[k].data = Zeroed
      /\ l[k].lamports >= MinimumBalance(MINT_LEN)
  BY DEF Unused, IsExempt, MINT_LEN
<1>3. d \in TokenDatum /\ d.kind = "mint" /\ d.supply = 0
  BY RentAssumption DEF MintData, TokenDatum, MintRecord, U64
<1> HIDE DEF d
<1>4. LedgerInv(SetData(l, k, d)) /\ Kept(l, SetData(l, k, d))
  BY <1>2, <1>3, RecordOpened, Zenon
<1> QED
  BY <1>4, Zenon DEF InitializeMintPost, d

(* process_initialize_account makes an empty account, or one that holds    *)
(* the lamports above the reserve.                                         *)
LEMMA InitializeAccountKeeps ==
    ASSUME NEW l, LedgerInv(l), NEW k \in Key, l[k].owner = Program, NEW m \in Mints \cup {NativeMint},
           InitializeAccountOk(l, k, m), NEW o \in Key
    PROVE  LET n == InitializeAccountPost(l, k, m, o)
           IN  LedgerInv(n) /\ Kept(l, n)
<1> DEFINE d == IF m = NativeMint
                THEN TokenData(m, o, l[k].lamports - MinimumBalance(ACCOUNT_LEN),
                               MinimumBalance(ACCOUNT_LEN))
                ELSE TokenData(m, o, 0, None)
<1>1. l \in TokenLedger /\ AllSound(l)
  BY Zenon DEF LedgerInv
<1>2. /\ l[k].data = Zeroed
      /\ l[k].lamports >= MinimumBalance(ACCOUNT_LEN)
  BY DEF InitializeAccountOk, Unused, IsExempt, ACCOUNT_LEN
<1>3. /\ l[k].lamports - MinimumBalance(ACCOUNT_LEN) \in U64
      /\ MinimumBalance(ACCOUNT_LEN) \in U64 /\ 0 \in U64
      /\ l[k].lamports - MinimumBalance(ACCOUNT_LEN) + MinimumBalance(ACCOUNT_LEN)
             <= l[k].lamports
  BY <1>1, <1>2, LedgerFields, Minimums, RentAssumption DEF U64
<1>4. CASE m = NativeMint
  <2>1. d = TokenData(m, o, l[k].lamports - MinimumBalance(ACCOUNT_LEN),
                      MinimumBalance(ACCOUNT_LEN))
    BY <1>4, Zenon
  <2>2. MinimumBalance(ACCOUNT_LEN) # None
    BY Minimums, TokenAssumption, Zenon
  <2> HIDE DEF d
  <2>3. d \in TokenRecord
    BY <1>3, <2>1, Zenon DEF TokenData, TokenRecord
  <2>4. d.kind = "account" /\ IsNative(d) /\ TokenOk(d, l[k].lamports)
    BY <1>3, <1>4, <2>1, <2>2, Zenon DEF TokenData, TokenOk, IsNative
  <2>5. d \in TokenDatum
    BY <2>3, Zenon DEF TokenDatum
  <2>6. LedgerInv(SetData(l, k, d)) /\ Kept(l, SetData(l, k, d))
    BY <1>2, <2>4, <2>5, RecordOpened, Zenon
  <2> QED
    BY <2>6, Zenon DEF InitializeAccountPost, d
<1>5. CASE m # NativeMint
  <2>1. d = TokenData(m, o, 0, None)
    BY <1>5, Zenon
  <2> HIDE DEF d
  <2>2. d \in TokenRecord
    BY <1>3, <2>1, Zenon DEF TokenData, TokenRecord
  <2>3. /\ d.kind = "account" /\ ~IsNative(d) /\ d.amount = 0
        /\ TokenOk(d, l[k].lamports) /\ d.mint = m
    BY <1>5, <2>1, Zenon DEF TokenData, TokenOk, IsNative
  <2>4. d \in TokenDatum /\ IsMint(l, m)
    BY <1>5, <2>2, Zenon DEF TokenDatum, InitializeAccountOk
  <2>5. LedgerInv(SetData(l, k, d)) /\ Kept(l, SetData(l, k, d))
    BY <1>2, <2>3, <2>4, RecordOpened, Zenon
  <2> QED
    BY <2>5, Zenon DEF InitializeAccountPost, d
<1> QED
  BY <1>4, <1>5, Zenon

(* process_initialize_multisig makes an account without tokens. *)
LEMMA InitializeMultisigKeeps ==
    ASSUME NEW l, LedgerInv(l), NEW k \in Key, l[k].owner = Program, NEW m, NEW s \in SignerLists,
           InitializeMultisigOk(l, k, m, s)
    PROVE  LET n == SetData(l, k, MultisigData(m, s))
           IN  LedgerInv(n) /\ Kept(l, n)
<1> DEFINE d == MultisigData(m, s)
<1>1. l \in TokenLedger /\ AllSound(l)
  BY Zenon DEF LedgerInv
<1>2. l[k].data = Zeroed /\ m \in 1..MAX_SIGNERS
  BY DEF InitializeMultisigOk, Unused, MULTISIG_LEN
<1>3. d \in TokenDatum /\ d.kind = "multisig"
  BY <1>2, Zenon DEF MultisigData, TokenDatum, MultisigRecord
<1> HIDE DEF d
<1>4. LedgerInv(SetData(l, k, d)) /\ Kept(l, SetData(l, k, d))
  BY <1>2, <1>3, RecordOpened, Zenon
<1> QED
  BY <1>4, Zenon DEF d

(* process_approve: the delegation is a new one, by the present owner. *)
LEMMA ApproveKeeps ==
    ASSUME NEW l, LedgerInv(l), NEW k \in Key, NEW auth, NEW S,
           OwnerActsOk(l, k, auth, S), NEW g \in Delegates, NEW x \in U64
    PROVE  LET n == ProcessApprovePost(l, k, g, x)
           IN  LedgerInv(n) /\ Kept(l, n)
<1> DEFINE o == l[k].data
           d == [o EXCEPT !.delegate = g, !.delegated_amount = x,
                          !.approver = o.owner, !.granted = x, !.drawn = 0]
<1>1. /\ IsAccount(l, k) /\ ~o.frozen /\ o \in TokenRecord
      /\ TokenOk(o, l[k].lamports)
  BY LedgerFields, Zenon DEF LedgerInv, AllSound, Sound, OwnerActsOk, IsAccount
<1>2. 0 + x = x /\ 0 \in Nat
  BY RentAssumption DEF U64
<1>3. /\ d \in TokenRecord
      /\ d.mint = o.mint /\ d.is_native = o.is_native /\ d.amount = o.amount
      /\ d.owner = o.owner /\ d.approver = o.owner /\ d.frozen = o.frozen
      /\ d.drawn = 0 /\ d.delegated_amount = x /\ d.granted = x
  BY <1>1, <1>2, Zenon DEF TokenRecord
<1>4. ProcessApprovePost(l, k, g, x) = SetData(l, k, d)
  BY Zenon DEF ProcessApprovePost
<1> HIDE DEF d
<1>5. TokenOk(d, l[k].lamports)
  BY <1>1, <1>2, <1>3, Zenon DEF TokenOk, IsNative
<1> QED
  BY <1>1, <1>3, <1>4, <1>5, AccountWritten, Zenon

(* process_revoke ends the delegation. *)
LEMMA RevokeKeeps ==
    ASSUME NEW l, LedgerInv(l), NEW k \in Key, NEW auth, NEW S, OwnerActsOk(l, k, auth, S)
    PROVE  LET n == ProcessRevokePost(l, k)
           IN  LedgerInv(n) /\ Kept(l, n)
<1> DEFINE o == l[k].data
           d == Undelegated(o)
<1>1. /\ IsAccount(l, k) /\ ~o.frozen /\ o \in TokenRecord
      /\ TokenOk(o, l[k].lamports)
  BY LedgerFields, Zenon DEF LedgerInv, AllSound, Sound, OwnerActsOk, IsAccount
<1>2. /\ d \in TokenRecord
      /\ d.mint = o.mint /\ d.is_native = o.is_native /\ d.amount = o.amount
      /\ d.frozen = o.frozen /\ d.delegate = None
  BY <1>1, UndelegatedFields, Zenon
<1>3. ProcessRevokePost(l, k) = SetData(l, k, d)
  BY Zenon DEF ProcessRevokePost
<1> HIDE DEF d
<1>4. TokenOk(d, l[k].lamports)
  BY <1>1, <1>2, Zenon DEF TokenOk, IsNative
<1> QED
  BY <1>1, <1>2, <1>3, <1>4, AccountWritten, Zenon

(* process_set_authority for the owner ends the delegation too. *)
LEMMA SetOwnerKeeps ==
    ASSUME NEW l, LedgerInv(l), NEW k \in Key, NEW auth, NEW S,
           OwnerActsOk(l, k, auth, S), NEW new \in Key
    PROVE  LET n == SetOwnerPost(l, k, new)
           IN  LedgerInv(n) /\ Kept(l, n)
<1> DEFINE o == l[k].data
           u == Undelegated(o)
           d == [u EXCEPT !.owner = new,
                          !.close_authority = IF IsNative(u) THEN None ELSE @]
<1>1. /\ IsAccount(l, k) /\ ~o.frozen /\ o \in TokenRecord
      /\ TokenOk(o, l[k].lamports)
  BY LedgerFields, Zenon DEF LedgerInv, AllSound, Sound, OwnerActsOk, IsAccount
<1>2. /\ u \in TokenRecord
      /\ u.mint = o.mint /\ u.is_native = o.is_native /\ u.amount = o.amount
      /\ u.frozen = o.frozen /\ u.delegate = None
  BY <1>1, UndelegatedFields, Zenon
<1>3. SetOwnerPost(l, k, new) = SetData(l, k, d)
  BY Zenon DEF SetOwnerPost
<1> HIDE DEF u
<1>4. /\ d \in TokenRecord
      /\ d.mint = u.mint /\ d.is_native = u.is_native /\ d.amount = u.amount
      /\ d.frozen = u.frozen /\ d.delegate = u.delegate
  BY <1>2, ZenonT(40) DEF TokenRecord
<1> HIDE DEF d
<1>5. TokenOk(d, l[k].lamports)
  BY <1>1, <1>2, <1>4, Zenon DEF TokenOk, IsNative
<1> QED
  BY <1>1, <1>2, <1>3, <1>4, <1>5, AccountWritten, Zenon

(* process_set_authority for closing changes who may close the account. *)
LEMMA SetCloseAuthorityKeeps ==
    ASSUME NEW l, LedgerInv(l), NEW k \in Key, NEW auth, NEW S,
           SetCloseAuthorityOk(l, k, auth, S), NEW new \in Officers \cup {None}
    PROVE  LET n == SetCloseAuthorityPost(l, k, new)
           IN  LedgerInv(n) /\ Kept(l, n)
<1> DEFINE o == l[k].data
           d == [o EXCEPT !.close_authority = new]
<1>1. /\ IsAccount(l, k) /\ ~o.frozen /\ o \in TokenRecord
      /\ TokenOk(o, l[k].lamports)
  BY LedgerFields, Zenon DEF LedgerInv, AllSound, Sound, SetCloseAuthorityOk, IsAccount
<1>2. /\ d \in TokenRecord
      /\ d.mint = o.mint /\ d.is_native = o.is_native /\ d.amount = o.amount
      /\ d.frozen = o.frozen /\ d.delegate = o.delegate /\ d.owner = o.owner
      /\ d.approver = o.approver /\ d.granted = o.granted /\ d.drawn = o.drawn
      /\ d.delegated_amount = o.delegated_amount
  BY <1>1, Zenon DEF TokenRecord
<1>3. SetCloseAuthorityPost(l, k, new) = SetData(l, k, d)
  BY Zenon DEF SetCloseAuthorityPost
<1> HIDE DEF d
<1>4. TokenOk(d, l[k].lamports)
  BY <1>1, <1>2, Zenon DEF TokenOk, IsNative
<1> QED
  BY <1>1, <1>2, <1>3, <1>4, AccountWritten, Zenon

(* process_set_authority for minting: only a mint that has an authority. *)
LEMMA SetMintAuthorityKeeps ==
    ASSUME NEW l, LedgerInv(l), NEW k \in Key, NEW auth, NEW S,
           SetMintAuthorityOk(l, k, auth, S), NEW new \in Officers \cup {None}
    PROVE  LET n == SetMintAuthorityPost(l, k, new)
           IN  LedgerInv(n) /\ Kept(l, n)
<1> DEFINE o == l[k].data
           d == [o EXCEPT !.mint_authority = new]
<1>1. IsMint(l, k) /\ o.mint_authority # None /\ o \in MintRecord
  BY LedgerFields, Zenon DEF LedgerInv, SetMintAuthorityOk
<1>2. d \in MintRecord /\ d.supply = o.supply
  BY <1>1, Zenon DEF MintRecord
<1>3. SetMintAuthorityPost(l, k, new) = SetData(l, k, d)
  BY Zenon DEF SetMintAuthorityPost
<1> HIDE DEF d
<1> QED
  BY <1>1, <1>2, <1>3, MintWritten, Zenon

(* process_set_authority for freezing leaves the supply and its authority. *)
LEMMA SetFreezeAuthorityKeeps ==
    ASSUME NEW l, LedgerInv(l), NEW k \in Key, NEW auth, NEW S,
           SetFreezeAuthorityOk(l, k, auth, S), NEW new \in Officers \cup {None}
    PROVE  LET n == SetFreezeAuthorityPost(l, k, new)
           IN  LedgerInv(n) /\ Kept(l, n)
<1> DEFINE o == l[k].data
           d == [o EXCEPT !.freeze_authority = new]
<1>1. IsMint(l, k) /\ o \in MintRecord
  BY LedgerFields, Zenon DEF LedgerInv, SetFreezeAuthorityOk
<1>2. d \in MintRecord /\ d.supply = o.supply /\ d.mint_authority = o.mint_authority
  BY <1>1, Zenon DEF MintRecord
<1>3. SetFreezeAuthorityPost(l, k, new) = SetData(l, k, d)
  BY Zenon DEF SetFreezeAuthorityPost
<1> HIDE DEF d
<1> QED
  BY <1>1, <1>2, <1>3, MintWritten, Zenon

(* process_mint_to adds to an account and to the supply; its conclusions   *)
(* on single accounts serve the proofs about wallets.                      *)
LEMMA MintToKeeps ==
    ASSUME NEW l, LedgerInv(l), NEW k \in Key, NEW m \in Mints, NEW auth, NEW S,
           NEW x \in U64, ProcessMintToOk(l, m, k, auth, S, x)
    PROVE  LET n == ProcessMintToPost(l, m, k, x)
           IN  /\ LedgerInv(n) /\ Kept(l, n)
               /\ n[k].data = [l[k].data EXCEPT !.amount = @ + x]
               /\ \A j \in Key \ {k, m} : n[j] = l[j]
<1> DEFINE o == l[k].data
           q == l[m].data
           d == [o EXCEPT !.amount = @ + x]
           e == [q EXCEPT !.supply = @ + x]
<1>1. /\ IsAccount(l, k) /\ ~o.frozen /\ o \in TokenRecord
      /\ TokenOk(o, l[k].lamports) /\ ~IsNative(o) /\ o.mint = m
  BY LedgerFields, Zenon DEF LedgerInv, AllSound, Sound, ProcessMintToOk, IsAccount
<1>2. IsMint(l, m) /\ q \in MintRecord /\ q.mint_authority # None
  BY LedgerFields, TokenAssumption, Zenon DEF LedgerInv, ProcessMintToOk
<1>3. x \in Nat /\ o.amount \in Nat /\ q.supply \in Nat
  BY <1>1, <1>2, TokenFields, RentAssumption DEF MintRecord, U64
<1>4. o.amount + x \in U64 /\ q.supply + x \in U64
  BY <1>3, RentAssumption DEF ProcessMintToOk, U64
<1>5. /\ d \in TokenRecord
      /\ d.mint = o.mint /\ d.is_native = o.is_native /\ d.amount = o.amount + x
      /\ d.frozen = o.frozen /\ d.delegate = o.delegate /\ d.owner = o.owner
      /\ d.approver = o.approver /\ d.granted = o.granted /\ d.drawn = o.drawn
      /\ d.delegated_amount = o.delegated_amount
  BY <1>1, <1>4, Zenon DEF TokenRecord
<1>6. e \in MintRecord /\ e.supply = q.supply + x
  BY <1>2, <1>4, Zenon DEF MintRecord
<1>7. ProcessMintToPost(l, m, k, x) = SetData(SetData(l, k, d), m, e)
  BY Zenon DEF ProcessMintToPost
<1> HIDE DEF d, e
<1>8. TokenOk(d, l[k].lamports) /\ ~IsNative(d) /\ d.mint = m
  BY <1>1, <1>5, Zenon DEF TokenOk, IsNative
<1>9. d.amount + q.supply = o.amount + e.supply
  BY <1>3, <1>5, <1>6, SMTT(30)
<1>10. LET n == SetData(SetData(l, k, d), m, e)
       IN  /\ LedgerInv(n) /\ Kept(l, n)
           /\ n[k].data = d /\ n[m].data = e
           /\ \A j \in Key \ {k, m} : n[j] = l[j]
  BY <1>1, <1>2, <1>5, <1>6, <1>8, <1>9, SupplyChanged
<1> QED
  BY <1>7, <1>10, Zenon DEF d

(* process_burn takes from an account and from the supply. *)
LEMMA BurnKeeps ==
    ASSUME NEW l, LedgerInv(l), NEW k \in Key, NEW m \in Mints, NEW auth, NEW S,
           NEW x \in U64, ProcessBurnOk(l, m, k, auth, S, x)
    PROVE  LET n == ProcessBurnPost(l, m, k, auth, x)
           IN  /\ LedgerInv(n) /\ Kept(l, n)
               /\ \A j \in Key \ {k, m} : n[j] = l[j]
<1> DEFINE o == l[k].data
           q == l[m].data
           d == Spent(o, auth, x)
           e == [q EXCEPT !.supply = @ - x]
<1>1. /\ IsAccount(l, k) /\ ~o.frozen /\ o \in TokenRecord
      /\ TokenOk(o, l[k].lamports) /\ ~IsNative(o) /\ o.mint = m
  BY LedgerFields, Zenon DEF LedgerInv, AllSound, Sound, ProcessBurnOk, IsAccount
<1>2. IsMint(l, m) /\ q \in MintRecord
  BY LedgerFields, TokenAssumption, Zenon DEF LedgerInv, ProcessBurnOk
<1>3. x \in Nat /\ o.amount \in Nat /\ q.supply \in Nat /\ q.supply <= U64Max
  BY <1>1, <1>2, TokenFields, RentAssumption DEF MintRecord, U64
<1>4. x <= o.amount /\ x <= q.supply /\ q.supply - x \in U64
  BY <1>3, RentAssumption DEF ProcessBurnOk, U64
<1>5. o.delegate = auth => x <= o.delegated_amount
  BY Zenon DEF ProcessBurnOk, MaySpend
<1>6. /\ d \in TokenRecord
      /\ d.mint = o.mint /\ d.owner = o.owner
      /\ d.amount = o.amount - x
      /\ d.is_native = o.is_native /\ d.frozen = o.frozen
      /\ \/ d.delegate = None
         \/ /\ d.delegate = o.delegate /\ d.approver = o.approver
            /\ d.granted = o.granted
            /\ d.drawn + d.delegated_amount = o.drawn + o.delegated_amount
  BY <1>1, <1>3, <1>4, <1>5, SpentFields
<1>7. /\ e \in MintRecord /\ e.supply = q.supply - x
      /\ e.mint_authority = q.mint_authority
  BY <1>2, <1>4, Zenon DEF MintRecord
<1>8. ProcessBurnPost(l, m, k, auth, x) = SetData(SetData(l, k, d), m, e)
  BY Zenon DEF ProcessBurnPost
<1> HIDE DEF d, e
<1>9. TokenOk(d, l[k].lamports) /\ ~IsNative(d) /\ d.mint = m
  BY <1>1, <1>6, Zenon DEF TokenOk, IsNative
<1>10. d.amount + q.supply = o.amount + e.supply /\ e.supply <= q.supply
  BY <1>3, <1>4, <1>6, <1>7, SMTT(30)
<1>11. LET n == SetData(SetData(l, k, d), m, e)
       IN  /\ LedgerInv(n) /\ Kept(l, n)
           /\ n[k].data = d /\ n[m].data = e
           /\ \A j \in Key \ {k, m} : n[j] = l[j]
  BY <1>1, <1>2, <1>6, <1>7, <1>9, <1>10, SupplyChanged
<1> QED
  BY <1>8, <1>11, Zenon

(* process_freeze_account, process_thaw_account: the tokens stay. *)
LEMMA ToggleFreezeKeeps ==
    ASSUME NEW l, LedgerInv(l), NEW k \in Key, NEW m, NEW auth, NEW S,
           NEW freeze \in BOOLEAN, ToggleFreezeOk(l, m, k, auth, S, freeze)
    PROVE  LET n == ToggleFreezePost(l, k, freeze)
           IN  LedgerInv(n) /\ Kept(l, n)
<1> DEFINE o == l[k].data
           d == [o EXCEPT !.frozen = freeze]
<1>1. /\ IsAccount(l, k) /\ o \in TokenRecord /\ ~IsNative(o)
      /\ TokenOk(o, l[k].lamports) /\ o.frozen # freeze
  BY LedgerFields, Zenon DEF LedgerInv, AllSound, Sound, ToggleFreezeOk, IsAccount
<1>2. /\ d \in TokenRecord
      /\ d.mint = o.mint /\ d.is_native = o.is_native /\ d.amount = o.amount
      /\ d.delegate = o.delegate /\ d.owner = o.owner
      /\ d.approver = o.approver /\ d.granted = o.granted /\ d.drawn = o.drawn
      /\ d.delegated_amount = o.delegated_amount
  BY <1>1, Zenon DEF TokenRecord
<1>3. o.frozen => d = [o EXCEPT !.frozen = FALSE]
  <2>1. o.frozen \in BOOLEAN
    BY <1>1, Zenon DEF TokenRecord
  <2>2. o.frozen => freeze = FALSE
    BY <1>1, <2>1, Zenon
  <2> QED
    BY <2>2, Zenon
<1>4. ToggleFreezePost(l, k, freeze) = SetData(l, k, d)
  BY Zenon DEF ToggleFreezePost
<1> HIDE DEF d
<1>5. TokenOk(d, l[k].lamports)
  BY <1>1, <1>2, Zenon DEF TokenOk, IsNative
<1> QED
  BY <1>1, <1>2, <1>3, <1>4, <1>5, AccountWritten, Zenon

(* process_sync_native leaves the reserve out of the balance. *)
LEMMA SyncNativeKeeps ==
    ASSUME NEW l, LedgerInv(l), NEW k \in Key, SyncNativeOk(l, k)
    PROVE  LET n == SyncNativePost(l, k)
           IN  LedgerInv(n) /\ Kept(l, n)
<1> DEFINE o == l[k].data
           a == l[k].lamports - o.is_native
           d == [o EXCEPT !.amount = a]
<1>1. /\ IsAccount(l, k) /\ o \in TokenRecord /\ IsNative(o)
      /\ TokenOk(o, l[k].lamports)
      /\ l[k].lamports \in Nat /\ l[k].lamports <= U64Max
  BY LedgerFields, Zenon DEF LedgerInv, AllSound, Sound, SyncNativeOk, IsAccount
<1>2. o.is_native \in Nat /\ o.amount \in Nat /\ o.amount + o.is_native <= l[k].lamports
  BY <1>1, TokenFields, Zenon DEF SyncNativeOk, IsNative
<1>3. a \in U64 /\ a + o.is_native <= l[k].lamports
  BY <1>1, <1>2, RentAssumption DEF U64
<1> HIDE DEF a
<1>4. /\ d \in TokenRecord
      /\ d.mint = o.mint /\ d.is_native = o.is_native /\ d.amount = a
      /\ d.frozen = o.frozen /\ d.delegate = o.delegate /\ d.owner = o.owner
      /\ d.approver = o.approver /\ d.granted = o.granted /\ d.drawn = o.drawn
      /\ d.delegated_amount = o.delegated_amount
  BY <1>1, <1>3, Zenon DEF TokenRecord
<1>5. SyncNativePost(l, k) = SetData(l, k, d)
  BY Zenon DEF SyncNativePost, a
<1> HIDE DEF d
<1>6. TokenOk(d, l[k].lamports) /\ IsNative(d) /\ ~o.frozen
  BY <1>1, <1>3, <1>4, Zenon DEF TokenOk, IsNative
<1> QED
  BY <1>1, <1>4, <1>5, <1>6, AccountWritten, Zenon

(* More lamports do an account no harm. *)
LEMMA SoundWithMore ==
    ASSUME NEW a, NEW b, Sound(a), b.owner = a.owner, b.space = a.space, b.data = a.data,
           a.data \in TokenDatum, a.lamports \in Nat, b.lamports \in Nat,
           b.lamports >= a.lamports
    PROVE  Sound(b)
<1>1. a.data.kind = "account" => TokenOk(b.data, b.lamports)
  <2> SUFFICES ASSUME a.data.kind = "account"
               PROVE  TokenOk(b.data, b.lamports)
    BY Zenon
  <2>1. a.data \in TokenRecord /\ TokenOk(a.data, a.lamports)
    BY Kinds, Zenon DEF Sound
  <2>2. IsNative(a.data) => a.data.amount + a.data.is_native <= b.lamports
    BY <2>1, TokenFields DEF TokenOk, IsNative
  <2> QED
    BY <2>1, <2>2, Zenon DEF TokenOk, IsNative
<1> QED
  BY <1>1, Minimums DEF Sound

(* process_close_account takes an account without tokens, or wrapped       *)
(* lamports together with the lamports that back them.                     *)
LEMMA CloseKeeps ==
    ASSUME NEW l, LedgerInv(l), NEW k \in Key, NEW dest \in Key, NEW auth, NEW S,
           ProcessCloseOk(l, k, dest, auth, S)
    PROVE  LET n == ProcessClosePost(l, k, dest)
           IN  /\ LedgerInv(n) /\ Kept(l, n)
               /\ \A j \in Key \ {k} : /\ n[j].data = l[j].data
                                       /\ n[j].owner = l[j].owner
<1> DEFINE x == l[k].lamports
           p == MoveLamports(l, k, dest, x)
           n == SetData(p, k, Zeroed)
<1>1. l \in TokenLedger /\ AllSound(l)
  BY Zenon DEF LedgerInv
<1>2. /\ k # dest /\ IsAccount(l, k)
      /\ IsNative(l[k].data) \/ l[k].data.amount = 0
      /\ l[dest].lamports + x <= U64Max
  BY Zenon DEF ProcessCloseOk
<1>3. /\ x \in Nat /\ x \in U64 /\ l[dest].lamports \in Nat
      /\ \A j \in Key : l[j].data \in TokenDatum
  BY <1>1, LedgerFields, RentAssumption, SMTT(30) DEF U64
<1>4. /\ p \in TokenLedger
      /\ \A j \in Key : /\ p[j].owner = l[j].owner /\ p[j].space = l[j].space
                        /\ p[j].data = l[j].data
      /\ \A j \in Key \ {k, dest} : p[j] = l[j]
      /\ p[k].lamports = WrapSub(x, x)
      /\ p[dest].lamports = WrapAdd(l[dest].lamports, x)
  BY <1>1, <1>2, <1>3, MoveLamportsFields DEF TokenLedger
<1>5. p[dest].lamports = l[dest].lamports + x
  BY <1>2, <1>3, <1>4, Zenon DEF WrapAdd
<1> HIDE DEF p
<1>6. Zeroed \in TokenDatum
  BY Zenon DEF TokenDatum
<1>7. /\ n \in TokenLedger
      /\ n[k] = [lamports |-> p[k].lamports, owner |-> p[k].owner,
                 space |-> p[k].space, data |-> Zeroed]
      /\ \A j \in Key \ {k} : n[j] = p[j]
      /\ \A j \in Key : /\ n[j].lamports = p[j].lamports
                        /\ n[j].owner = p[j].owner
                        /\ n[j].space = p[j].space
  BY <1>4, <1>6, SetDataFields DEF TokenLedger
<1>8. ProcessClosePost(l, k, dest) = n
  BY Zenon DEF ProcessClosePost, p
<1> HIDE DEF n
<1>9. \A j \in Key : Sound(n[j])
  <2>1. l[k].owner = Program
    BY <1>1, <1>2, OwnedByProgram, Zenon
  <2>2. Sound(n[k])
    BY <1>4, <1>7, <2>1 DEF Sound, Zeroed
  <2>3. Sound(n[dest])
    <3>1. /\ n[dest].owner = l[dest].owner /\ n[dest].space = l[dest].space
          /\ n[dest].data = l[dest].data /\ Sound(l[dest])
          /\ n[dest].lamports = l[dest].lamports + x
      BY <1>1, <1>2, <1>4, <1>5, <1>7, Zenon DEF AllSound
    <3> QED
      BY <1>3, <3>1, SoundWithMore
  <2> QED
    BY <1>1, <1>4, <1>7, <2>2, <2>3, Zenon DEF AllSound
<1>10. n[k].data = Zeroed /\ \A j \in Key \ {k} : n[j].data = l[j].data
  BY <1>4, <1>7
<1>11. ~IsMint(l, k)
  BY <1>2, Zenon DEF IsMint, IsAccount
<1>12. \A j \in Key : n[j].owner = l[j].owner
  BY <1>4, <1>7, Zenon
<1>13. LedgerInv(n) /\ Kept(l, n)
  BY <1>2, <1>7, <1>9, <1>10, <1>11, LamportsOnly, Zenon
<1> QED
  BY <1>8, <1>10, <1>12, <1>13, Zenon

-----------------------------------------------------------------------------
(* The system program and the bank *)

(* An account that the system program takes lamports from is a plain one,  *)
(* so no token account loses what backs it.                                *)
LEMMA SoundPayer ==
    ASSUME NEW l \in TokenLedger, AllSound(l), NEW from \in Key, NEW to, NEW x \in U64,
           TransferOk(l, from, to, x), NEW b,
           b.owner = l[from].owner, b.space = l[from].space, b.data = l[from].data,
           b.lamports = l[from].lamports - x
    PROVE  Sound(b)
<1>1. Sound(l[from]) /\ x \in Nat /\ l[from].lamports \in Nat
  BY LedgerFields, RentAssumption DEF AllSound, U64
<1>2. CASE x = 0
  BY <1>1, <1>2, LedgerFields, SoundWithMore
<1>3. CASE x > 0
  <2>1. l[from].owner = System
    BY <1>3, Zenon DEF TransferOk
  <2>2. l[from].owner # Program
    BY <2>1, ProgramsDiffer, Zenon
  <2> QED
    BY <1>1, <2>2 DEF Sound, Zeroed
<1> QED
  BY <1>1, <1>2, <1>3

(* A transfer of lamports changes no token account but for the lamports a  *)
(* token account may receive.                                              *)
LEMMA TransferredKeeps ==
    ASSUME NEW l, LedgerInv(l), NEW from \in Key, NEW to \in Key, NEW x \in U64,
           TransferOk(l, from, to, x)
    PROVE  LET n == Transferred(l, from, to, x)
           IN  /\ LedgerInv(n) /\ Kept(l, n)
               /\ \A k \in Key : n[k].data = l[k].data /\ n[k].owner = l[k].owner
<1> DEFINE n == Transferred(l, from, to, x)
<1>1. l \in TokenLedger /\ AllSound(l)
  BY Zenon DEF LedgerInv
<1>2. /\ n \in TokenLedger
      /\ \A k \in Key : /\ n[k].owner = l[k].owner
                        /\ n[k].space = l[k].space
                        /\ n[k].data = l[k].data
      /\ \A k \in Key \ {from, to} : n[k] = l[k]
      /\ from # to => /\ n[from].lamports = l[from].lamports - x
                      /\ n[to].lamports = l[to].lamports + x
      /\ from = to => n[from].lamports = l[from].lamports
  BY <1>1, TransferredFields DEF TokenLedger
<1> HIDE DEF n
<1>3. x \in Nat
  BY RentAssumption DEF U64
<1>4. ASSUME NEW k \in Key
      PROVE  Sound(n[k])
  <2>1. /\ Sound(l[k]) /\ l[k].lamports \in Nat /\ n[k].lamports \in Nat
        /\ l[k].data \in TokenDatum
        /\ n[k].owner = l[k].owner /\ n[k].space = l[k].space /\ n[k].data = l[k].data
    BY <1>1, <1>2, LedgerFields, Zenon DEF AllSound
  <2>2. CASE k = from /\ from # to
    <3>1. n[from].lamports = l[from].lamports - x
      BY <1>2, <2>2, Zenon
    <3> QED
      BY <1>1, <2>1, <2>2, <3>1, SoundPayer, Zenon
  <2>3. CASE k # from \/ from = to
    <3>1. n[k].lamports >= l[k].lamports
      BY <1>2, <1>3, <2>1, <2>3
    <3> QED
      BY <2>1, <3>1, SoundWithMore, Zenon
  <2> QED
    BY <2>2, <2>3, Zenon
<1>5. LedgerInv(n) /\ Kept(l, n)
  BY <1>2, <1>4, LamportsOnly, Zenon
<1> QED
  BY <1>2, <1>5, Zenon DEF n

(* create_account takes a plain account and leaves it to the token program *)
(* with nothing in it.                                                     *)
LEMMA AccountCreatedKeeps ==
    ASSUME NEW l, LedgerInv(l), NEW from \in Key, NEW to \in Key, NEW x \in U64,
           NEW len \in Nat, CreateAccountOk(l, from, to, x)
    PROVE  LET n == AccountCreated(l, from, to, x, len, Program)
           IN  /\ LedgerInv(n) /\ Kept(l, n)
               /\ \A k \in Key : n[k].data = l[k].data
               /\ \A k \in Key \ {to} : n[k].owner = l[k].owner
<1> DEFINE n == AccountCreated(l, from, to, x, len, Program)
<1>1. l \in TokenLedger /\ AllSound(l) /\ Zeroed \in TokenDatum
  BY Zenon DEF LedgerInv, TokenDatum
<1>2. /\ n \in TokenLedger
      /\ n[to] = [lamports |-> x, owner |-> Program, space |-> len, data |-> Zeroed]
      /\ n[from] = [lamports |-> l[from].lamports - x, owner |-> l[from].owner,
                    space |-> l[from].space, data |-> l[from].data]
      /\ \A k \in Key \ {from, to} : n[k] = l[k]
  BY <1>1, AccountCreatedFields DEF TokenLedger
<1>3. /\ from # to /\ l[to].owner = System /\ TransferOk(l, from, to, x)
  BY Zenon DEF CreateAccountOk
<1> HIDE DEF n
<1>4. /\ n[to].owner = Program /\ n[to].data = Zeroed
      /\ n[from].lamports = l[from].lamports - x /\ n[from].owner = l[from].owner
      /\ n[from].space = l[from].space /\ n[from].data = l[from].data
  BY <1>2
<1>5. l[to].data = Zeroed
  BY <1>1, <1>3, ProgramsDiffer, Zenon DEF AllSound, Sound
<1>6. \A k \in Key : n[k].data = l[k].data
  BY <1>2, <1>4, <1>5, Zenon
<1>7. \A k \in Key : Sound(n[k])
  <2>1. Sound(n[to])
    BY <1>4 DEF Sound, Zeroed
  <2>2. Sound(n[from])
    BY <1>1, <1>3, <1>4, SoundPayer, Zenon
  <2> QED
    BY <1>1, <1>2, <2>1, <2>2, Zenon DEF AllSound
<1>8. LedgerInv(n) /\ Kept(l, n)
  BY <1>2, <1>6, <1>7, LamportsOnly, Zenon
<1>9. \A k \in Key \ {to} : n[k].owner = l[k].owner
  BY <1>2, <1>4, Zenon
<1> QED
  BY <1>6, <1>8, <1>9, Zenon DEF n

(* The accounts that the bank drops at the end of a transaction, those     *)
(* without lamports, are neither mints nor token accounts.                 *)
LEMMA PurgedKeeps ==
    ASSUME NEW l, LedgerInv(l)
    PROVE  /\ LedgerInv(Purged(l)) /\ Kept(l, Purged(l))
           /\ \A k \in Key : IsAccount(l, k) \/ IsMint(l, k) => Purged(l)[k] = l[k]
<1> DEFINE n == Purged(l)
<1>1. l \in TokenLedger /\ AllSound(l) /\ Zeroed \in TokenDatum
  BY Zenon DEF LedgerInv, TokenDatum
<1>2. /\ n \in TokenLedger
      /\ \A k \in Key : n[k] = IF l[k].lamports = 0 THEN DefaultAccount ELSE l[k]
  BY <1>1, PurgedFields, Zenon DEF TokenLedger
<1> HIDE DEF n
<1>3. ASSUME NEW k \in Key, IsAccount(l, k) \/ IsMint(l, k)
      PROVE  l[k].lamports # 0
  BY <1>1, <1>3, LedgerFields, Minimums DEF AllSound, Sound, IsAccount, IsMint
<1>4. ASSUME NEW k \in Key
      PROVE  /\ Sound(n[k])
             /\ \/ n[k].data = l[k].data
                \/ n[k].data = Zeroed /\ ~IsMint(l, k) /\ ~IsAccount(l, k)
  <2>1. CASE l[k].lamports = 0
    <3>1. n[k] = DefaultAccount
      BY <1>2, <2>1, Zenon
    <3>2. n[k].owner = System /\ n[k].space = 0 /\ n[k].data = Zeroed
      BY <3>1 DEF DefaultAccount
    <3>3. Sound(n[k])
      BY <3>2 DEF Sound, Zeroed
    <3> QED
      BY <1>3, <2>1, <3>2, <3>3, Zenon
  <2>2. CASE l[k].lamports # 0
    BY <1>1, <1>2, <2>2, Zenon DEF AllSound
  <2> QED
    BY <2>1, <2>2, Zenon
<1>5. LedgerInv(n) /\ Kept(l, n)
  BY <1>2, <1>4, LamportsOnly, Zenon
<1>6. \A k \in Key : IsAccount(l, k) \/ IsMint(l, k) => n[k] = l[k]
  BY <1>2, <1>3, Zenon
<1> QED
  BY <1>5, <1>6, Zenon DEF n

(* Charging the fee payer, a plain account, changes no token account. *)
LEMMA LoadedKeeps ==
    ASSUME BankInv(TokenDatum), LedgerInv(accounts), NEW p \in Payers, FeePayerOk(p)
    PROVE  /\ LedgerInv(Loaded(p)) /\ Kept(accounts, Loaded(p))
           /\ \A k \in Key : /\ Loaded(p)[k].data = accounts[k].data
                             /\ Loaded(p)[k].owner = accounts[k].owner
<1> DEFINE n == Loaded(p)
<1>1. /\ accounts \in TokenLedger /\ AllSound(accounts) /\ p \in Key
  BY BankAssumption, Zenon DEF LedgerInv
<1>2. /\ n \in TokenLedger
      /\ n[p] = [accounts[p] EXCEPT !.lamports = @ - Fee]
      /\ \A k \in Key \ {p} : n[k] = accounts[k]
  BY LoadedFields, Zenon DEF TokenLedger
<1> HIDE DEF n
<1>3. /\ n[p].owner = accounts[p].owner /\ n[p].space = accounts[p].space
      /\ n[p].data = accounts[p].data
  BY <1>1, <1>2 DEF TokenLedger, AccountWith
<1>4. accounts[p].owner # Program
  BY ProgramsDiffer, Zenon DEF FeePayerOk
<1>5. \A k \in Key : /\ n[k].data = accounts[k].data
                     /\ n[k].owner = accounts[k].owner
  BY <1>2, <1>3, Zenon
<1>6. \A k \in Key : Sound(n[k])
  <2>1. Sound(n[p])
    BY <1>1, <1>3, <1>4 DEF AllSound, Sound, Zeroed
  <2> QED
    BY <1>1, <1>2, <2>1, Zenon DEF AllSound
<1>7. LedgerInv(n) /\ Kept(accounts, n)
  BY <1>2, <1>5, <1>6, LamportsOnly, Zenon
<1> QED
  BY <1>5, <1>7, Zenon DEF n

-----------------------------------------------------------------------------
(* The theorems *)

(* The stored and the loaded accounts satisfy the invariant of a ledger,   *)
(* and the open transaction has not reopened a mint.                       *)
TokenInv ==
    /\ BankInv(TokenDatum)
    /\ LedgerInv(accounts)
    /\ LedgerInv(work)
    /\ SupplyKept(accounts, work)
    /\ payer = NoPayer => work = accounts

(* What a step of the bank must do: keep the invariant, leave frozen       *)
(* accounts alone and keep the supply of mints without authority.          *)
StepKeeps ==
    /\ TokenInv'
    /\ payer' # NoPayer => FrozenKept(work, work')
    /\ SupplyKept(accounts, accounts')

(* An instruction of a transaction that keeps the ledger in order. *)
GoodInstruction ==
    \E post : LedgerInv(post) /\ Kept(work, post) /\ Instruction(post)

(* Fixed supplies stay fixed over several instructions. *)
LEMMA SupplyKeptTransitive ==
    ASSUME NEW l \in TokenLedger, NEW m \in TokenLedger, NEW n \in TokenLedger,
           SupplyKept(l, m), SupplyKept(m, n)
    PROVE  SupplyKept(l, n)
<1> SUFFICES ASSUME NEW k \in Key, IsMint(l, k), l[k].data.mint_authority = None
             PROVE  /\ IsMint(n, k)
                    /\ n[k].data.mint_authority = None
                    /\ n[k].data.supply <= l[k].data.supply
  BY Zenon DEF SupplyKept
<1>1. /\ IsMint(m, k) /\ m[k].data.mint_authority = None
      /\ m[k].data.supply <= l[k].data.supply
  BY Zenon DEF SupplyKept
<1>2. /\ IsMint(n, k) /\ n[k].data.mint_authority = None
      /\ n[k].data.supply <= m[k].data.supply
  BY <1>1, Zenon DEF SupplyKept
<1>3. l[k].data.supply \in Nat /\ m[k].data.supply \in Nat /\ n[k].data.supply \in Nat
  <2>1. \A d \in MintRecord : d.supply \in Nat
    BY RentAssumption DEF MintRecord, U64
  <2> QED
    BY <1>1, <1>2, <2>1, LedgerFields, Zenon
<1> QED
  BY <1>1, <1>2, <1>3

(* A ledger keeps itself. *)
LEMMA KeptReflexive ==
    ASSUME NEW l \in TokenLedger
    PROVE  SupplyKept(l, l) /\ FrozenKept(l, l)
BY KeptStep, Zenon DEF Kept

(* The genesis accounts are plain ones. *)
LEMMA TokenInvInit ==
    ASSUME BankInit
    PROVE  TokenInv
<1>1. Zeroed \in TokenDatum
  BY Zenon DEF TokenDatum
<1>2. BankInv(TokenDatum)
  BY <1>1, BankInvInit, Zenon
<1>3. /\ Genesis \in TokenLedger
      /\ \A k \in Key : /\ Genesis[k].owner = System /\ Genesis[k].space = 0
                        /\ Genesis[k].data = Zeroed
  <2>1. \A k \in Key : Genesis[k] \in [lamports : U64, owner : {System},
                                       space : {0}, data : {Zeroed}]
    BY GenesisAssumption, Zenon
  <2>2. ASSUME NEW k \in Key
        PROVE  /\ Genesis[k] \in AccountWith(TokenDatum)
               /\ Genesis[k].owner = System /\ Genesis[k].space = 0
               /\ Genesis[k].data = Zeroed
    <3> DEFINE g == Genesis[k]
    <3>1. g \in [lamports : U64, owner : {System}, space : {0}, data : {Zeroed}]
      BY <2>1, Zenon
    <3> HIDE DEF g
    <3>2. g \in AccountWith(TokenDatum)
      BY <1>1, <3>1, ProgramsOwn DEF AccountWith
    <3>3. g.owner = System /\ g.space = 0 /\ g.data = Zeroed
      BY <3>1, Zenon
    <3> QED
      BY <3>2, <3>3, Zenon DEF g
  <2> QED
    BY <2>2, GenesisAssumption, Zenon DEF TokenLedger
<1>4. ASSUME NEW k \in Key
      PROVE  /\ ~IsAccount(Genesis, k) /\ ~IsMint(Genesis, k)
             /\ Sound(Genesis[k])
  <2> DEFINE g == Genesis[k]
  <2>1. g.owner = System /\ g.space = 0 /\ g.data = Zeroed
    BY <1>3, Zenon
  <2> HIDE DEF g
  <2>2. g.data.kind = "zeroed"
    BY <2>1 DEF Zeroed
  <2>3. Sound(g)
    BY <2>1, <2>2, Zenon DEF Sound
  <2> QED
    BY <2>2, <2>3, Zenon DEF g, IsAccount, IsMint
<1>5. AllSound(Genesis)
  BY <1>4, Zenon DEF AllSound
<1>6. MintsExist(Genesis)
  BY <1>4, Zenon DEF MintsExist
<1>7. SupplyIs(Genesis)
  BY <1>4, TokenAssumption, Zenon DEF SupplyIs
<1>8. LedgerInv(Genesis) /\ SupplyKept(Genesis, Genesis)
  BY <1>3, <1>5, <1>6, <1>7, KeptReflexive, Zenon DEF LedgerInv
<1> QED
  BY <1>2, <1>8, Zenon DEF TokenInv, BankInit

(* Loading the accounts of a transaction. *)
LEMMA BeginKeeps ==
    ASSUME TokenInv, NEW p \in Payers, Begin(p)
    PROVE  StepKeeps
<1>1. /\ payer = NoPayer /\ FeePayerOk(p)
      /\ payer' = p /\ work' = Loaded(p) /\ accounts' = accounts
  BY Zenon DEF Begin
<1>2. p # NoPayer
  BY BankAssumption, Zenon
<1>3. BankInv(TokenDatum)'
  BY BankInvBegin, Zenon DEF TokenInv
<1>4. /\ LedgerInv(Loaded(p)) /\ Kept(accounts, Loaded(p))
  BY <1>1, LoadedKeeps, Zenon DEF TokenInv
<1>5. accounts \in TokenLedger /\ work = accounts
  BY <1>1, Zenon DEF TokenInv, LedgerInv
<1>6. TokenInv'
  BY <1>1, <1>2, <1>3, <1>4, Zenon DEF TokenInv, Kept
<1>7. FrozenKept(work, work') /\ SupplyKept(accounts, accounts')
  BY <1>1, <1>4, <1>5, KeptReflexive, Zenon DEF Kept
<1> QED
  BY <1>6, <1>7, Zenon DEF StepKeeps

(* Executing an instruction. *)
LEMMA InstructionKeeps ==
    ASSUME TokenInv, GoodInstruction
    PROVE  StepKeeps
<1> PICK post : LedgerInv(post) /\ Kept(work, post) /\ Instruction(post)
  BY Zenon DEF GoodInstruction
<1>1. /\ work' = post /\ accounts' = accounts /\ payer' = payer /\ payer # NoPayer
  BY Zenon DEF Instruction
<1>2. post \in [Key -> AccountWith(TokenDatum)]
  BY Zenon DEF LedgerInv, TokenLedger
<1>3. BankInv(TokenDatum)'
  BY <1>2, BankInvInstruction, Zenon DEF TokenInv
<1>4. SupplyKept(accounts, post)
  BY SupplyKeptTransitive, Zenon DEF TokenInv, LedgerInv, Kept
<1>5. TokenInv'
  BY <1>1, <1>3, <1>4, Zenon DEF TokenInv
<1>6. FrozenKept(work, work') /\ SupplyKept(accounts, accounts')
  BY <1>1, KeptReflexive, Zenon DEF TokenInv, LedgerInv, Kept
<1> QED
  BY <1>5, <1>6, Zenon DEF StepKeeps

(* Storing a ledger that keeps the supplies of the stored one. *)
LEMMA EndKeeps ==
    ASSUME TokenInv, NEW l, LedgerInv(l), SupplyKept(accounts, l), End(l),
           BankInv(TokenDatum)'
    PROVE  StepKeeps
<1>1. accounts' = Purged(l) /\ work' = Purged(l) /\ payer' = NoPayer
  BY Zenon DEF End
<1>2. LedgerInv(Purged(l)) /\ SupplyKept(l, Purged(l))
  BY PurgedKeeps, Zenon DEF Kept
<1>3. SupplyKept(accounts, Purged(l)) /\ SupplyKept(Purged(l), Purged(l))
  BY <1>2, SupplyKeptTransitive, KeptReflexive, Zenon DEF TokenInv, LedgerInv
<1> QED
  BY <1>1, <1>2, <1>3, Zenon DEF StepKeeps, TokenInv

(* The end of a transaction, successful or not. *)
LEMMA CommitFailKeeps ==
    ASSUME TokenInv, Commit \/ Fail
    PROVE  StepKeeps
<1>1. Zeroed \in TokenDatum
  BY Zenon DEF TokenDatum
<1>2. CASE Commit
  <2>1. BankInv(TokenDatum)' /\ End(work)
    BY <1>1, <1>2, BankInvCommit, Zenon DEF TokenInv, Commit
  <2> QED
    BY <2>1, EndKeeps, Zenon DEF TokenInv
<1>3. CASE Fail
  <2>1. BankInv(TokenDatum)' /\ End(Loaded(payer))
    BY <1>1, <1>3, BankInvFail, Zenon DEF TokenInv, Fail
  <2>2. payer \in Payers /\ FeePayerOk(payer)
    BY <1>3, Zenon DEF TokenInv, BankInv, BankTypeOK, OpenPayerOk, Fail
  <2>3. LedgerInv(Loaded(payer)) /\ SupplyKept(accounts, Loaded(payer))
    BY <2>2, LoadedKeeps, Zenon DEF TokenInv, Kept
  <2> QED
    BY <2>1, <2>3, EndKeeps, Zenon
<1> QED
  BY <1>2, <1>3, Zenon

(* A step that changes nothing. *)
LEMMA StutterKeeps ==
    ASSUME TokenInv, UNCHANGED bankVars
    PROVE  StepKeeps
<1>1. BankInv(TokenDatum)'
  BY BankInvStutter, Zenon DEF TokenInv
<1>2. accounts' = accounts /\ work' = work /\ payer' = payer
  BY Zenon DEF bankVars
<1>3. TokenInv'
  BY <1>1, <1>2, Zenon DEF TokenInv
<1>4. FrozenKept(work, work') /\ SupplyKept(accounts, accounts')
  BY <1>2, KeptReflexive, Zenon DEF TokenInv, LedgerInv
<1> QED
  BY <1>3, <1>4, Zenon DEF StepKeeps

(* Allocating and funding accounts. *)
LEMMA SystemGood ==
    ASSUME TokenInv, NEW u \in Users, Allocate(u) \/ Fund(u)
    PROVE  GoodInstruction
<1>1. LedgerInv(work) /\ u \in Key
  BY BankAssumption, Zenon DEF TokenInv
<1>2. Mints \cup TokenAccounts \cup Multisigs \subseteq Key /\ Funds \subseteq U64
  BY TokenAssumption, Zenon
<1>3. ASSUME NEW k \in Key, NEW x \in U64, NEW len \in Nat, CreateAccount(u, k, x, len)
      PROVE  GoodInstruction
  BY <1>1, <1>3, AccountCreatedKeeps, Zenon DEF CreateAccount, GoodInstruction
<1>4. CASE Allocate(u)
  <2>1. MINT_LEN \in Nat /\ ACCOUNT_LEN \in Nat /\ MULTISIG_LEN \in Nat
    BY DEF MINT_LEN, ACCOUNT_LEN, MULTISIG_LEN
  <2>2. PICK x \in Funds :
          \/ \E k \in Mints : CreateAccount(u, k, x, MINT_LEN)
          \/ \E k \in KeyAccounts : CreateAccount(u, k, x, ACCOUNT_LEN)
          \/ \E k \in Multisigs : CreateAccount(u, k, x, MULTISIG_LEN)
    BY <1>4, Zenon DEF Allocate
  <2>3. \E k \in Key, len \in Nat : CreateAccount(u, k, x, len)
    BY <1>2, <2>1, <2>2, Zenon DEF TokenAccounts
  <2> QED
    BY <1>2, <1>3, <2>3, Zenon
<1>5. CASE Fund(u)
  <2>1. PICK k \in TokenAccounts, x \in Funds : SystemTransfer(u, k, x)
    BY <1>5, Zenon DEF Fund
  <2>2. /\ k \in Key /\ x \in U64 /\ TransferOk(work, u, k, x)
        /\ Instruction(Transferred(work, u, k, x))
    BY <1>2, <2>1, Zenon DEF SystemTransfer
  <2> QED
    BY <1>1, <2>2, TransferredKeeps, Zenon DEF GoodInstruction
<1> QED
  BY <1>4, <1>5, Zenon

(* The runtime lets the token program claim its own accounts only. *)
LEMMA ClaimsOwn ==
    ASSUME TokenInv, NEW k \in Key, NEW d, d.kind # "zeroed", work[k].data = Zeroed,
           TokenInstruction(SetData(work, k, d))
    PROVE  work[k].owner = Program
<1>1. SetData(work, k, d)[k].data = d
  BY Zenon DEF SetData, TokenInv, LedgerInv, TokenLedger, AccountWith
<1>2. d # work[k].data
  BY DEF Zeroed
<1> QED
  BY <1>1, <1>2, Zenon DEF TokenInstruction, VerifiedAccount

(* The instructions of the token program that need no authority. *)
LEMMA UnsignedGood ==
    ASSUME TokenInv, Unsigned
    PROVE  GoodInstruction
<1>1. /\ LedgerInv(work)
      /\ Mints \subseteq Key /\ TokenAccounts \subseteq Key /\ Multisigs \subseteq Key
      /\ Authorities \subseteq Key /\ AccountMints \subseteq Mints \cup {NativeMint}
  BY BankAssumption, TokenAssumption, Zenon DEF TokenInv, Authorities
<1>2. ASSUME NEW k \in Mints, NEW a \in Officers, NEW f \in Officers \cup {None},
             InitializeMint(k, a, f)
      PROVE  GoodInstruction
  <2>1. k \in Key /\ MintData(a, 0, f).kind # "zeroed"
    BY <1>1 DEF MintData
  <2>2. work[k].owner = Program
    BY <1>2, <2>1, ClaimsOwn, Zenon DEF InitializeMint, InitializeMintPost, Unused
  <2> QED
    BY <1>1, <1>2, <2>1, <2>2, InitializeMintKeeps, Zenon
       DEF InitializeMint, TokenInstruction, GoodInstruction
<1>3. ASSUME NEW k \in TokenAccounts, NEW m \in AccountMints, NEW o \in Authorities,
             InitializeAccount(k, m, o)
      PROVE  GoodInstruction
  <2> DEFINE d == IF m = NativeMint
                  THEN TokenData(m, o, work[k].lamports - MinimumBalance(ACCOUNT_LEN),
                                 MinimumBalance(ACCOUNT_LEN))
                  ELSE TokenData(m, o, 0, None)
  <2>1. k \in Key /\ d.kind # "zeroed"
    BY <1>1 DEF TokenData
  <2>2. TokenInstruction(SetData(work, k, d)) /\ work[k].data = Zeroed
    BY <1>3, Zenon DEF InitializeAccount, InitializeAccountOk, InitializeAccountPost, Unused
  <2>3. work[k].owner = Program
    BY <2>1, <2>2, ClaimsOwn, Zenon
  <2> QED
    BY <1>1, <1>3, <2>1, <2>3, InitializeAccountKeeps, Zenon
       DEF InitializeAccount, TokenInstruction, GoodInstruction
<1>4. ASSUME NEW k \in Multisigs, NEW s \in SignerLists, NEW m \in 1..2,
             InitializeMultisig(k, m, s)
      PROVE  GoodInstruction
  <2>1. k \in Key /\ MultisigData(m, s).kind # "zeroed"
    BY <1>1 DEF MultisigData
  <2>2. work[k].owner = Program
    BY <1>4, <2>1, ClaimsOwn, Zenon DEF InitializeMultisig, InitializeMultisigOk, Unused
  <2> QED
    BY <1>1, <1>4, <2>1, <2>2, InitializeMultisigKeeps, Zenon
       DEF InitializeMultisig, TokenInstruction, GoodInstruction
<1>5. ASSUME NEW k \in TokenAccounts, SyncNative(k)
      PROVE  GoodInstruction
  BY <1>1, <1>5, SyncNativeKeeps, Zenon DEF SyncNative, TokenInstruction, GoodInstruction
<1> QED
  BY <1>2, <1>3, <1>4, <1>5, Zenon DEF Unsigned

(* The instructions of the token program that an authority signs. *)
LEMMA AuthorityGood ==
    ASSUME TokenInv, NEW auth, NEW S, AsAuthority(auth, S)
    PROVE  GoodInstruction
<1>1. /\ LedgerInv(work)
      /\ Mints \subseteq Key /\ TokenAccounts \subseteq Key /\ Users \subseteq Key
      /\ Authorities \subseteq Key /\ Amounts \subseteq U64
  BY BankAssumption, TokenAssumption, Zenon DEF TokenInv, Authorities
<1>2. ASSUME NEW k \in TokenAccounts, NEW to \in TokenAccounts, NEW x \in Amounts,
             Transfer(k, to, auth, S, x)
      PROVE  GoodInstruction
  <2>1. k \in Key /\ to \in Key /\ x \in U64
    BY <1>1, Zenon
  <2> QED
    BY <1>1, <1>2, <2>1, TransferKeeps, Zenon DEF Transfer, TokenInstruction, GoodInstruction
<1>3. ASSUME NEW k \in TokenAccounts, NEW d \in Delegates, NEW x \in Amounts,
             Approve(k, d, auth, S, x)
      PROVE  GoodInstruction
  <2>1. k \in Key /\ x \in U64
    BY <1>1, Zenon
  <2> QED
    BY <1>1, <1>3, <2>1, ApproveKeeps, Zenon DEF Approve, TokenInstruction, GoodInstruction
<1>4. ASSUME NEW k \in TokenAccounts, Revoke(k, auth, S)
      PROVE  GoodInstruction
  BY <1>1, <1>4, RevokeKeeps, Zenon DEF Revoke, TokenInstruction, GoodInstruction
<1>5. ASSUME NEW k \in TokenAccounts, NEW new \in Authorities, SetOwner(k, new, auth, S)
      PROVE  GoodInstruction
  <2>1. k \in Key /\ new \in Key
    BY <1>1, Zenon
  <2> QED
    BY <1>1, <1>5, <2>1, SetOwnerKeeps, Zenon DEF SetOwner, TokenInstruction, GoodInstruction
<1>6. ASSUME NEW k \in TokenAccounts, NEW new \in Officers \cup {None},
             SetCloseAuthority(k, new, auth, S)
      PROVE  GoodInstruction
  BY <1>1, <1>6, SetCloseAuthorityKeeps, Zenon
     DEF SetCloseAuthority, TokenInstruction, GoodInstruction
<1>7. ASSUME NEW k \in Mints, NEW new \in Officers \cup {None},
             SetMintAuthority(k, new, auth, S)
      PROVE  GoodInstruction
  BY <1>1, <1>7, SetMintAuthorityKeeps, Zenon
     DEF SetMintAuthority, TokenInstruction, GoodInstruction
<1>8. ASSUME NEW k \in Mints, NEW new \in Officers \cup {None},
             SetFreezeAuthority(k, new, auth, S)
      PROVE  GoodInstruction
  BY <1>1, <1>8, SetFreezeAuthorityKeeps, Zenon
     DEF SetFreezeAuthority, TokenInstruction, GoodInstruction
<1>9. ASSUME NEW m \in Mints, NEW k \in TokenAccounts, NEW x \in Amounts,
             MintTo(m, k, auth, S, x)
      PROVE  GoodInstruction
  <2>1. k \in Key /\ x \in U64
    BY <1>1, Zenon
  <2> QED
    BY <1>1, <1>9, <2>1, MintToKeeps, Zenon DEF MintTo, TokenInstruction, GoodInstruction
<1>10. ASSUME NEW m \in Mints, NEW k \in TokenAccounts, NEW x \in Amounts,
              Burn(m, k, auth, S, x)
       PROVE  GoodInstruction
  <2>1. k \in Key /\ x \in U64
    BY <1>1, Zenon
  <2> QED
    BY <1>1, <1>10, <2>1, BurnKeeps, Zenon DEF Burn, TokenInstruction, GoodInstruction
<1>11. ASSUME NEW k \in TokenAccounts, NEW dest \in Users \cup TokenAccounts,
              CloseAccount(k, dest, auth, S)
       PROVE  GoodInstruction
  <2>1. k \in Key /\ dest \in Key
    BY <1>1, Zenon
  <2> QED
    BY <1>1, <1>11, <2>1, CloseKeeps, Zenon DEF CloseAccount, TokenInstruction, GoodInstruction
<1>12. ASSUME NEW m \in Mints, NEW k \in TokenAccounts, NEW freeze \in BOOLEAN,
              ToggleFreezeAccount(m, k, auth, S, freeze)
       PROVE  GoodInstruction
  BY <1>1, <1>12, ToggleFreezeKeeps, Zenon
     DEF ToggleFreezeAccount, TokenInstruction, GoodInstruction
<1> QED
  BY <1>2, <1>3, <1>4, <1>5, <1>6, <1>7, <1>8, <1>9, <1>10, <1>11, <1>12, Zenon DEF AsAuthority

(* Every step of the token program on a bank. *)
LEMMA NextKeeps ==
    ASSUME TokenInv, [Next]_bankVars
    PROVE  StepKeeps
<1>1. ASSUME NEW u \in Payers, Begin(u)
      PROVE  StepKeeps
  BY <1>1, BeginKeeps, Zenon
<1>2. ASSUME NEW u \in Users, Allocate(u) \/ Fund(u)
      PROVE  StepKeeps
  BY <1>2, SystemGood, InstructionKeeps, Zenon
<1>3. CASE Unsigned
  BY <1>3, UnsignedGood, InstructionKeeps, Zenon
<1>4. ASSUME NEW auth \in Authorities, NEW S \in SignedBy(auth), AsAuthority(auth, S)
      PROVE  StepKeeps
  BY <1>4, AuthorityGood, InstructionKeeps, Zenon
<1>5. CASE Commit \/ Fail
  BY <1>5, CommitFailKeeps, Zenon
<1>6. CASE UNCHANGED bankVars
  BY <1>6, StutterKeeps, Zenon
<1> QED
  BY <1>1, <1>2, <1>3, <1>4, <1>5, <1>6, Zenon DEF Next

(* The invariants about the ledgers that the inductive invariant gives. *)
LEMMA TokenInvImplies ==
    ASSUME TokenInv
    PROVE  NativeBacked /\ DelegationBound /\ Supply
<1>1. ASSUME NEW l, LedgerInv(l), NEW k \in Key, IsAccount(l, k)
      PROVE  TokenOk(l[k].data, l[k].lamports)
  BY <1>1, Zenon DEF LedgerInv, AllSound, Sound, IsAccount
<1>2. LedgerInv(accounts) /\ LedgerInv(work)
  BY Zenon DEF TokenInv
<1>3. \A l \in {accounts, work} : \A k \in Key : IsAccount(l, k) =>
          TokenOk(l[k].data, l[k].lamports)
  BY <1>1, <1>2, Zenon
<1>4. NativeBacked
  BY <1>3, Zenon DEF NativeBacked, TokenOk
<1>5. DelegationBound
  BY <1>3, Zenon DEF DelegationBound, TokenOk
<1>6. Supply
  BY <1>2, Zenon DEF LedgerInv, SupplyIs, Supply
<1> QED
  BY <1>4, <1>5, <1>6, Zenon

(* The inductive invariant holds, with the step properties. *)
LEMMA TokenInvariant == Spec => []TokenInv
<1>1. Init => TokenInv
  BY TokenInvInit, Zenon DEF Init
<1>2. TokenInv /\ [Next]_bankVars => TokenInv'
  BY NextKeeps, Zenon DEF StepKeeps
<1> QED
  BY <1>1, <1>2, PTL DEF Spec

(* Wrapped lamports are backed, whoever transfers, syncs and closes native *)
(* accounts in whatever order.                                             *)
THEOREM WrappedLamportsBacked == Spec => []NativeBacked
BY TokenInvariant, TokenInvImplies, PTL

(* The supply of a mint is the sum of the balances of its accounts, after  *)
(* every instruction of the token program, at the limits of u64 too.       *)
THEOREM SupplyIsSum == Spec => []Supply
BY TokenInvariant, TokenInvImplies, PTL

(* What delegates have drawn and may still draw is what the present owner  *)
(* has granted.                                                            *)
THEOREM DelegationsBounded == Spec => []DelegationBound
BY TokenInvariant, TokenInvImplies, PTL

(* No transaction gives a mint without authority another authority or more *)
(* tokens.                                                                 *)
THEOREM SupplyStaysFixed == Spec => FixedSupply
<1>1. TokenInv /\ [Next]_bankVars => [SupplyKept(accounts, accounts')]_bankVars
  BY NextKeeps, Zenon DEF StepKeeps
<1> QED
  BY <1>1, TokenInvariant, PTL DEF Spec, FixedSupply

(* No instruction takes tokens from a frozen account, adds to it or        *)
(* changes its owner or its delegation.                                    *)
THEOREM FrozenStayUntouched == Spec => FrozenUntouched
<1>1. TokenInv /\ [Next]_bankVars => [payer' # NoPayer => FrozenKept(work, work')]_bankVars
  BY NextKeeps, Zenon DEF StepKeeps
<1> QED
  BY <1>1, TokenInvariant, PTL DEF Spec, FrozenUntouched

-----------------------------------------------------------------------------
(* Lamports.  TokenInstruction asks nothing of the sum of the balances: the *)
(* lemmas below show that no instruction of the token program changes it.  *)

BalancedInstruction ==
    \E post : TotalLamports(post) = TotalLamports(work) /\ Instruction(post)

(* Writing the data of two accounts moves no lamports. *)
LEMMA TotalSetTwo ==
    ASSUME NEW l \in TokenLedger, NEW j \in Key, NEW k \in Key, NEW d, NEW e
    PROVE  TotalLamports(SetData(SetData(l, j, d), k, e)) = TotalLamports(l)
<1> DEFINE D == TokenDatum \cup {d}
           m == SetData(l, j, d)
<1>1. l \in [Key -> AccountWith(D)] /\ d \in D
  BY SMTT(30) DEF TokenLedger, AccountWith
<1> HIDE DEF D
<1>2. m \in [Key -> AccountWith(D)]
  BY <1>1, SetDataFields
<1>3. TotalLamports(m) = TotalLamports(l)
  BY <1>1, TotalSetData
<1> HIDE DEF m
<1>4. TotalLamports(SetData(m, k, e)) = TotalLamports(m)
  BY <1>2, TotalSetData
<1> QED
  BY <1>3, <1>4, Zenon DEF m

(* process_transfer moves the lamports of wrapped accounts from one to the *)
(* other.                                                                  *)
LEMMA TransferTotal ==
    ASSUME NEW l \in TokenLedger, NEW from \in Key, NEW to \in Key, NEW auth, NEW S,
           NEW x \in U64, ProcessTransferOk(l, from, to, auth, S, x)
    PROVE  TotalLamports(ProcessTransferPost(l, from, to, auth, x)) = TotalLamports(l)
<1> DEFINE n == ProcessTransferPost(l, from, to, auth, x)
           d == Spent(l[from].data, auth, x)
           e == [l[to].data EXCEPT !.amount = @ + x]
<1>1. CASE from = to
  BY <1>1, Zenon DEF ProcessTransferPost
<1>2. CASE from # to
  <2>1. /\ n \in TokenLedger
        /\ d \in TokenRecord /\ e \in TokenRecord
        /\ \A k \in Key : n[k].owner = l[k].owner /\ n[k].space = l[k].space
        /\ n[from].data = d /\ n[to].data = e
        /\ \A k \in Key \ {from, to} : n[k] = l[k]
        /\ IsNative(l[from].data) => /\ n[from].lamports = l[from].lamports - x
                                     /\ n[to].lamports = l[to].lamports + x
        /\ ~IsNative(l[from].data) => /\ n[from].lamports = l[from].lamports
                                      /\ n[to].lamports = l[to].lamports
    BY <1>2, TransferPostFields
  <2> HIDE DEF n
  <2>2. l[from].lamports \in Nat /\ l[to].lamports \in Nat /\ x \in Nat
    BY LedgerFields, RentAssumption, SMTT(30) DEF U64
  <2>3. l[from].lamports + l[to].lamports = n[from].lamports + n[to].lamports
    BY <2>1, <2>2, SMTT(30)
  <2>4. \A k \in Key \ {from, to} : n[k].lamports = l[k].lamports
    BY <2>1, Zenon
  <2>5. l \in [Key -> AccountWith(TokenDatum)] /\ n \in [Key -> AccountWith(TokenDatum)]
    BY <2>1, Zenon DEF TokenLedger
  <2>6. TotalLamports(n) = TotalLamports(l)
    BY <1>2, <2>3, <2>4, <2>5, TotalMoved, SMTT(30)
  <2> QED
    BY <2>6, Zenon DEF n
<1> QED
  BY <1>1, <1>2, Zenon

(* process_close_account leaves the destination with what the account had. *)
LEMMA CloseTotal ==
    ASSUME NEW l \in TokenLedger, NEW k \in Key, NEW dest \in Key, NEW auth, NEW S,
           ProcessCloseOk(l, k, dest, auth, S)
    PROVE  TotalLamports(ProcessClosePost(l, k, dest)) = TotalLamports(l)
<1> DEFINE x == l[k].lamports
           p == MoveLamports(l, k, dest, x)
<1>1. k # dest /\ l[dest].lamports + x <= U64Max
  BY Zenon DEF ProcessCloseOk
<1>2. x \in Nat /\ x \in U64 /\ l[dest].lamports \in Nat
  BY LedgerFields, RentAssumption, SMTT(30) DEF U64
<1>3. /\ p \in TokenLedger
      /\ \A j \in Key \ {k, dest} : p[j] = l[j]
      /\ p[k].lamports = WrapSub(x, x)
      /\ p[dest].lamports = WrapAdd(l[dest].lamports, x)
  BY <1>1, <1>2, MoveLamportsFields DEF TokenLedger
<1> HIDE DEF p
<1>4. l \in [Key -> AccountWith(TokenDatum)] /\ p \in [Key -> AccountWith(TokenDatum)]
  BY <1>3, Zenon DEF TokenLedger
<1>5. l[k].lamports + l[dest].lamports = p[k].lamports + p[dest].lamports
  <2>1. WrapAdd(l[dest].lamports, x) = l[dest].lamports + x
    BY <1>1, Zenon DEF WrapAdd
  <2>2. WrapSub(x, x) = 0
    BY <1>2, SMTT(30) DEF WrapSub
  <2> QED
    BY <1>2, <1>3, <2>1, <2>2, SMTT(30)
<1>6. \A j \in Key \ {k, dest} : p[j].lamports = l[j].lamports
  BY <1>3, Zenon
<1>7. TotalLamports(p) = TotalLamports(l)
  BY <1>1, <1>4, <1>5, <1>6, TotalMoved, SMTT(30)
<1>8. TotalLamports(SetData(p, k, Zeroed)) = TotalLamports(p)
  BY <1>4, TotalSetData, Zenon
<1> QED
  BY <1>7, <1>8, Zenon DEF p, ProcessClosePost

(* The instructions of the system program. *)
LEMMA SystemBalanced ==
    ASSUME TokenInv, NEW u \in Users, Allocate(u) \/ Fund(u)
    PROVE  BalancedInstruction
<1>1. work \in [Key -> AccountWith(TokenDatum)] /\ u \in Key /\ Zeroed \in TokenDatum
  BY BankAssumption, Zenon DEF TokenInv, LedgerInv, TokenLedger, TokenDatum
<1>2. Mints \cup TokenAccounts \cup Multisigs \subseteq Key /\ Funds \subseteq U64
  BY TokenAssumption, Zenon
<1>3. ASSUME NEW k \in Key, NEW x \in U64, NEW len \in Nat, CreateAccount(u, k, x, len)
      PROVE  BalancedInstruction
  BY <1>1, <1>3, TotalAccountCreated, Zenon DEF CreateAccount, BalancedInstruction
<1>4. CASE Allocate(u)
  <2>1. MINT_LEN \in Nat /\ ACCOUNT_LEN \in Nat /\ MULTISIG_LEN \in Nat
    BY SMTT(30) DEF MINT_LEN, ACCOUNT_LEN, MULTISIG_LEN
  <2>2. \E x \in Funds, k \in Key, len \in Nat : CreateAccount(u, k, x, len)
    BY <1>2, <1>4, <2>1, Zenon DEF Allocate, TokenAccounts
  <2> QED
    BY <1>2, <1>3, <2>2, Zenon
<1>5. CASE Fund(u)
  <2>1. PICK k \in TokenAccounts, x \in Funds : SystemTransfer(u, k, x)
    BY <1>5, Zenon DEF Fund
  <2>2. /\ k \in Key /\ x \in U64 /\ TransferOk(work, u, k, x)
        /\ Instruction(Transferred(work, u, k, x))
    BY <1>2, <2>1, Zenon DEF SystemTransfer
  <2> QED
    BY <1>1, <2>2, TotalTransferred, Zenon DEF BalancedInstruction
<1> QED
  BY <1>4, <1>5, Zenon

(* An instruction that writes the data of one account. *)
LEMMA DataBalanced ==
    ASSUME TokenInv, NEW k \in Key, NEW d, TokenInstruction(SetData(work, k, d))
    PROVE  BalancedInstruction
<1>1. work \in [Key -> AccountWith(TokenDatum)]
  BY Zenon DEF TokenInv, LedgerInv, TokenLedger
<1>2. TotalLamports(SetData(work, k, d)) = TotalLamports(work)
  BY <1>1, TotalSetData, Zenon
<1> QED
  BY <1>2, Zenon DEF TokenInstruction, BalancedInstruction

(* The instructions of the token program that need no authority. *)
LEMMA UnsignedBalanced ==
    ASSUME TokenInv, Unsigned
    PROVE  BalancedInstruction
<1>1. Mints \subseteq Key /\ TokenAccounts \subseteq Key /\ Multisigs \subseteq Key
  BY TokenAssumption, Zenon
<1>2. ASSUME NEW k \in Mints, NEW a, NEW f, InitializeMint(k, a, f)
      PROVE  BalancedInstruction
  BY <1>1, <1>2, DataBalanced, Zenon DEF InitializeMint, InitializeMintPost
<1>3. ASSUME NEW k \in TokenAccounts, NEW m, NEW o, InitializeAccount(k, m, o)
      PROVE  BalancedInstruction
  BY <1>1, <1>3, DataBalanced, Zenon DEF InitializeAccount, InitializeAccountPost
<1>4. ASSUME NEW k \in Multisigs, NEW s, NEW m, InitializeMultisig(k, m, s)
      PROVE  BalancedInstruction
  BY <1>1, <1>4, DataBalanced, Zenon DEF InitializeMultisig
<1>5. ASSUME NEW k \in TokenAccounts, SyncNative(k)
      PROVE  BalancedInstruction
  BY <1>1, <1>5, DataBalanced, Zenon DEF SyncNative, SyncNativePost
<1> QED
  BY <1>2, <1>3, <1>4, <1>5, Zenon DEF Unsigned

(* The instructions of the token program that an authority signs. *)
LEMMA AuthorityBalanced ==
    ASSUME TokenInv, NEW auth, NEW S, AsAuthority(auth, S)
    PROVE  BalancedInstruction
<1>1. /\ work \in TokenLedger
      /\ Mints \subseteq Key /\ TokenAccounts \subseteq Key /\ Users \subseteq Key
      /\ Amounts \subseteq U64
  BY BankAssumption, TokenAssumption, Zenon DEF TokenInv, LedgerInv
<1>2. ASSUME NEW k \in TokenAccounts, NEW to \in TokenAccounts, NEW x \in Amounts,
             Transfer(k, to, auth, S, x)
      PROVE  BalancedInstruction
  <2>1. k \in Key /\ to \in Key /\ x \in U64
    BY <1>1, Zenon
  <2>2. /\ ProcessTransferOk(work, k, to, auth, S, x)
        /\ Instruction(ProcessTransferPost(work, k, to, auth, x))
    BY <1>2, Zenon DEF Transfer, TokenInstruction
  <2>3. TotalLamports(ProcessTransferPost(work, k, to, auth, x)) = TotalLamports(work)
    BY <1>1, <2>1, <2>2, TransferTotal, SMTT(30)
  <2> QED
    BY <2>2, <2>3, Zenon DEF BalancedInstruction
<1>3. ASSUME NEW k \in TokenAccounts, NEW d, NEW x, Approve(k, d, auth, S, x)
      PROVE  BalancedInstruction
  BY <1>1, <1>3, DataBalanced, Zenon DEF Approve, ProcessApprovePost
<1>4. ASSUME NEW k \in TokenAccounts, Revoke(k, auth, S)
      PROVE  BalancedInstruction
  BY <1>1, <1>4, DataBalanced, Zenon DEF Revoke, ProcessRevokePost
<1>5. ASSUME NEW k \in TokenAccounts, NEW new, SetOwner(k, new, auth, S)
      PROVE  BalancedInstruction
  BY <1>1, <1>5, DataBalanced, Zenon DEF SetOwner, SetOwnerPost
<1>6. ASSUME NEW k \in TokenAccounts, NEW new, SetCloseAuthority(k, new, auth, S)
      PROVE  BalancedInstruction
  BY <1>1, <1>6, DataBalanced, Zenon DEF SetCloseAuthority, SetCloseAuthorityPost
<1>7. ASSUME NEW k \in Mints, NEW new, SetMintAuthority(k, new, auth, S)
      PROVE  BalancedInstruction
  BY <1>1, <1>7, DataBalanced, Zenon DEF SetMintAuthority, SetMintAuthorityPost
<1>8. ASSUME NEW k \in Mints, NEW new, SetFreezeAuthority(k, new, auth, S)
      PROVE  BalancedInstruction
  BY <1>1, <1>8, DataBalanced, Zenon DEF SetFreezeAuthority, SetFreezeAuthorityPost
<1>9. ASSUME NEW m \in Mints, NEW k \in TokenAccounts, NEW x, MintTo(m, k, auth, S, x)
      PROVE  BalancedInstruction
  <2>1. k \in Key /\ m \in Key
    BY <1>1, Zenon
  <2> DEFINE d == [work[k].data EXCEPT !.amount = @ + x]
             e == [work[m].data EXCEPT !.supply = @ + x]
  <2>2. ProcessMintToPost(work, m, k, x) = SetData(SetData(work, k, d), m, e)
    BY Zenon DEF ProcessMintToPost
  <2> HIDE DEF d, e
  <2>3. TotalLamports(SetData(SetData(work, k, d), m, e)) = TotalLamports(work)
    BY <1>1, <2>1, TotalSetTwo, SMTT(30)
  <2>4. TotalLamports(ProcessMintToPost(work, m, k, x)) = TotalLamports(work)
    BY <2>2, <2>3, Zenon
  <2> QED
    BY <1>9, <2>4, Zenon DEF MintTo, TokenInstruction, BalancedInstruction
<1>10. ASSUME NEW m \in Mints, NEW k \in TokenAccounts, NEW x, Burn(m, k, auth, S, x)
       PROVE  BalancedInstruction
  <2>1. k \in Key /\ m \in Key
    BY <1>1, Zenon
  <2> DEFINE d == Spent(work[k].data, auth, x)
             e == [work[m].data EXCEPT !.supply = @ - x]
  <2>2. ProcessBurnPost(work, m, k, auth, x) = SetData(SetData(work, k, d), m, e)
    BY Zenon DEF ProcessBurnPost
  <2> HIDE DEF d, e
  <2>3. TotalLamports(SetData(SetData(work, k, d), m, e)) = TotalLamports(work)
    BY <1>1, <2>1, TotalSetTwo, SMTT(30)
  <2>4. TotalLamports(ProcessBurnPost(work, m, k, auth, x)) = TotalLamports(work)
    BY <2>2, <2>3, Zenon
  <2> QED
    BY <1>10, <2>4, Zenon DEF Burn, TokenInstruction, BalancedInstruction
<1>11. ASSUME NEW k \in TokenAccounts, NEW dest \in Users \cup TokenAccounts,
              CloseAccount(k, dest, auth, S)
       PROVE  BalancedInstruction
  <2>1. k \in Key /\ dest \in Key
    BY <1>1, Zenon
  <2> QED
    BY <1>1, <1>11, <2>1, CloseTotal, Zenon
       DEF CloseAccount, TokenInstruction, BalancedInstruction
<1>12. ASSUME NEW m, NEW k \in TokenAccounts, NEW freeze,
              ToggleFreezeAccount(m, k, auth, S, freeze)
       PROVE  BalancedInstruction
  BY <1>1, <1>12, DataBalanced, Zenon DEF ToggleFreezeAccount, ToggleFreezePost
<1> QED
  BY <1>2, <1>3, <1>4, <1>5, <1>6, <1>7, <1>8, <1>9, <1>10, <1>11, <1>12, Zenon DEF AsAuthority

(* What a transaction does around its instructions. *)
LEMMA TransactionAccounted ==
    ASSUME TokenInv, Accounted,
           \/ \E p \in Payers : Begin(p)
           \/ Commit \/ Fail
           \/ UNCHANGED bankVars
    PROVE  Accounted'
<1>1. BankInv(TokenDatum) /\ Zeroed \in TokenDatum
  BY Zenon DEF TokenInv, TokenDatum
<1> QED
  BY <1>1, AccountedBegin, AccountedCommit, AccountedFail, AccountedStutter, Zenon

(* Every step accounts for all the lamports. *)
LEMMA NextAccounted ==
    ASSUME TokenInv, Accounted, [Next]_bankVars
    PROVE  Accounted'
<1>1. ASSUME BalancedInstruction
      PROVE  Accounted'
  BY <1>1, AccountedInstruction, Zenon DEF BalancedInstruction
<1>2. ASSUME NEW u \in Users, Allocate(u) \/ Fund(u)
      PROVE  Accounted'
  BY <1>1, <1>2, SystemBalanced, Zenon
<1>3. ASSUME Unsigned
      PROVE  Accounted'
  BY <1>1, <1>3, UnsignedBalanced, Zenon
<1>4. ASSUME NEW auth, NEW S, AsAuthority(auth, S)
      PROVE  Accounted'
  BY <1>1, <1>4, AuthorityBalanced, Zenon
<1> QED
  BY <1>2, <1>3, <1>4, TransactionAccounted, Zenon DEF Next

(* The token program creates and destroys no lamports (process_transfer    *)
(* and process_close_account move those of wrapped accounts): the check of *)
(* the sum that the runtime makes after an instruction, which              *)
(* TokenInstruction leaves out, would never fail.                          *)
THEOREM TokenLamportsConserved == Spec => []Conservation
<1>1. Init => Accounted
  BY AccountedInit, Zenon DEF Init
<1>2. TokenInv /\ Accounted /\ [Next]_bankVars => Accounted'
  BY NextAccounted, Zenon
<1>3. Accounted => Conservation
  BY Zenon DEF Accounted
<1> QED
  BY <1>1, <1>2, <1>3, TokenInvariant, PTL DEF Spec

=============================================================================
