----------------------------- MODULE BankProofs -----------------------------
(***************************************************************************)
(* Facts about the ledger operators of Accounts and about the transaction  *)
(* steps of Bank, for any program: D is the set of values its accounts'    *)
(* data can have.  The proofs about a program rest on them.                *)
(***************************************************************************)
EXTENDS Bank, SumTheorems

(* Wrapping u64 arithmetic stays in u64. *)
LEMMA WrapType ==
    ASSUME NEW a \in U64, NEW b \in U64
    PROVE  WrapAdd(a, b) \in U64 /\ WrapSub(a, b) \in U64
BY RentAssumption DEF WrapAdd, WrapSub, U64

(* The fields of the accounts of a ledger. *)
LEMMA FieldTypes ==
    ASSUME NEW D, NEW l \in [Key -> AccountWith(D)]
    PROVE  \A k \in Key : /\ l[k].lamports \in U64
                          /\ l[k].lamports \in Nat
                          /\ l[k].lamports <= U64Max
                          /\ l[k].space \in Nat
                          /\ l[k].data \in D
<1>1. \A k \in Key : l[k].lamports \in U64 /\ l[k].space \in Nat /\ l[k].data \in D
  BY DEF AccountWith
<1>2. \A x \in U64 : x \in Nat /\ x <= U64Max
  BY RentAssumption DEF U64
<1> QED BY <1>1, <1>2

(* Writing a balance or the data of one account changes nothing else. *)
LEMMA SetLamportsFields ==
    ASSUME NEW D, NEW l \in [Key -> AccountWith(D)], NEW k \in Key, NEW n \in U64
    PROVE  /\ SetLamports(l, k, n) \in [Key -> AccountWith(D)]
           /\ SetLamports(l, k, n)[k] = [lamports |-> n, owner |-> l[k].owner,
                                         space |-> l[k].space, data |-> l[k].data]
           /\ \A j \in Key \ {k} : SetLamports(l, k, n)[j] = l[j]
BY DEF SetLamports, AccountWith

(* Writing the data of one account (borrow_mut of its data) leaves every   *)
(* other field and every other account as it was.                          *)
LEMMA SetDataFields ==
    ASSUME NEW D, NEW l \in [Key -> AccountWith(D)], NEW k \in Key, NEW d \in D
    PROVE  /\ SetData(l, k, d) \in [Key -> AccountWith(D)]
           /\ SetData(l, k, d)[k] = [lamports |-> l[k].lamports, owner |-> l[k].owner,
                                     space |-> l[k].space, data |-> d]
           /\ \A j \in Key \ {k} : SetData(l, k, d)[j] = l[j]
           /\ \A j \in Key : /\ SetData(l, k, d)[j].lamports = l[j].lamports
                             /\ SetData(l, k, d)[j].owner = l[j].owner
                             /\ SetData(l, k, d)[j].space = l[j].space
<1>1. /\ SetData(l, k, d) \in [Key -> AccountWith(D)]
      /\ SetData(l, k, d)[k] = [lamports |-> l[k].lamports, owner |-> l[k].owner,
                                space |-> l[k].space, data |-> d]
      /\ \A j \in Key \ {k} : SetData(l, k, d)[j] = l[j]
  BY DEF SetData, AccountWith
<1>2. ASSUME NEW j \in Key
      PROVE  /\ SetData(l, k, d)[j].lamports = l[j].lamports
             /\ SetData(l, k, d)[j].owner = l[j].owner
             /\ SetData(l, k, d)[j].space = l[j].space
  <2>1. CASE j = k
    BY <1>1, <2>1
  <2>2. CASE j # k
    BY <1>1, <2>2
  <2> QED BY <2>1, <2>2
<1> QED BY <1>1, <1>2

(* Moving lamports writes two balances and nothing else. *)
LEMMA MoveLamportsFields ==
    ASSUME NEW D, NEW l \in [Key -> AccountWith(D)],
           NEW from \in Key, NEW to \in Key, NEW n \in U64
    PROVE  LET m == MoveLamports(l, from, to, n)
           IN  /\ m \in [Key -> AccountWith(D)]
               /\ \A k \in Key : /\ m[k].owner = l[k].owner
                                 /\ m[k].space = l[k].space
                                 /\ m[k].data = l[k].data
               /\ \A k \in Key \ {from, to} : m[k] = l[k]
               /\ from # to => /\ m[from].lamports = WrapSub(l[from].lamports, n)
                               /\ m[to].lamports = WrapAdd(l[to].lamports, n)
               /\ from = to => m[from].lamports = l[from].lamports
<1> DEFINE low  == WrapSub(l[from].lamports, n)
           deb  == SetLamports(l, from, low)
           high == WrapAdd(deb[to].lamports, n)
           m    == SetLamports(deb, to, high)
<1>1. MoveLamports(l, from, to, n) = m
  BY DEF MoveLamports
<1>2. \A k \in Key : l[k].lamports \in U64
  BY DEF AccountWith
<1>3. low \in U64
  BY <1>2, WrapType
<1> HIDE DEF low
<1>4. /\ deb \in [Key -> AccountWith(D)]
      /\ deb[from] = [lamports |-> low, owner |-> l[from].owner,
                      space |-> l[from].space, data |-> l[from].data]
      /\ \A j \in Key \ {from} : deb[j] = l[j]
  BY <1>3, SetLamportsFields
<1> HIDE DEF deb
<1>5. high \in U64
  <2>1. deb[to].lamports \in U64
    BY <1>4 DEF AccountWith
  <2> QED BY <2>1, WrapType
<1> HIDE DEF high
<1>6. /\ m \in [Key -> AccountWith(D)]
      /\ m[to] = [lamports |-> high, owner |-> deb[to].owner,
                  space |-> deb[to].space, data |-> deb[to].data]
      /\ \A j \in Key \ {to} : m[j] = deb[j]
  BY <1>4, <1>5, SetLamportsFields
<1> HIDE DEF m
<1>7. \A k \in Key : m[k].owner = l[k].owner /\ m[k].space = l[k].space
                                             /\ m[k].data = l[k].data
  BY <1>4, <1>6
<1>8. \A k \in Key \ {from, to} : m[k] = l[k]
  BY <1>4, <1>6
<1>9. from # to => m[from].lamports = low /\ m[to].lamports = WrapAdd(l[to].lamports, n)
  BY <1>4, <1>6 DEF high
<1>10. from = to => m[from].lamports = l[from].lamports
  <2> SUFFICES ASSUME from = to PROVE m[from].lamports = l[from].lamports
    OBVIOUS
  <2>1. m[from].lamports = WrapAdd(low, n)
    BY <1>4, <1>6 DEF high
  <2>2. WrapAdd(WrapSub(l[from].lamports, n), n) = l[from].lamports
    BY <1>2, RentAssumption DEF WrapAdd, WrapSub, U64
  <2> QED BY <2>1, <2>2 DEF low
<1> QED BY <1>1, <1>6, <1>7, <1>8, <1>9, <1>10 DEF low

-----------------------------------------------------------------------------
(* System program *)

(* A rent-exempt minimum is a positive natural number. *)
LEMMA MinimumBalanceType ==
    ASSUME NEW space \in Nat
    PROVE  MinimumBalance(space) \in Nat /\ MinimumBalance(space) > 0
<1> DEFINE s == AccountStorageOverhead + space
<1>1. s \in Nat /\ s > 0
  BY DEF AccountStorageOverhead
<1>2. LamportsPerByte \in Nat /\ LamportsPerByte > 0
  BY RentAssumption
<1>3. \A x, y \in Nat : x > 0 /\ y > 0 => x * y \in Nat /\ x * y > 0
  OBVIOUS
<1> HIDE DEF s
<1>4. s * LamportsPerByte \in Nat /\ s * LamportsPerByte > 0
  BY <1>1, <1>2, <1>3
<1> QED BY <1>4 DEF s, MinimumBalance

(* A successful transfer between two accounts never wraps a balance. *)
LEMMA TransferredFields ==
    ASSUME NEW D, NEW l \in [Key -> AccountWith(D)],
           NEW from \in Key, NEW to \in Key, NEW n \in U64,
           TransferOk(l, from, to, n)
    PROVE  LET m == Transferred(l, from, to, n)
           IN  /\ m \in [Key -> AccountWith(D)]
               /\ \A k \in Key : /\ m[k].owner = l[k].owner
                                 /\ m[k].space = l[k].space
                                 /\ m[k].data = l[k].data
               /\ \A k \in Key \ {from, to} : m[k] = l[k]
               /\ from # to => /\ m[from].lamports = l[from].lamports - n
                               /\ m[to].lamports = l[to].lamports + n
               /\ from = to => m[from].lamports = l[from].lamports
<1>1. \A k \in Key : l[k].lamports \in U64
  BY DEF AccountWith
<1>2. WrapSub(l[from].lamports, n) = l[from].lamports - n
  BY <1>1, RentAssumption DEF WrapSub, TransferOk, U64
<1>3. from # to => WrapAdd(l[to].lamports, n) = l[to].lamports + n
  BY DEF WrapAdd, TransferOk
<1> QED BY <1>2, <1>3, MoveLamportsFields DEF Transferred

(* create_account makes one account, with zeroed data and exactly n        *)
(* lamports, at the expense of one other, for the program p.               *)
LEMMA CreatedFor ==
    ASSUME NEW D, Zeroed \in D, NEW l \in [Key -> AccountWith(D)],
           NEW from \in Key, NEW to \in Key, NEW n \in U64, NEW space \in Nat,
           NEW p \in Programs, CreateAccountOk(l, from, to, n)
    PROVE  LET m == AccountCreated(l, from, to, n, space, p)
           IN  /\ m \in [Key -> AccountWith(D)]
               /\ m[to] = [lamports |-> n, owner |-> p,
                           space |-> space, data |-> Zeroed]
               /\ m[from] = [lamports |-> l[from].lamports - n, owner |-> l[from].owner,
                             space |-> l[from].space, data |-> l[from].data]
               /\ \A k \in Key \ {from, to} : m[k] = l[k]
<1> DEFINE a == [l EXCEPT ![to] = [@ EXCEPT !.space = space,
                                            !.data  = Zeroed,
                                            !.owner = p]]
           m == Transferred(a, from, to, n)
<1>1. AccountCreated(l, from, to, n, space, p) = m
  BY DEF AccountCreated
<1>2. from # to /\ l[to].lamports = 0 /\ TransferOk(l, from, to, n)
  BY DEF CreateAccountOk
<1>3. /\ a \in [Key -> AccountWith(D)]
      /\ a[to] = [lamports |-> l[to].lamports, owner |-> p,
                  space |-> space, data |-> Zeroed]
      /\ \A k \in Key \ {to} : a[k] = l[k]
  BY DEF AccountWith
<1> HIDE DEF a
<1>4. TransferOk(a, from, to, n)
  BY <1>2, <1>3 DEF TransferOk
<1>5. /\ m \in [Key -> AccountWith(D)]
      /\ \A k \in Key : /\ m[k].owner = a[k].owner
                        /\ m[k].space = a[k].space
                        /\ m[k].data = a[k].data
      /\ \A k \in Key \ {from, to} : m[k] = a[k]
      /\ m[from].lamports = a[from].lamports - n
      /\ m[to].lamports = a[to].lamports + n
  BY <1>2, <1>3, <1>4, TransferredFields
<1> HIDE DEF m
<1>6. \A k \in Key : m[k] = [lamports |-> m[k].lamports, owner |-> m[k].owner,
                             space |-> m[k].space, data |-> m[k].data]
  BY <1>5 DEF AccountWith
<1>7. m[to].lamports = n
  BY <1>2, <1>3, <1>5 DEF U64
<1> QED BY <1>1, <1>2, <1>3, <1>5, <1>6, <1>7

(* The same for the program under study, which is one of the programs.     *)
LEMMA AccountCreatedFields ==
    ASSUME NEW D, Zeroed \in D, NEW l \in [Key -> AccountWith(D)],
           NEW from \in Key, NEW to \in Key, NEW n \in U64, NEW space \in Nat,
           CreateAccountOk(l, from, to, n)
    PROVE  LET m == AccountCreated(l, from, to, n, space, Program)
           IN  /\ m \in [Key -> AccountWith(D)]
               /\ m[to] = [lamports |-> n, owner |-> Program,
                           space |-> space, data |-> Zeroed]
               /\ m[from] = [lamports |-> l[from].lamports - n, owner |-> l[from].owner,
                             space |-> l[from].space, data |-> l[from].data]
               /\ \A k \in Key \ {from, to} : m[k] = l[k]
<1>1. Program \in Programs
  BY ProgramsOwn, Zenon
<1> QED BY <1>1, CreatedFor

-----------------------------------------------------------------------------
(* Transactions *)

(* While a transaction is open, its payer can pay for it. *)
OpenPayerOk == payer # NoPayer => FeePayerOk(payer)

(* The inductive invariant of the transaction steps. *)
BankInv(D) == BankTypeOK(D) /\ OpenPayerOk /\ RentExempt

(* The loaded accounts differ from the stored ones in the payer's balance, *)
(* and none of them is rent-paying.                                        *)
LEMMA LoadedFields ==
    ASSUME NEW D, BankInv(D), NEW p \in Payers, FeePayerOk(p)
    PROVE  /\ Loaded(p) \in [Key -> AccountWith(D)]
           /\ Loaded(p)[p] = [accounts[p] EXCEPT !.lamports = @ - Fee]
           /\ \A k \in Key \ {p} : Loaded(p)[k] = accounts[k]
           /\ \A k \in Key : ~RentPaying(Loaded(p)[k])
<1>1. p \in Key /\ accounts \in [Key -> AccountWith(D)]
  BY BankAssumption DEF BankInv, BankTypeOK
<1>2. accounts[p].lamports - Fee \in U64
  BY <1>1, BankAssumption, RentAssumption DEF FeePayerOk, AccountWith, U64
<1>3. /\ Loaded(p) \in [Key -> AccountWith(D)]
      /\ Loaded(p)[p] = [lamports |-> accounts[p].lamports - Fee,
                         owner |-> accounts[p].owner,
                         space |-> accounts[p].space, data |-> accounts[p].data]
      /\ \A k \in Key \ {p} : Loaded(p)[k] = accounts[k]
  BY <1>1, <1>2, SetLamportsFields DEF Loaded
<1>4. Loaded(p)[p] = [accounts[p] EXCEPT !.lamports = @ - Fee]
  BY <1>1, <1>3 DEF AccountWith
<1>5. ~RentPaying(Loaded(p)[p])
  BY <1>1 DEF FeePayerOk, TransitionAllowed, BankInv, RentExempt
<1>6. \A k \in Key \ {p} : ~RentPaying(Loaded(p)[k])
  BY <1>3 DEF BankInv, RentExempt
<1> QED BY <1>3, <1>4, <1>5, <1>6

(* Storing accounts none of which is rent-paying. *)
LEMMA PurgedFields ==
    ASSUME NEW D, Zeroed \in D, NEW l \in [Key -> AccountWith(D)]
    PROVE  /\ Purged(l) \in [Key -> AccountWith(D)]
           /\ \A k \in Key : Purged(l)[k] = IF l[k].lamports = 0
                                            THEN DefaultAccount ELSE l[k]
           /\ (\A k \in Key : ~RentPaying(l[k])) =>
                  \A k \in Key : ~RentPaying(Purged(l)[k])
<1>1. DefaultAccount \in AccountWith(D)
  BY RentAssumption, ProgramsOwn DEF DefaultAccount, AccountWith, U64
<1>2. ~RentPaying(DefaultAccount)
  BY DEF DefaultAccount, RentPaying
<1>3. /\ Purged(l) \in [Key -> AccountWith(D)]
      /\ \A k \in Key : Purged(l)[k] = IF l[k].lamports = 0
                                       THEN DefaultAccount ELSE l[k]
  BY <1>1 DEF Purged
<1> QED BY <1>2, <1>3

(* The end of a transaction, whichever accounts it stores. *)
LEMMA EndKeepsBankInv ==
    ASSUME NEW D, Zeroed \in D, BankInv(D), NEW l \in [Key -> AccountWith(D)],
           \A k \in Key : ~RentPaying(l[k]), End(l)
    PROVE  BankInv(D)'
<1>1. BankTypeOK(D)'
  BY PurgedFields, BankAssumption DEF End, BankInv, BankTypeOK
<1>2. OpenPayerOk'
  BY DEF End, OpenPayerOk
<1>3. RentExempt'
  BY PurgedFields DEF End, RentExempt
<1> QED BY <1>1, <1>2, <1>3 DEF BankInv

(* The genesis accounts satisfy the invariant of the bank. *)
LEMMA BankInvInit ==
    ASSUME NEW D, Zeroed \in D, BankInit
    PROVE  BankInv(D)
<1>1. Genesis \in [Key -> AccountWith(D)]
  BY GenesisAssumption, ProgramsOwn DEF AccountWith
<1> QED BY <1>1, GenesisAssumption, BankAssumption
        DEF BankInit, BankInv, BankTypeOK, OpenPayerOk, RentExempt

(* Loading the accounts and charging the fee payer (load_transaction,      *)
(* validate_fee_payer) preserves the invariant of the bank.                *)
LEMMA BankInvBegin ==
    ASSUME NEW D, BankInv(D), NEW p \in Payers, Begin(p)
    PROVE  BankInv(D)'
<1>1. Loaded(p) \in [Key -> AccountWith(D)]
  BY LoadedFields DEF Begin
<1>2. BankTypeOK(D)'
  BY <1>1 DEF Begin, BankInv, BankTypeOK
<1>3. OpenPayerOk'
  BY DEF Begin, OpenPayerOk, FeePayerOk, Loaded
<1>4. RentExempt'
  BY DEF Begin, BankInv, RentExempt
<1> QED BY <1>2, <1>3, <1>4 DEF BankInv

(* An instruction that leaves well-typed accounts (process_message)        *)
(* preserves the invariant of the bank.                                    *)
LEMMA BankInvInstruction ==
    ASSUME NEW D, BankInv(D), NEW post \in [Key -> AccountWith(D)], Instruction(post)
    PROVE  BankInv(D)'
<1>1. BankTypeOK(D)'
  BY BankAssumption DEF Instruction, BankInv, BankTypeOK
<1>2. OpenPayerOk' /\ RentExempt'
  BY DEF Instruction, BankInv, OpenPayerOk, FeePayerOk, Loaded, RentExempt
<1> QED BY <1>1, <1>2 DEF BankInv

(* Storing the accounts of a transaction that passed the rent-state check  *)
(* preserves the invariant of the bank.                                    *)
LEMMA BankInvCommit ==
    ASSUME NEW D, Zeroed \in D, BankInv(D), Commit
    PROVE  BankInv(D)'
<1>1. payer \in Payers /\ FeePayerOk(payer) /\ work \in [Key -> AccountWith(D)]
  BY DEF Commit, BankInv, BankTypeOK, OpenPayerOk
<1>2. \A k \in Key : ~RentPaying(Loaded(payer)[k])
  BY <1>1, LoadedFields
<1>3. \A k \in Key : ~RentPaying(work[k])
  BY <1>2 DEF Commit, RentStatesOk, TransitionAllowed
<1> QED BY <1>1, <1>3, EndKeepsBankInv DEF Commit

(* Charging a failed transaction and dropping its changes preserves the    *)
(* invariant of the bank.                                                  *)
LEMMA BankInvFail ==
    ASSUME NEW D, Zeroed \in D, BankInv(D), Fail
    PROVE  BankInv(D)'
<1>1. payer \in Payers /\ FeePayerOk(payer)
  BY DEF Fail, BankInv, BankTypeOK, OpenPayerOk
<1> QED BY <1>1, LoadedFields, EndKeepsBankInv DEF Fail

(* A step that changes nothing preserves the invariant of the bank. *)
LEMMA BankInvStutter ==
    ASSUME NEW D, BankInv(D), UNCHANGED bankVars
    PROVE  BankInv(D)'
BY DEF bankVars, BankInv, BankTypeOK, OpenPayerOk, FeePayerOk, Loaded, RentExempt

-----------------------------------------------------------------------------
(* Lamports are conserved *)

LamportsOf(l) == [k \in Key |-> l[k].lamports]

(* The sum of the balances of a ledger; no two accounts together hold more *)
(* than that.                                                              *)
LEMMA TotalType ==
    ASSUME NEW D, NEW l \in [Key -> AccountWith(D)]
    PROVE  /\ TotalLamports(l) \in Nat
           /\ \A k \in Key : l[k].lamports <= TotalLamports(l)
           /\ \A j, k \in Key : j # k =>
                  l[j].lamports + l[k].lamports <= TotalLamports(l)
<1>1. \A k \in Key : LamportsOf(l)[k] = l[k].lamports /\ LamportsOf(l)[k] \in Nat
  BY FieldTypes DEF LamportsOf
<1>2. TotalLamports(l) = SumFunctionOnSet(LamportsOf(l), Key)
  BY DEF TotalLamports, LamportsOf
<1>3. TotalLamports(l) \in Nat
  BY <1>1, <1>2, CapitalizationAssumption, SumType
<1>4. \A j \in Key : LamportsOf(l)[j] <= TotalLamports(l)
  BY <1>1, <1>2, CapitalizationAssumption, SumBound
<1>5. \A j, k \in Key : j # k => LamportsOf(l)[j] + LamportsOf(l)[k] <= TotalLamports(l)
  BY <1>1, <1>2, CapitalizationAssumption, SumBound
<1> QED BY <1>1, <1>3, <1>4, <1>5

(* Ledgers with the same balances have the same sum. *)
LEMMA TotalSame ==
    ASSUME NEW l, NEW m, \A k \in Key : m[k].lamports = l[k].lamports
    PROVE  TotalLamports(m) = TotalLamports(l)
BY DEF TotalLamports

(* Moving lamports between two accounts leaves the sum as it was. *)
LEMMA TotalMoved ==
    ASSUME NEW D, NEW l \in [Key -> AccountWith(D)], NEW m \in [Key -> AccountWith(D)],
           NEW j \in Key, NEW k \in Key, j # k,
           \A i \in Key \ {j, k} : m[i].lamports = l[i].lamports,
           l[j].lamports + l[k].lamports = m[j].lamports + m[k].lamports
    PROVE  TotalLamports(m) = TotalLamports(l)
<1>1. \A i \in Key : /\ LamportsOf(l)[i] = l[i].lamports /\ LamportsOf(l)[i] \in Nat
                     /\ LamportsOf(m)[i] = m[i].lamports /\ LamportsOf(m)[i] \in Nat
  BY FieldTypes DEF LamportsOf
<1>2. \A i \in Key \ {j, k} : LamportsOf(m)[i] = LamportsOf(l)[i]
  BY <1>1
<1>3. LamportsOf(l)[j] + LamportsOf(l)[k] = LamportsOf(m)[j] + LamportsOf(m)[k]
  BY <1>1
<1>4. SumFunctionOnSet(LamportsOf(m), Key) = SumFunctionOnSet(LamportsOf(l), Key)
  BY <1>1, <1>2, <1>3, CapitalizationAssumption, SumMove
<1> QED BY <1>4 DEF TotalLamports, LamportsOf

(* Storing a ledger drops no lamports. *)
LEMMA TotalPurged ==
    ASSUME NEW D, Zeroed \in D, NEW l \in [Key -> AccountWith(D)]
    PROVE  TotalLamports(Purged(l)) = TotalLamports(l)
<1>1. \A k \in Key : Purged(l)[k].lamports = l[k].lamports
  BY PurgedFields DEF DefaultAccount
<1> QED BY <1>1, TotalSame

(* Loading the accounts takes the fee and nothing else. *)
LEMMA TotalLoaded ==
    ASSUME NEW D, BankInv(D), NEW p \in Payers, FeePayerOk(p)
    PROVE  TotalLamports(Loaded(p)) + Fee = TotalLamports(accounts)
<1> DEFINE l == accounts
           m == Loaded(p)
<1>1. p \in Key /\ Fee \in Nat
  BY BankAssumption
<1>2. l \in [Key -> AccountWith(D)]
  BY DEF BankInv, BankTypeOK
<1>3. /\ m \in [Key -> AccountWith(D)]
      /\ m[p] = [l[p] EXCEPT !.lamports = @ - Fee]
      /\ \A k \in Key \ {p} : m[k] = l[k]
  BY LoadedFields
<1> HIDE DEF l, m
<1>4. m[p].lamports = l[p].lamports - Fee
  BY <1>1, <1>2, <1>3 DEF AccountWith
<1>5. \A k \in Key : /\ LamportsOf(l)[k] = l[k].lamports /\ LamportsOf(l)[k] \in Nat
                     /\ LamportsOf(m)[k] = m[k].lamports /\ LamportsOf(m)[k] \in Nat
  BY <1>2, <1>3, FieldTypes DEF LamportsOf
<1>6. \A k \in Key \ {p} : LamportsOf(m)[k] = LamportsOf(l)[k]
  BY <1>3, <1>5
<1>7. TotalLamports(m) + LamportsOf(l)[p] = TotalLamports(l) + LamportsOf(m)[p]
  BY <1>1, <1>5, <1>6, CapitalizationAssumption, SumChange DEF TotalLamports, LamportsOf
<1>8. TotalLamports(l) \in Nat /\ TotalLamports(m) \in Nat
  BY <1>2, <1>3, TotalType
<1>9. LamportsOf(l)[p] \in Nat /\ LamportsOf(m)[p] = LamportsOf(l)[p] - Fee
  BY <1>1, <1>4, <1>5
<1>10. TotalLamports(m) + Fee = TotalLamports(l)
  BY <1>1, <1>7, <1>8, <1>9
<1> QED BY <1>10 DEF l, m

(* Writing data moves no lamports. *)
LEMMA TotalSetData ==
    ASSUME NEW D, NEW l \in [Key -> AccountWith(D)], NEW k \in Key, NEW d
    PROVE  TotalLamports(SetData(l, k, d)) = TotalLamports(l)
<1>1. ASSUME NEW j \in Key
      PROVE  SetData(l, k, d)[j].lamports = l[j].lamports
  <2>1. CASE j = k
    BY <2>1 DEF SetData, AccountWith
  <2>2. CASE j # k
    BY <2>2 DEF SetData
  <2> QED BY <2>1, <2>2
<1> QED BY <1>1, TotalSame

(* A move of lamports that the runtime accepts as balanced makes none. *)
LEMMA TotalBalanced ==
    ASSUME NEW D, NEW l \in [Key -> AccountWith(D)],
           NEW from \in Key, NEW to \in Key, NEW n \in U64,
           Balanced(l, MoveLamports(l, from, to, n), from, to)
    PROVE  TotalLamports(MoveLamports(l, from, to, n)) = TotalLamports(l)
<1> DEFINE m == MoveLamports(l, from, to, n)
<1>1. /\ m \in [Key -> AccountWith(D)]
      /\ \A k \in Key \ {from, to} : m[k] = l[k]
      /\ from = to => m[from].lamports = l[from].lamports
  BY MoveLamportsFields
<1>2. Balanced(l, m, from, to)
  OBVIOUS
<1> HIDE DEF m
<1>3. CASE from = to
  <2>1. \A k \in Key : m[k].lamports = l[k].lamports
    BY <1>1, <1>3
  <2> QED BY <2>1, TotalSame DEF m
<1>4. CASE from # to
  <2>1. l[from].lamports + l[to].lamports = m[from].lamports + m[to].lamports
    BY <1>2, <1>4 DEF Balanced
  <2>2. \A k \in Key \ {from, to} : m[k].lamports = l[k].lamports
    BY <1>1
  <2> QED BY <1>1, <1>4, <2>1, <2>2, TotalMoved DEF m
<1> QED BY <1>3, <1>4

(* The system program's transfer is such a move. *)
LEMMA TotalTransferred ==
    ASSUME NEW D, NEW l \in [Key -> AccountWith(D)],
           NEW from \in Key, NEW to \in Key, NEW n \in U64,
           TransferOk(l, from, to, n)
    PROVE  TotalLamports(Transferred(l, from, to, n)) = TotalLamports(l)
<1> DEFINE m == Transferred(l, from, to, n)
<1>1. /\ from # to => /\ m[from].lamports = l[from].lamports - n
                      /\ m[to].lamports = l[to].lamports + n
      /\ from = to => m[from].lamports = l[from].lamports
  BY TransferredFields
<1>2. l[from].lamports \in Nat /\ l[to].lamports \in Nat /\ n \in Nat
  BY FieldTypes, RentAssumption DEF U64
<1> HIDE DEF m
<1>3. Balanced(l, m, from, to)
  BY <1>1, <1>2 DEF Balanced
<1>4. Balanced(l, MoveLamports(l, from, to, n), from, to)
  BY <1>3 DEF m, Transferred
<1> QED BY <1>4, TotalBalanced DEF Transferred

(* create_account pays for the new account out of one other. *)
LEMMA TotalCreatedFor ==
    ASSUME NEW D, Zeroed \in D, NEW l \in [Key -> AccountWith(D)],
           NEW from \in Key, NEW to \in Key, NEW n \in U64, NEW space \in Nat,
           NEW p \in Programs, CreateAccountOk(l, from, to, n)
    PROVE  TotalLamports(AccountCreated(l, from, to, n, space, p)) = TotalLamports(l)
<1> DEFINE m == AccountCreated(l, from, to, n, space, p)
<1>1. /\ m \in [Key -> AccountWith(D)]
      /\ m[to] = [lamports |-> n, owner |-> p, space |-> space, data |-> Zeroed]
      /\ m[from] = [lamports |-> l[from].lamports - n, owner |-> l[from].owner,
                    space |-> l[from].space, data |-> l[from].data]
      /\ \A k \in Key \ {from, to} : m[k] = l[k]
  BY CreatedFor
<1>2. from # to /\ l[to].lamports = 0
  BY DEF CreateAccountOk
<1>3. l[from].lamports \in Nat /\ n \in Nat
  BY FieldTypes, RentAssumption DEF U64
<1> HIDE DEF m
<1>4. m[from].lamports = l[from].lamports - n /\ m[to].lamports = n
  BY <1>1
<1>5. l[from].lamports + l[to].lamports = m[from].lamports + m[to].lamports
  BY <1>2, <1>3, <1>4
<1>6. \A k \in Key \ {from, to} : m[k].lamports = l[k].lamports
  BY <1>1
<1> QED BY <1>1, <1>2, <1>5, <1>6, TotalMoved DEF m

(* The same for the program under study. *)
LEMMA TotalAccountCreated ==
    ASSUME NEW D, Zeroed \in D, NEW l \in [Key -> AccountWith(D)],
           NEW from \in Key, NEW to \in Key, NEW n \in U64, NEW space \in Nat,
           CreateAccountOk(l, from, to, n)
    PROVE  TotalLamports(AccountCreated(l, from, to, n, space, Program)) = TotalLamports(l)
<1>1. Program \in Programs
  BY ProgramsOwn, Zenon
<1> QED BY <1>1, TotalCreatedFor

(* What the open transaction holds, its fee and what was collected before  *)
(* are all the lamports there are.                                         *)
Accounted ==
    /\ Conservation
    /\ payer # NoPayer => TotalLamports(work) + Fee + collected = TotalLamports(Genesis)

(* No lamports are missing at genesis. *)
LEMMA AccountedInit ==
    ASSUME BankInit
    PROVE  Accounted
<1>1. Genesis \in [Key -> AccountWith({Zeroed})]
  BY GenesisAssumption, ProgramsOwn DEF AccountWith
<1>2. TotalLamports(Genesis) \in Nat
  BY <1>1, TotalType
<1> QED BY <1>2 DEF BankInit, Accounted, Conservation

(* Loading the accounts sets the fee aside. *)
LEMMA AccountedBegin ==
    ASSUME NEW D, BankInv(D), Accounted, NEW p \in Payers, Begin(p)
    PROVE  Accounted'
<1>1. /\ accounts' = accounts /\ collected' = collected
      /\ work' = Loaded(p) /\ FeePayerOk(p)
  BY DEF Begin
<1>2. TotalLamports(Loaded(p)) + Fee = TotalLamports(accounts)
  BY <1>1, TotalLoaded
<1>3. Conservation'
  BY <1>1 DEF Accounted, Conservation
<1>4. TotalLamports(work') + Fee + collected' = TotalLamports(Genesis)
  BY <1>1, <1>2 DEF Accounted, Conservation
<1> QED BY <1>3, <1>4 DEF Accounted

(* An instruction that moves lamports between accounts makes none. *)
LEMMA AccountedInstruction ==
    ASSUME Accounted, NEW post, TotalLamports(post) = TotalLamports(work),
           Instruction(post)
    PROVE  Accounted'
<1>1. /\ accounts' = accounts /\ collected' = collected /\ work' = post
      /\ payer # NoPayer
  BY DEF Instruction
<1>2. TotalLamports(work) + Fee + collected = TotalLamports(Genesis)
  BY <1>1 DEF Accounted
<1>3. TotalLamports(work') + Fee + collected' = TotalLamports(Genesis)
  BY <1>1, <1>2
<1>4. Conservation'
  BY <1>1 DEF Accounted, Conservation
<1> QED BY <1>3, <1>4 DEF Accounted

(* The end of a transaction collects the fee that was set aside. *)
LEMMA AccountedEnd ==
    ASSUME NEW D, Zeroed \in D, BankTypeOK(D), NEW l \in [Key -> AccountWith(D)],
           TotalLamports(l) + Fee + collected = TotalLamports(Genesis), End(l)
    PROVE  Accounted'
<1>1. /\ accounts' = Purged(l) /\ payer' = NoPayer /\ collected' = collected + Fee
  BY DEF End
<1>2. TotalLamports(accounts') = TotalLamports(l)
  BY <1>1, TotalPurged
<1>3. TotalLamports(l) \in Nat /\ Fee \in Nat /\ collected \in Nat
  BY TotalType, BankAssumption DEF BankTypeOK
<1>4. TotalLamports(accounts') + collected' = TotalLamports(Genesis)
  BY <1>1, <1>2, <1>3
<1> QED BY <1>1, <1>4 DEF Accounted, Conservation

(* Committing a transaction loses no lamports. *)
LEMMA AccountedCommit ==
    ASSUME NEW D, Zeroed \in D, BankInv(D), Accounted, Commit
    PROVE  Accounted'
<1>1. /\ work \in [Key -> AccountWith(D)] /\ BankTypeOK(D)
      /\ payer # NoPayer /\ End(work)
  BY DEF BankInv, BankTypeOK, Commit
<1>2. TotalLamports(work) + Fee + collected = TotalLamports(Genesis)
  BY <1>1 DEF Accounted
<1> QED BY <1>1, <1>2, AccountedEnd

(* A failed transaction costs its payer the fee. *)
LEMMA AccountedFail ==
    ASSUME NEW D, Zeroed \in D, BankInv(D), Accounted, Fail
    PROVE  Accounted'
<1>1. /\ payer \in Payers /\ FeePayerOk(payer) /\ BankTypeOK(D)
      /\ End(Loaded(payer))
  BY DEF BankInv, BankTypeOK, OpenPayerOk, Fail
<1>2. Loaded(payer) \in [Key -> AccountWith(D)]
  BY <1>1, LoadedFields
<1>3. TotalLamports(Loaded(payer)) + Fee = TotalLamports(accounts)
  BY <1>1, TotalLoaded
<1>4. TotalLamports(Loaded(payer)) + Fee + collected = TotalLamports(Genesis)
  BY <1>3 DEF Accounted, Conservation
<1> QED BY <1>1, <1>2, <1>4, AccountedEnd

(* A step that changes nothing. *)
LEMMA AccountedStutter ==
    ASSUME Accounted, UNCHANGED bankVars
    PROVE  Accounted'
BY DEF bankVars, Accounted, Conservation

(* As long as lamports are conserved, no two stored accounts together hold *)
(* more than a u64.                                                        *)
LEMMA BalancesFit ==
    ASSUME NEW D, BankTypeOK(D), Conservation
    PROVE  \A j, k \in Key : j # k => accounts[j].lamports + accounts[k].lamports <= U64Max
<1>1. accounts \in [Key -> AccountWith(D)] /\ collected \in Nat
  BY DEF BankTypeOK
<1>2. TotalLamports(accounts) \in Nat
  BY <1>1, TotalType
<1>3. TotalLamports(accounts) <= U64Max
  <2>1. U64Max \in Nat
    BY RentAssumption
  <2> QED BY <1>1, <1>2, <2>1, CapitalizationAssumption DEF Conservation
<1>4. ASSUME NEW j \in Key, NEW k \in Key, j # k
      PROVE  accounts[j].lamports + accounts[k].lamports <= U64Max
  <2>1. accounts[j].lamports + accounts[k].lamports <= TotalLamports(accounts)
    BY <1>1, <1>4, TotalType
  <2>2. accounts[j].lamports \in Nat /\ accounts[k].lamports \in Nat /\ U64Max \in Nat
    BY <1>1, FieldTypes, RentAssumption
  <2> QED BY <1>2, <1>3, <2>1, <2>2
<1> QED BY <1>4

(* A program that owns an account can pay n lamports from it to another:   *)
(* the checks after the instruction pass, and nothing wraps.               *)
LEMMA ProgramPays ==
    ASSUME NEW D, BankTypeOK(D), Conservation, NEW from \in Key, NEW to \in Key,
           from # to, NEW n \in U64, n <= accounts[from].lamports,
           accounts[from].owner = Program
    PROVE  LET m == MoveLamports(accounts, from, to, n)
           IN  /\ Verified(Program, accounts, m, from, to)
               /\ m[from].lamports = accounts[from].lamports - n
               /\ m[to].lamports = accounts[to].lamports + n
               /\ \A k \in Key \ {from, to} : m[k] = accounts[k]
               /\ \A k \in Key : m[k].space = accounts[k].space
<1> DEFINE l == accounts
           m == MoveLamports(l, from, to, n)
<1>1. l \in [Key -> AccountWith(D)]
  BY DEF BankTypeOK
<1>2. /\ \A k \in Key : /\ m[k].owner = l[k].owner
                        /\ m[k].space = l[k].space
                        /\ m[k].data = l[k].data
      /\ \A k \in Key \ {from, to} : m[k] = l[k]
      /\ m[from].lamports = WrapSub(l[from].lamports, n)
      /\ m[to].lamports = WrapAdd(l[to].lamports, n)
  BY <1>1, MoveLamportsFields
<1>3. l[from].lamports \in Nat /\ l[to].lamports \in Nat /\ n \in Nat
  BY <1>1, FieldTypes, RentAssumption DEF U64
<1>4. l[from].lamports + l[to].lamports <= U64Max
  BY BalancesFit
<1> HIDE DEF m
<1>5. m[from].lamports = l[from].lamports - n
  BY <1>2, <1>3 DEF WrapSub
<1>6. m[to].lamports = l[to].lamports + n
  <2>1. l[to].lamports + n <= U64Max
    BY <1>3, <1>4, RentAssumption
  <2> QED BY <1>2, <2>1 DEF WrapAdd
<1>7. Balanced(l, m, from, to)
  BY <1>3, <1>5, <1>6 DEF Balanced
<1>8. ASSUME NEW k \in Key
      PROVE  VerifiedAccount(Program, l[k], m[k])
  <2>1. m[k].owner = l[k].owner /\ m[k].space = l[k].space /\ m[k].data = l[k].data
    BY <1>2
  <2>2. CASE k = from
    BY <2>1, <2>2 DEF VerifiedAccount
  <2>3. CASE k # from
    <3>1. l[k].lamports \in Nat
      BY <1>1, FieldTypes
    <3>2. CASE k = to
      <4>1. m[k].lamports >= l[k].lamports
        BY <1>3, <1>6, <3>2
      <4> QED BY <2>1, <4>1 DEF VerifiedAccount
    <3>3. CASE k # to
      <4>1. m[k].lamports = l[k].lamports
        BY <1>2, <2>3, <3>3
      <4>2. m[k].lamports >= l[k].lamports
        BY <3>1, <4>1
      <4> QED BY <2>1, <4>2 DEF VerifiedAccount
    <3> QED BY <3>2, <3>3
  <2> QED BY <2>2, <2>3
<1>9. Verified(Program, l, m, from, to)
  BY <1>7, <1>8 DEF Verified
<1> QED BY <1>2, <1>5, <1>6, <1>9 DEF m

================================================================================
