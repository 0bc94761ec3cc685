---------------------------- MODULE WalletProofs ----------------------------
(***************************************************************************)
(* The savings wallets of level0, level1 and level2 for any number of      *)
(* users, any u64 width, fee, transaction length and amounts.              *)
(*                                                                         *)
(* The steps of level1 and level2 are first read as steps of one shape     *)
(* (WalletStep), so that what they have in common is proved once.  The     *)
(* last section puts the three programs together: what holds of a bank on  *)
(* which any one of them is deployed (SavingsWallets).                     *)
(***************************************************************************)
EXTENDS SavingsWallets, BankProofs

Plain(acc) == acc.owner = System /\ acc.space = 0 /\ acc.data = Zeroed

-----------------------------------------------------------------------------
(* level1 and level2 read as one program *)

Length == 32

Savings(a) == [kind |-> "wallet", authority |-> a]

SavingsData == {Zeroed} \cup [kind : {"wallet"}, authority : Users]

SavingsMade(l, a) ==
    SetData(AccountCreated(l, a, get_wallet_address(a),
                           MinimumBalance(Length), Length, Program),
            get_wallet_address(a), Savings(a))

(* withdraw, which leaves the minimum in the wallet if keep (level2). *)
SavingsWithdrawOk(keep, l, a, dest, n) ==
    LET k == get_wallet_address(a)
    IN  /\ IsWallet(l[k])
        /\ l[k].owner = Program
        /\ IF keep THEN WrapAdd(MinimumBalance(Length), n) <= l[k].lamports
                   ELSE n <= l[k].lamports
        /\ Verified(Program, l, MoveLamports(l, k, dest, n), k, dest)

WalletStep(keep) ==
    \/ \E u \in Payers : Begin(u)
    \/ \E a \in Users :
          /\ CreateAccountOk(work, a, get_wallet_address(a), MinimumBalance(Length))
          /\ Instruction(SavingsMade(work, a))
    \/ \E u \in Users, k \in Key, n \in WalletAmounts : SystemTransfer(u, k, n)
    \/ \E a \in Users, k \in Key, n \in WalletAmounts :
          /\ SavingsWithdrawOk(keep, work, a, k, n)
          /\ Instruction(MoveLamports(work, get_wallet_address(a), k, n))
    \/ Commit
    \/ Fail
    \/ UNCHANGED bankVars

(* level1 is the program that does not keep the minimum.  Its deposit is a *)
(* transfer to a wallet.                                                   *)
LEMMA Level1Step ==
    /\ L1!Init => BankInit
    /\ [L1!Next]_(L1!bankVars) => WalletStep(FALSE)
<1>1. L1!Init => BankInit
  BY Zenon DEF L1!Init, L1!BankInit, BankInit
<1>2. ASSUME NEW s, NEW acc
      PROVE  /\ L1!MinimumBalance(s) = MinimumBalance(s)
             /\ L1!RentPaying(acc) <=> RentPaying(acc)
  BY Zenon DEF L1!MinimumBalance, L1!AccountStorageOverhead, L1!IsExempt, L1!RentPaying,
         MinimumBalance, AccountStorageOverhead, IsExempt, RentPaying
<1>3. ASSUME NEW l, NEW m
      PROVE  L1!RentStatesOk(l, m) <=> RentStatesOk(l, m)
  BY <1>2, Zenon DEF L1!RentStatesOk, L1!TransitionAllowed, RentStatesOk, TransitionAllowed
<1>4. ASSUME NEW p
      PROVE  /\ L1!Loaded(p) = Loaded(p)
             /\ L1!FeePayerOk(p) <=> FeePayerOk(p)
  <2>1. L1!Loaded(p) = Loaded(p)
    BY Zenon DEF L1!Loaded, L1!SetLamports, Loaded, SetLamports
  <2> QED BY <1>2, <2>1, Zenon DEF L1!FeePayerOk, L1!TransitionAllowed,
                            FeePayerOk, TransitionAllowed
<1>5. ASSUME NEW l, L1!End(l) PROVE End(l)
  BY <1>5, Zenon DEF L1!End, L1!Purged, L1!DefaultAccount, L1!Zeroed,
              End, Purged, DefaultAccount, Zeroed
<1>6. ASSUME NEW post, L1!Instruction(post) PROVE Instruction(post)
  BY <1>6, Zenon DEF L1!Instruction, Instruction
<1>7. ASSUME NEW l, NEW j, NEW k, NEW n
      PROVE  /\ L1!MoveLamports(l, j, k, n) = MoveLamports(l, j, k, n)
             /\ L1!Transferred(l, j, k, n) = Transferred(l, j, k, n)
             /\ L1!TransferOk(l, j, k, n) <=> TransferOk(l, j, k, n)
             /\ L1!WrapAdd(j, n) = WrapAdd(j, n)
             /\ L1!get_wallet_address(j) = get_wallet_address(j)
  BY Zenon DEF L1!MoveLamports, L1!SetLamports, L1!WrapAdd, L1!WrapSub, L1!Transferred,
         L1!TransferOk, L1!get_wallet_address, MoveLamports, SetLamports, WrapAdd,
         WrapSub, Transferred, TransferOk, get_wallet_address
<1>8. ASSUME NEW l, NEW m, NEW j, NEW k, L1!Verified(Program, l, m, j, k)
      PROVE  Verified(Program, l, m, j, k)
  BY <1>8, Zenon DEF L1!Verified, L1!VerifiedAccount, L1!Balanced, L1!Zeroed,
              Verified, VerifiedAccount, Balanced, Zeroed
<1>9. ASSUME NEW p, L1!Begin(p) PROVE Begin(p)
  BY <1>4, <1>9, Zenon DEF L1!Begin, Begin
<1>10. ASSUME NEW a, L1!Initialize(a)
       PROVE  /\ CreateAccountOk(work, a, get_wallet_address(a), MinimumBalance(Length))
              /\ Instruction(SavingsMade(work, a))
  <2>1. L1!WALLET_LEN = Length /\ L1!Wallet(a) = Savings(a)
    BY Zenon DEF L1!WALLET_LEN, L1!Wallet, Length, Savings
  <2>2. CreateAccountOk(work, a, get_wallet_address(a), MinimumBalance(Length))
    BY <1>2, <1>7, <1>10, <2>1, Zenon
       DEF L1!Initialize, L1!InitializeOk, L1!CreateAccountOk, CreateAccountOk
  <2>3. L1!InitializePost(work, a) = SavingsMade(work, a)
    BY <1>2, <1>7, <2>1, Zenon DEF L1!InitializePost, L1!AccountCreated, L1!SetData, L1!Zeroed,
                            SavingsMade, AccountCreated, SetData, Zeroed
  <2> QED BY <1>6, <1>10, <2>2, <2>3, Zenon DEF L1!Initialize
<1>11. ASSUME NEW a \in Users, NEW u \in Users, NEW n \in WalletAmounts, L1!Deposit(a, u, n)
       PROVE  get_wallet_address(a) \in Key /\ SystemTransfer(u, get_wallet_address(a), n)
  <2>1. TransferOk(work, u, get_wallet_address(a), n)
    BY <1>7, <1>11, Zenon DEF L1!Deposit, L1!DepositOk
  <2>2. Instruction(Transferred(work, u, get_wallet_address(a), n))
    BY <1>6, <1>7, <1>11, Zenon DEF L1!Deposit, L1!DepositPost
  <2> QED BY <2>1, <2>2, Level0Assumption, Zenon DEF SystemTransfer, Wallets
<1>12. ASSUME NEW a, NEW k, NEW n, L1!Withdraw(a, k, n)
       PROVE  /\ SavingsWithdrawOk(FALSE, work, a, k, n)
              /\ Instruction(MoveLamports(work, get_wallet_address(a), k, n))
  <2>1. L1!WithdrawOk(work, a, k, n) /\ L1!Instruction(L1!WithdrawPost(work, a, k, n))
    BY <1>12, Zenon DEF L1!Withdraw
  <2>2. L1!WithdrawPost(work, a, k, n) = MoveLamports(work, get_wallet_address(a), k, n)
    BY <1>7, Zenon DEF L1!WithdrawPost
  <2>3. Verified(Program, work, MoveLamports(work, get_wallet_address(a), k, n),
                 get_wallet_address(a), k)
    BY <1>7, <1>8, <2>1, <2>2, Zenon DEF L1!WithdrawOk
  <2>4. SavingsWithdrawOk(FALSE, work, a, k, n)
    BY <1>7, <2>1, <2>3, Zenon DEF L1!WithdrawOk, L1!IsWallet, L1!WALLET_LEN,
       SavingsWithdrawOk, IsWallet, Length
  <2> QED BY <1>6, <2>1, <2>2, <2>4, Zenon
<1>13. ASSUME NEW u, NEW k, NEW n, L1!SystemTransfer(u, k, n) PROVE SystemTransfer(u, k, n)
  BY <1>6, <1>7, <1>13, Zenon DEF L1!SystemTransfer, SystemTransfer
<1>14. ASSUME L1!Commit PROVE Commit
  BY <1>3, <1>4, <1>5, <1>14, Zenon DEF L1!Commit, Commit
<1>15. ASSUME L1!Fail PROVE Fail
  BY <1>4, <1>5, <1>15, Zenon DEF L1!Fail, Fail
<1>16. ASSUME L1!Next PROVE WalletStep(FALSE)
  BY <1>9, <1>10, <1>11, <1>12, <1>13, <1>14, <1>15, <1>16, Zenon DEF L1!Next, WalletStep
<1>17. ASSUME UNCHANGED L1!bankVars PROVE WalletStep(FALSE)
  BY <1>17, Zenon DEF L1!bankVars, bankVars, WalletStep
<1> QED BY <1>1, <1>16, <1>17, Zenon

(* level2 is the program whose withdraw keeps the minimum. *)
LEMMA Level2Step ==
    /\ L2!Init => BankInit
    /\ [L2!Next]_(L2!bankVars) => WalletStep(TRUE)
<1>1. L2!Init => BankInit
  BY Zenon DEF L2!Init, L2!BankInit, BankInit
<1>2. ASSUME NEW s, NEW acc
      PROVE  /\ L2!MinimumBalance(s) = MinimumBalance(s)
             /\ L2!RentPaying(acc) <=> RentPaying(acc)
  BY Zenon DEF L2!MinimumBalance, L2!AccountStorageOverhead, L2!IsExempt, L2!RentPaying,
         MinimumBalance, AccountStorageOverhead, IsExempt, RentPaying
<1>3. ASSUME NEW l, NEW m
      PROVE  L2!RentStatesOk(l, m) <=> RentStatesOk(l, m)
  BY <1>2, Zenon DEF L2!RentStatesOk, L2!TransitionAllowed, RentStatesOk, TransitionAllowed
<1>4. ASSUME NEW p
      PROVE  /\ L2!Loaded(p) = Loaded(p)
             /\ L2!FeePayerOk(p) <=> FeePayerOk(p)
  <2>1. L2!Loaded(p) = Loaded(p)
    BY Zenon DEF L2!Loaded, L2!SetLamports, Loaded, SetLamports
  <2> QED BY <1>2, <2>1, Zenon DEF L2!FeePayerOk, L2!TransitionAllowed,
                            FeePayerOk, TransitionAllowed
<1>5. ASSUME NEW l, L2!End(l) PROVE End(l)
  BY <1>5, Zenon DEF L2!End, L2!Purged, L2!DefaultAccount, L2!Zeroed,
              End, Purged, DefaultAccount, Zeroed
<1>6. ASSUME NEW post, L2!Instruction(post) PROVE Instruction(post)
  BY <1>6, Zenon DEF L2!Instruction, Instruction
<1>7. ASSUME NEW l, NEW j, NEW k, NEW n
      PROVE  /\ L2!MoveLamports(l, j, k, n) = MoveLamports(l, j, k, n)
             /\ L2!Transferred(l, j, k, n) = Transferred(l, j, k, n)
             /\ L2!TransferOk(l, j, k, n) <=> TransferOk(l, j, k, n)
             /\ L2!WrapAdd(j, n) = WrapAdd(j, n)
             /\ L2!get_wallet_address(j) = get_wallet_address(j)
  BY Zenon DEF L2!MoveLamports, L2!SetLamports, L2!WrapAdd, L2!WrapSub, L2!Transferred,
         L2!TransferOk, L2!get_wallet_address, MoveLamports, SetLamports, WrapAdd,
         WrapSub, Transferred, TransferOk, get_wallet_address
<1>8. ASSUME NEW l, NEW m, NEW j, NEW k, L2!Verified(Program, l, m, j, k)
      PROVE  Verified(Program, l, m, j, k)
  BY <1>8, Zenon DEF L2!Verified, L2!VerifiedAccount, L2!Balanced, L2!Zeroed,
              Verified, VerifiedAccount, Balanced, Zeroed
<1>9. ASSUME NEW p, L2!Begin(p) PROVE Begin(p)
  BY <1>4, <1>9, Zenon DEF L2!Begin, Begin
<1>10. ASSUME NEW a, L2!Initialize(a)
       PROVE  /\ CreateAccountOk(work, a, get_wallet_address(a), MinimumBalance(Length))
              /\ Instruction(SavingsMade(work, a))
  <2>1. L2!WALLET_LEN = Length /\ L2!Wallet(a) = Savings(a)
    BY Zenon DEF L2!WALLET_LEN, L2!Wallet, Length, Savings
  <2>2. CreateAccountOk(work, a, get_wallet_address(a), MinimumBalance(Length))
    BY <1>2, <1>7, <1>10, <2>1, Zenon
       DEF L2!Initialize, L2!InitializeOk, L2!CreateAccountOk, CreateAccountOk
  <2>3. L2!InitializePost(work, a) = SavingsMade(work, a)
    BY <1>2, <1>7, <2>1, Zenon DEF L2!InitializePost, L2!AccountCreated, L2!SetData, L2!Zeroed,
                            SavingsMade, AccountCreated, SetData, Zeroed
  <2> QED BY <1>6, <1>10, <2>2, <2>3, Zenon DEF L2!Initialize
<1>11. ASSUME NEW a \in Users, NEW u \in Users, NEW n \in WalletAmounts, L2!Deposit(a, u, n)
       PROVE  get_wallet_address(a) \in Key /\ SystemTransfer(u, get_wallet_address(a), n)
  <2>1. TransferOk(work, u, get_wallet_address(a), n)
    BY <1>7, <1>11, Zenon DEF L2!Deposit, L2!DepositOk
  <2>2. Instruction(Transferred(work, u, get_wallet_address(a), n))
    BY <1>6, <1>7, <1>11, Zenon DEF L2!Deposit, L2!DepositPost
  <2> QED BY <2>1, <2>2, Level0Assumption, Zenon DEF SystemTransfer, Wallets
<1>12. ASSUME NEW a, NEW k, NEW n, L2!Withdraw(a, k, n)
       PROVE  /\ SavingsWithdrawOk(TRUE, work, a, k, n)
              /\ Instruction(MoveLamports(work, get_wallet_address(a), k, n))
  <2>1. L2!WithdrawOk(work, a, k, n) /\ L2!Instruction(L2!WithdrawPost(work, a, k, n))
    BY <1>12, Zenon DEF L2!Withdraw
  <2>2. L2!WithdrawPost(work, a, k, n) = MoveLamports(work, get_wallet_address(a), k, n)
    BY <1>7, Zenon DEF L2!WithdrawPost
  <2>3. Verified(Program, work, MoveLamports(work, get_wallet_address(a), k, n),
                 get_wallet_address(a), k)
    BY <1>7, <1>8, <2>1, <2>2, Zenon DEF L2!WithdrawOk
  <2>4. SavingsWithdrawOk(TRUE, work, a, k, n)
    BY <1>2, <1>7, <2>1, <2>3, Zenon DEF L2!WithdrawOk, L2!IsWallet, L2!WALLET_LEN,
       SavingsWithdrawOk, IsWallet, Length
  <2> QED BY <1>6, <2>1, <2>2, <2>4, Zenon
<1>13. ASSUME NEW u, NEW k, NEW n, L2!SystemTransfer(u, k, n) PROVE SystemTransfer(u, k, n)
  BY <1>6, <1>7, <1>13, Zenon DEF L2!SystemTransfer, SystemTransfer
<1>14. ASSUME L2!Commit PROVE Commit
  BY <1>3, <1>4, <1>5, <1>14, Zenon DEF L2!Commit, Commit
<1>15. ASSUME L2!Fail PROVE Fail
  BY <1>4, <1>5, <1>15, Zenon DEF L2!Fail, Fail
<1>16. ASSUME L2!Next PROVE WalletStep(TRUE)
  BY <1>9, <1>10, <1>11, <1>12, <1>13, <1>14, <1>15, <1>16, Zenon DEF L2!Next, WalletStep
<1>17. ASSUME UNCHANGED L2!bankVars PROVE WalletStep(TRUE)
  BY <1>17, Zenon DEF L2!bankVars, bankVars, WalletStep
<1> QED BY <1>1, <1>16, <1>17, Zenon

-----------------------------------------------------------------------------
(* The inductive invariant of level1 and level2.  Every address is plain   *)
(* or a complete wallet, also while a transaction runs; what happens to an *)
(* address in a transaction is related to what is stored there.            *)

IsSavings(acc, k) ==
    \E a \in Users : /\ k = get_wallet_address(a)
                     /\ acc.owner = Program /\ acc.space = Length
                     /\ acc.data = Savings(a)

Shaped(l) == \A k \in Key : Plain(l[k]) \/ IsSavings(l[k], k)

MinimumIn(l) ==
    \A k \in Key : l[k].owner = Program => l[k].lamports >= MinimumBalance(Length)

(* What instructions may do to a program address between l and m. *)
Follows(l, m) ==
    \A k \in Key \ Users :
        /\ IsWallet(l[k]) => m[k].data = l[k].data
        /\ l[k].owner = System /\ l[k].lamports > 0 =>
              m[k].owner = System /\ m[k].lamports >= l[k].lamports

SavingsInv ==
    /\ BankInv(SavingsData)
    /\ Shaped(accounts) /\ MinimumIn(accounts)
    /\ Shaped(work)
    /\ Follows(accounts, work)

SavingsLedger == [Key -> AccountWith(SavingsData)]

NoWalletDebited(l, m) == \A k \in Key : IsWallet(l[k]) => m[k].lamports >= l[k].lamports

(* What level2 lets an instruction take from a wallet. *)
AboveMinimum(l, m) ==
    \A k \in Key : IsWallet(l[k]) /\ m[k].lamports < l[k].lamports =>
        \/ m[k].lamports >= MinimumBalance(Length)
        \/ \E j \in Key \ {k} :
              /\ IsWallet(l[j])
              /\ m[j].lamports - l[j].lamports = l[k].lamports - m[k].lamports

(* The program addresses are addresses and not those of users. *)
LEMMA Addresses ==
    /\ Users \subseteq Key
    /\ \A a \in Users : /\ get_wallet_address(a) \in Key \ Users
                        /\ get_vault_address(a) \in Key \ Users
    /\ \A a, b \in Users : get_wallet_address(a) = get_wallet_address(b) => a = b
    /\ \A a, b \in Users : get_vault_address(a) = get_vault_address(b) => a = b
    /\ \A a, b \in Users : get_wallet_address(a) # get_vault_address(b)
    /\ Amounts \subseteq U64
    /\ WalletAmounts \subseteq U64
<1>1. \A a \in Users : get_wallet_address(a) \in Wallets /\ get_vault_address(a) \in Vaults
  BY Zenon DEF Wallets, Vaults
<1>2. /\ \A a, b \in Users : get_wallet_address(a) = get_wallet_address(b) => a = b
      /\ \A a, b \in Users : get_vault_address(a) = get_vault_address(b) => a = b
      /\ \A a, b \in Users : get_wallet_address(a) # get_vault_address(b)
  BY Zenon DEF get_wallet_address, get_vault_address
<1> QED BY <1>1, <1>2, Level0Assumption, WalletAssumption, Zenon

(* Follows is transitive, so that it holds of a whole transaction. *)
LEMMA FollowsTransitive ==
    ASSUME NEW D, NEW l \in [Key -> AccountWith(D)], NEW m \in [Key -> AccountWith(D)],
           NEW o \in [Key -> AccountWith(D)], Follows(l, m), Follows(m, o)
    PROVE  Follows(l, o)
<1> SUFFICES ASSUME NEW k \in Key \ Users
             PROVE  /\ IsWallet(l[k]) => o[k].data = l[k].data
                    /\ l[k].owner = System /\ l[k].lamports > 0 =>
                          o[k].owner = System /\ o[k].lamports >= l[k].lamports
  BY Zenon DEF Follows
<1>1. l[k].lamports \in Nat /\ m[k].lamports \in Nat /\ o[k].lamports \in Nat
  BY FieldTypes, Zenon
<1>2. /\ IsWallet(l[k]) => m[k].data = l[k].data
      /\ l[k].owner = System /\ l[k].lamports > 0 =>
            m[k].owner = System /\ m[k].lamports >= l[k].lamports
      /\ IsWallet(m[k]) => o[k].data = m[k].data
      /\ m[k].owner = System /\ m[k].lamports > 0 =>
            o[k].owner = System /\ o[k].lamports >= m[k].lamports
  BY Zenon DEF Follows
<1>3. IsWallet(l[k]) => o[k].data = l[k].data
  BY <1>2, Zenon DEF IsWallet
<1>4. l[k].owner = System /\ l[k].lamports > 0 =>
          o[k].owner = System /\ o[k].lamports >= l[k].lamports
  BY <1>1, <1>2
<1> QED BY <1>3, <1>4, Zenon

(* Changing balances only, and those of program addresses only upwards     *)
(* unless the program owns them.                                           *)
LEMMA BalancesOnly ==
    ASSUME NEW D, NEW l \in [Key -> AccountWith(D)], NEW m \in [Key -> AccountWith(D)],
           \A k \in Key : /\ m[k].owner = l[k].owner
                          /\ m[k].space = l[k].space
                          /\ m[k].data = l[k].data,
           \A k \in Key \ Users : l[k].owner = System => m[k].lamports >= l[k].lamports
    PROVE  /\ Shaped(l) => Shaped(m)
           /\ Follows(l, m)
<1>1. Shaped(l) => Shaped(m)
  BY Zenon DEF Shaped, Plain, IsSavings
<1>2. Follows(l, m)
  BY Zenon DEF Follows
<1> QED BY <1>1, <1>2, Zenon

(* transfer, and the deposit that is one: only the user who signs loses.   *)
LEMMA TransferFollows ==
    ASSUME NEW D, NEW l \in [Key -> AccountWith(D)], NEW u \in Users, NEW k \in Key,
           NEW n \in U64, TransferOk(l, u, k, n)
    PROVE  LET m == Transferred(l, u, k, n)
           IN  /\ m \in [Key -> AccountWith(D)]
               /\ \A j \in Key : /\ m[j].owner = l[j].owner
                                 /\ m[j].space = l[j].space
                                 /\ m[j].data = l[j].data
               /\ \A j \in Key \ {u} : m[j].lamports >= l[j].lamports
<1> DEFINE m == Transferred(l, u, k, n)
<1>1. u \in Key
  BY BankAssumption, Zenon
<1>2. /\ m \in [Key -> AccountWith(D)]
      /\ \A j \in Key : /\ m[j].owner = l[j].owner
                        /\ m[j].space = l[j].space
                        /\ m[j].data = l[j].data
      /\ \A j \in Key \ {u, k} : m[j] = l[j]
      /\ u # k => m[k].lamports = l[k].lamports + n
  BY <1>1, TransferredFields
<1> HIDE DEF m
<1>3. ASSUME NEW j \in Key \ {u}
      PROVE  m[j].lamports >= l[j].lamports
  <2>1. l[j].lamports \in Nat /\ n \in Nat
    BY FieldTypes, RentAssumption DEF U64
  <2>2. m[j].lamports = l[j].lamports \/ m[j].lamports = l[j].lamports + n
    BY <1>2, Zenon
  <2> QED BY <2>1, <2>2
<1> QED BY <1>2, <1>3, Zenon DEF m

(* initialize of level1 and level2: a plain, empty address becomes the     *)
(* complete wallet of its authority.                                       *)
LEMMA SavingsMadeKeeps ==
    ASSUME NEW l \in SavingsLedger, Shaped(l), NEW a \in Users,
           CreateAccountOk(l, a, get_wallet_address(a), MinimumBalance(Length))
    PROVE  LET m == SavingsMade(l, a)
           IN  /\ m \in SavingsLedger
               /\ Shaped(m) /\ Follows(l, m)
               /\ NoWalletDebited(l, m)
               /\ TotalLamports(m) = TotalLamports(l)
<1> DEFINE w   == get_wallet_address(a)
           min == MinimumBalance(Length)
           c   == AccountCreated(l, a, w, min, Length, Program)
           m   == SavingsMade(l, a)
<1>1. /\ a \in Key /\ w \in Key \ Users /\ Length \in Nat /\ a # w
      /\ l \in [Key -> AccountWith(SavingsData)] /\ Zeroed \in SavingsData
      /\ Savings(a) \in SavingsData
  BY Addresses, Zenon DEF Length, SavingsLedger, SavingsData, Savings
<1>2. /\ l[w].lamports = 0 /\ l[w].owner = System
      /\ min <= l[a].lamports
  BY Zenon DEF CreateAccountOk, TransferOk
<1>3. min \in Nat /\ min \in U64 /\ l[a].lamports \in Nat
  <2>1. min \in Nat
    BY <1>1, MinimumBalanceType, Zenon
  <2>2. l[a].lamports \in Nat /\ l[a].lamports <= U64Max
    BY <1>1, FieldTypes, Zenon
  <2> QED BY <1>2, <2>1, <2>2, RentAssumption DEF U64
<1> HIDE DEF min
<1>4. /\ c \in [Key -> AccountWith(SavingsData)]
      /\ c[w] = [lamports |-> min, owner |-> Program, space |-> Length, data |-> Zeroed]
      /\ c[a] = [lamports |-> l[a].lamports - min, owner |-> l[a].owner,
                 space |-> l[a].space, data |-> l[a].data]
      /\ \A k \in Key \ {a, w} : c[k] = l[k]
  BY <1>1, <1>3, AccountCreatedFields DEF min
<1>5. TotalLamports(c) = TotalLamports(l)
  BY <1>1, <1>3, TotalAccountCreated, Zenon DEF min
<1>6. m = SetData(c, w, Savings(a))
  BY Zenon DEF SavingsMade, min
<1> HIDE DEF c, m, w
<1>7. /\ m \in [Key -> AccountWith(SavingsData)]
      /\ m[w] = [lamports |-> c[w].lamports, owner |-> c[w].owner,
                 space |-> c[w].space, data |-> Savings(a)]
      /\ \A k \in Key \ {w} : m[k] = c[k]
      /\ \A k \in Key : /\ m[k].lamports = c[k].lamports
                        /\ m[k].owner = c[k].owner
                        /\ m[k].space = c[k].space
  BY <1>1, <1>4, <1>6, SetDataFields
<1>8. TotalLamports(m) = TotalLamports(l)
  BY <1>1, <1>4, <1>5, <1>6, TotalSetData, Zenon
<1>9. /\ m[w].owner = Program /\ m[w].space = Length /\ m[w].data = Savings(a)
      /\ m[w].lamports = min
      /\ m[a].owner = l[a].owner /\ m[a].space = l[a].space /\ m[a].data = l[a].data
      /\ \A k \in Key \ {a, w} : m[k] = l[k]
  BY <1>1, <1>4, <1>7
<1>10. Plain(l[w])
  BY <1>1, <1>2, ProgramsDiffer, Zenon DEF Shaped, IsSavings
<1>11. Plain(l[a])
  <2>1. ~IsSavings(l[a], a)
    BY Addresses, Zenon DEF IsSavings
  <2> QED BY <1>1, <2>1, Zenon DEF Shaped
<1>12. Shaped(m)
  <2> SUFFICES ASSUME NEW k \in Key PROVE Plain(m[k]) \/ IsSavings(m[k], k)
    BY Zenon DEF Shaped
  <2>1. CASE k = w
    BY <1>9, <2>1, Zenon DEF IsSavings, w
  <2>2. CASE k = a
    BY <1>9, <1>11, <2>2, Zenon DEF Plain
  <2>3. CASE k # w /\ k # a
    BY <1>9, <2>3, Zenon DEF Shaped
  <2> QED BY <2>1, <2>2, <2>3, Zenon
<1>13. Follows(l, m)
  <2> SUFFICES ASSUME NEW k \in Key \ Users
               PROVE  /\ IsWallet(l[k]) => m[k].data = l[k].data
                      /\ l[k].owner = System /\ l[k].lamports > 0 =>
                            m[k].owner = System /\ m[k].lamports >= l[k].lamports
    BY Zenon DEF Follows
  <2>1. CASE k = w
    BY <1>2, <1>10, <2>1 DEF Plain, IsWallet, Zeroed
  <2>2. CASE k # w
    <3>1. m[k] = l[k]
      BY <1>9, <2>2, Zenon
    <3>2. l[k].lamports \in Nat
      BY <1>1, FieldTypes, Zenon
    <3> QED BY <3>1, <3>2
  <2> QED BY <2>1, <2>2, Zenon
<1>14. NoWalletDebited(l, m)
  <2> SUFFICES ASSUME NEW k \in Key, IsWallet(l[k])
               PROVE  m[k].lamports >= l[k].lamports
    BY Zenon DEF NoWalletDebited
  <2>1. ~IsWallet(l[a]) /\ ~IsWallet(l[w])
    <3>1. Plain(l[a])
      BY <1>1, Addresses DEF Shaped, IsSavings
    <3>2. Plain(l[w])
      BY <1>1, <1>2, ProgramsDiffer, Zenon DEF Shaped, IsSavings
    <3> QED BY <3>1, <3>2 DEF Plain, IsWallet, Zeroed
  <2>2. k # a /\ k # w
    BY <2>1, Zenon
  <2>3. m[k] = l[k] /\ l[k].lamports \in Nat
    BY <1>1, <1>9, <2>2, FieldTypes, Zenon
  <2> QED BY <2>3
<1> QED BY <1>7, <1>8, <1>12, <1>13, <1>14, Zenon DEF m, SavingsLedger

(* withdraw of level1 and level2 moves lamports between the wallet and the *)
(* destination.  If withdraw asks for the minimum and the wallet holds too *)
(* few lamports for the sum of the minimum and its balance to wrap, it     *)
(* takes what is above the minimum, or another wallet pays.                *)
LEMMA SavingsWithdrawKeeps ==
    ASSUME NEW keep \in BOOLEAN, NEW l \in SavingsLedger, Shaped(l),
           NEW a \in Users, NEW dest \in Key, NEW n \in U64,
           SavingsWithdrawOk(keep, l, a, dest, n)
    PROVE  LET m == MoveLamports(l, get_wallet_address(a), dest, n)
           IN  /\ m \in SavingsLedger
               /\ Shaped(m) /\ Follows(l, m)
               /\ keep /\ TotalLamports(l) + MinimumBalance(Length) <= U64Max =>
                     AboveMinimum(l, m)
               /\ TotalLamports(m) = TotalLamports(l)
<1> DEFINE w == get_wallet_address(a)
           m == MoveLamports(l, w, dest, n)
           min == MinimumBalance(Length)
<1>1. w \in Key /\ l \in [Key -> AccountWith(SavingsData)]
  BY Addresses, Zenon DEF SavingsLedger
<1>2. Verified(Program, l, m, w, dest)
  BY Zenon DEF SavingsWithdrawOk
<1>3. /\ m \in [Key -> AccountWith(SavingsData)]
      /\ \A k \in Key : /\ m[k].owner = l[k].owner
                        /\ m[k].space = l[k].space
                        /\ m[k].data = l[k].data
      /\ \A k \in Key \ {w, dest} : m[k] = l[k]
      /\ w # dest => /\ m[w].lamports = WrapSub(l[w].lamports, n)
                     /\ m[dest].lamports = WrapAdd(l[dest].lamports, n)
      /\ w = dest => m[w].lamports = l[w].lamports
  BY <1>1, MoveLamportsFields
<1>4. TotalLamports(m) = TotalLamports(l)
  BY <1>1, <1>2, TotalBalanced, Zenon DEF Verified
<1>5. ASSUME keep, TotalLamports(l) + min <= U64Max
      PROVE  AboveMinimum(l, m)
  <2>1. /\ min \in Nat /\ n \in Nat /\ n <= U64Max /\ U64Max \in Nat
        /\ l[w].lamports \in Nat /\ l[dest].lamports \in Nat
    BY <1>1, FieldTypes, MinimumBalanceType, RentAssumption DEF Length, U64
  <2>2. l[w].lamports <= TotalLamports(l) /\ TotalLamports(l) \in Nat
    BY <1>1, TotalType, Zenon
  <2>3. WrapAdd(min, n) <= l[w].lamports /\ IsWallet(l[w])
    BY <1>5, Zenon DEF SavingsWithdrawOk
  <2>4. Balanced(l, m, w, dest)
    BY <1>2, Zenon DEF Verified
  <2>5. m[w].lamports \in Nat /\ m[dest].lamports \in Nat
    BY <1>1, <1>3, FieldTypes, Zenon
  <2> SUFFICES ASSUME NEW k \in Key, IsWallet(l[k]), m[k].lamports < l[k].lamports,
                      ~(m[k].lamports >= min)
               PROVE  \E j \in Key \ {k} :
                         /\ IsWallet(l[j])
                         /\ m[j].lamports - l[j].lamports = l[k].lamports - m[k].lamports
    BY Zenon DEF AboveMinimum, min
  <2>6. w # dest /\ k \in {w, dest}
    <3>1. CASE k \notin {w, dest}
      <4>1. m[k] = l[k] /\ l[k].lamports \in Nat
        BY <1>1, <1>3, <3>1, FieldTypes, Zenon
      <4> QED BY <4>1
    <3>2. CASE w = dest /\ k = w
      <4>1. m[k].lamports = l[k].lamports
        BY <1>3, <3>2, Zenon
      <4> QED BY <2>1, <3>2, <4>1
    <3> QED BY <3>1, <3>2, Zenon
  <2>7. k # w
    <3> SUFFICES ASSUME k = w PROVE FALSE
      BY Zenon
    <3>1. m[w].lamports = WrapSub(l[w].lamports, n)
      BY <1>3, <2>6, Zenon
    <3>2. /\ WrapSub(l[w].lamports, n) < l[w].lamports
          /\ ~(WrapSub(l[w].lamports, n) >= min)
      BY <3>1, Zenon
    <3> HIDE DEF min, m, w
    <3>3. n <= l[w].lamports
      BY <2>1, <3>2 DEF WrapSub
    <3>4. min + n <= l[w].lamports
      BY <1>5, <2>1, <2>2, <2>3, <3>3 DEF WrapAdd
    <3> QED BY <2>1, <3>2, <3>3, <3>4 DEF WrapSub
  <2>8. m[w].lamports - l[w].lamports = l[dest].lamports - m[dest].lamports
    <3> HIDE DEF m, w
    <3>1. l[w].lamports + l[dest].lamports = m[w].lamports + m[dest].lamports
      BY <2>4, <2>6, Zenon DEF Balanced
    <3> QED BY <2>1, <2>5, <3>1
  <2> HIDE DEF m, w
  <2> QED BY <1>1, <2>3, <2>6, <2>7, <2>8, Zenon
<1>6. \A k \in Key \ Users : l[k].owner = System => m[k].lamports >= l[k].lamports
  BY <1>2, ProgramsDiffer, Zenon DEF Verified, VerifiedAccount
<1> HIDE DEF m, w
<1>7. Shaped(m) /\ Follows(l, m)
  <2>1. \A k \in Key : /\ m[k].owner = l[k].owner
                       /\ m[k].space = l[k].space
                       /\ m[k].data = l[k].data
    BY <1>3, Zenon
  <2>2. m \in [Key -> AccountWith(SavingsData)]
    BY <1>3, Zenon
  <2> QED BY <1>1, <1>6, <2>1, <2>2, BalancesOnly, Zenon
<1> QED BY <1>3, <1>4, <1>5, <1>7, Zenon DEF m, w, SavingsLedger

(* What one step may do to the stored program addresses. *)
SavingsKept ==
    \A k \in Key \ Users :
        /\ IsWallet(accounts[k]) =>
              \/ accounts'[k].data = accounts[k].data
              \/ accounts'[k] = DefaultAccount
        /\ accounts[k].owner = System /\ accounts[k].lamports > 0 =>
              /\ accounts'[k].owner = System
              /\ accounts'[k].lamports >= accounts[k].lamports

(* A ledger follows itself. *)
LEMMA FollowsReflexive ==
    ASSUME NEW D, NEW l \in [Key -> AccountWith(D)]
    PROVE  Follows(l, l)
<1>1. ASSUME NEW k \in Key \ Users PROVE l[k].lamports >= l[k].lamports
  <2>1. l[k].lamports \in Nat
    BY FieldTypes, Zenon
  <2> QED BY <2>1
<1> QED BY <1>1, Zenon DEF Follows

(* Storing a shaped ledger without rent-paying accounts: what still is a   *)
(* wallet of level1 or level2 holds its minimum.                           *)
LEMMA SavingsStored ==
    ASSUME NEW l \in SavingsLedger, Shaped(l), \A k \in Key : ~RentPaying(l[k])
    PROVE  /\ Purged(l) \in SavingsLedger
           /\ Shaped(Purged(l)) /\ MinimumIn(Purged(l))
           /\ \A k \in Key : Purged(l)[k] = IF l[k].lamports = 0
                                            THEN DefaultAccount ELSE l[k]
<1> DEFINE m == Purged(l)
<1>1. /\ m \in SavingsLedger
      /\ \A k \in Key : m[k] = IF l[k].lamports = 0 THEN DefaultAccount ELSE l[k]
  BY PurgedFields, Zenon DEF SavingsLedger, SavingsData
<1> HIDE DEF m
<1>2. Plain(DefaultAccount)
  BY Zenon DEF Plain, DefaultAccount
<1>3. Shaped(m)
  BY <1>1, <1>2, Zenon DEF Shaped
<1>4. ASSUME NEW k \in Key, m[k].owner = Program
      PROVE  m[k].lamports >= MinimumBalance(Length)
  <2>1. m[k] = l[k] /\ l[k].lamports # 0
    BY <1>1, <1>2, <1>4, ProgramsDiffer, Zenon DEF Plain
  <2>2. l[k].space = Length
    BY <1>4, <2>1, ProgramsDiffer, Zenon DEF Shaped, Plain, IsSavings
  <2>3. l[k].lamports \in Nat /\ ~RentPaying(l[k])
    BY FieldTypes, Zenon DEF SavingsLedger
  <2>4. l[k].lamports > 0
    BY <2>1, <2>3
  <2> QED BY <2>1, <2>2, <2>3, <2>4, Zenon DEF RentPaying, IsExempt
<1> QED BY <1>1, <1>3, <1>4, Zenon DEF MinimumIn, m

(* The accounts as loaded for a transaction (validate_fee_payer has        *)
(* charged the payer, who is a user).                                      *)
LEMMA SavingsLoaded ==
    ASSUME SavingsInv, NEW p \in Payers, FeePayerOk(p)
    PROVE  /\ Loaded(p) \in SavingsLedger
           /\ Shaped(Loaded(p)) /\ MinimumIn(Loaded(p))
           /\ Follows(accounts, Loaded(p))
           /\ \A k \in Key : ~RentPaying(Loaded(p)[k])
           /\ \A k \in Key \ Users : Loaded(p)[k] = accounts[k]
<1> DEFINE m == Loaded(p)
<1>1. /\ accounts \in [Key -> AccountWith(SavingsData)] /\ p \in Users /\ p \in Key
      /\ BankInv(SavingsData) /\ Shaped(accounts) /\ MinimumIn(accounts)
  BY BankAssumption, Zenon DEF SavingsInv, BankInv, BankTypeOK
<1>2. /\ m \in [Key -> AccountWith(SavingsData)]
      /\ m[p] = [accounts[p] EXCEPT !.lamports = @ - Fee]
      /\ \A k \in Key \ {p} : m[k] = accounts[k]
      /\ \A k \in Key : ~RentPaying(m[k])
  BY <1>1, LoadedFields, Zenon
<1> HIDE DEF m
<1>3. /\ m[p].owner = accounts[p].owner /\ m[p].space = accounts[p].space
      /\ m[p].data = accounts[p].data
  BY <1>1, <1>2 DEF AccountWith
<1>4. \A k \in Key : /\ m[k].owner = accounts[k].owner
                     /\ m[k].space = accounts[k].space
                     /\ m[k].data = accounts[k].data
  BY <1>2, <1>3, Zenon
<1>5. \A k \in Key \ Users : m[k] = accounts[k] /\ accounts[k].lamports \in Nat
  BY <1>1, <1>2, FieldTypes, Zenon
<1>6. \A k \in Key \ Users : accounts[k].owner = System =>
          m[k].lamports >= accounts[k].lamports
  BY <1>5
<1>7. Shaped(m) /\ Follows(accounts, m)
  BY <1>1, <1>2, <1>4, <1>6, BalancesOnly, Zenon
<1>8. MinimumIn(m)
  <2>1. Plain(accounts[p])
    BY <1>1, Addresses DEF Shaped, IsSavings
  <2> QED BY <1>1, <1>2, <1>3, <2>1, ProgramsDiffer, Zenon DEF MinimumIn, Plain
<1> QED BY <1>2, <1>5, <1>7, <1>8, Zenon DEF m, SavingsLedger

(* An instruction that keeps the shape of the loaded accounts and follows  *)
(* them keeps the invariant.                                               *)
LEMMA SavingsInstruction ==
    ASSUME SavingsInv, NEW post \in SavingsLedger, Shaped(post),
           Follows(work, post), Instruction(post)
    PROVE  SavingsInv' /\ SavingsKept
<1>1. /\ accounts' = accounts /\ work' = post
      /\ accounts \in [Key -> AccountWith(SavingsData)]
      /\ work \in [Key -> AccountWith(SavingsData)]
      /\ post \in [Key -> AccountWith(SavingsData)]
      /\ BankInv(SavingsData)
  BY Zenon DEF Instruction, SavingsInv, BankInv, BankTypeOK, SavingsLedger
<1>2. BankInv(SavingsData)'
  BY <1>1, BankInvInstruction, Zenon
<1>3. Follows(accounts, post)
  BY <1>1, FollowsTransitive, Zenon DEF SavingsInv
<1>4. SavingsInv'
  BY <1>1, <1>2, <1>3, Zenon DEF SavingsInv, Shaped, MinimumIn, Follows
<1>5. SavingsKept
  BY <1>1, FieldTypes DEF SavingsKept
<1> QED BY <1>4, <1>5, Zenon

(* The end of a transaction: l is stored. *)
LEMMA SavingsEnd ==
    ASSUME SavingsInv, NEW l \in SavingsLedger, Shaped(l),
           \A k \in Key : ~RentPaying(l[k]), Follows(accounts, l), End(l)
    PROVE  SavingsInv' /\ SavingsKept
<1> DEFINE m == Purged(l)
<1>1. /\ accounts' = m /\ work' = m
      /\ l \in [Key -> AccountWith(SavingsData)] /\ Zeroed \in SavingsData
      /\ accounts \in [Key -> AccountWith(SavingsData)]
      /\ BankInv(SavingsData) /\ Shaped(accounts)
  BY Zenon DEF End, SavingsInv, BankInv, BankTypeOK, SavingsLedger, SavingsData
<1>2. BankInv(SavingsData)'
  BY <1>1, EndKeepsBankInv, Zenon
<1>3. /\ m \in SavingsLedger /\ Shaped(m) /\ MinimumIn(m)
      /\ \A k \in Key : m[k] = IF l[k].lamports = 0 THEN DefaultAccount ELSE l[k]
  BY SavingsStored, Zenon
<1> HIDE DEF m
<1>4. Follows(m, m)
  BY <1>3, FollowsReflexive, Zenon DEF SavingsLedger
<1>5. SavingsInv'
  BY <1>1, <1>2, <1>3, <1>4, Zenon DEF SavingsInv, Shaped, MinimumIn, Follows
<1>6. SavingsKept
  <2> SUFFICES ASSUME NEW k \in Key \ Users
               PROVE  /\ IsWallet(accounts[k]) =>
                            \/ m[k].data = accounts[k].data
                            \/ m[k] = DefaultAccount
                      /\ accounts[k].owner = System /\ accounts[k].lamports > 0 =>
                            /\ m[k].owner = System
                            /\ m[k].lamports >= accounts[k].lamports
    BY <1>1, Zenon DEF SavingsKept
  <2>1. /\ accounts[k].lamports \in Nat /\ l[k].lamports \in Nat
        /\ m[k] = IF l[k].lamports = 0 THEN DefaultAccount ELSE l[k]
    BY <1>1, <1>3, FieldTypes, Zenon
  <2>2. /\ IsWallet(accounts[k]) => l[k].data = accounts[k].data
        /\ accounts[k].owner = System /\ accounts[k].lamports > 0 =>
              l[k].owner = System /\ l[k].lamports >= accounts[k].lamports
    BY Zenon DEF Follows
  <2>4. ASSUME IsWallet(accounts[k])
        PROVE  \/ m[k].data = accounts[k].data
               \/ m[k] = DefaultAccount
    BY <2>1, <2>2, <2>4, Zenon
  <2>5. ASSUME accounts[k].owner = System, accounts[k].lamports > 0
        PROVE  m[k].owner = System /\ m[k].lamports >= accounts[k].lamports
    <3>1. l[k].owner = System /\ l[k].lamports >= accounts[k].lamports
      BY <2>2, <2>5, Zenon
    <3>2. l[k].lamports # 0
      BY <2>1, <2>5, <3>1
    <3> QED BY <2>1, <3>1, <3>2, Zenon
  <2> QED BY <2>4, <2>5, Zenon
<1> QED BY <1>5, <1>6, Zenon

(* The invariant holds of the genesis accounts. *)
LEMMA SavingsInit ==
    ASSUME BankInit
    PROVE  SavingsInv
<1>1. accounts = Genesis /\ work = Genesis /\ Zeroed \in SavingsData
  BY Zenon DEF BankInit, SavingsData
<1>2. BankInv(SavingsData)
  BY <1>1, BankInvInit, Zenon
<1>3. \A k \in Key : Plain(Genesis[k])
  BY GenesisAssumption, Zenon DEF Plain
<1>4. Shaped(Genesis)
  BY <1>3, Zenon DEF Shaped
<1>5. MinimumIn(Genesis)
  BY <1>3, ProgramsDiffer, Zenon DEF MinimumIn, Plain
<1>6. Follows(Genesis, Genesis)
  <2>1. Genesis \in [Key -> AccountWith(SavingsData)]
    BY <1>1, <1>2, Zenon DEF BankInv, BankTypeOK
  <2> QED BY <2>1, FollowsReflexive, Zenon
<1> QED BY <1>1, <1>2, <1>4, <1>5, <1>6, Zenon DEF SavingsInv

(* The capitalization leaves room for the minimum of a wallet, and the     *)
(* lamports of an open transaction are part of it.                         *)
LEMMA WorkFits ==
    ASSUME BankInv(SavingsData), Accounted, payer # NoPayer
    PROVE  TotalLamports(work) + MinimumBalance(Length) <= U64Max
<1>1. /\ TotalLamports(work) + Fee + collected = TotalLamports(Genesis)
      /\ work \in [Key -> AccountWith(SavingsData)] /\ collected \in Nat
  BY Zenon DEF Accounted, BankInv, BankTypeOK
<1>2. TotalLamports(work) \in Nat /\ Fee \in Nat /\ MinimumBalance(Length) \in Nat
  BY <1>1, TotalType, BankAssumption, MinimumBalanceType, Zenon DEF Length
<1>3. TotalLamports(Genesis) + MinimumBalance(Length) <= U64Max
  BY SupplyAssumption, Zenon DEF L2!WALLET_LEN, Length
<1> QED BY <1>1, <1>2, <1>3, RentAssumption

(* Every step of level1 and of level2 keeps the invariant, moves lamports  *)
(* without making any, and treats the stored program addresses as their    *)
(* life allows; an instruction of level2 takes only what it may.           *)
LEMMA SavingsStep ==
    ASSUME NEW keep \in BOOLEAN, SavingsInv, Accounted, WalletStep(keep)
    PROVE  /\ SavingsInv' /\ SavingsKept /\ Accounted'
           /\ keep /\ steps' > steps => AboveMinimum(work, work')
<1>1. /\ BankInv(SavingsData) /\ Zeroed \in SavingsData
      /\ accounts \in [Key -> AccountWith(SavingsData)]
      /\ work \in [Key -> AccountWith(SavingsData)] /\ work \in SavingsLedger
      /\ Shaped(work) /\ Follows(accounts, work)
  BY Zenon DEF SavingsInv, BankInv, BankTypeOK, SavingsLedger, SavingsData
<1> DEFINE Goal == /\ SavingsInv' /\ SavingsKept /\ Accounted'
                   /\ keep /\ steps' > steps => AboveMinimum(work, work')
<1>9. steps \in Nat
  BY <1>1, BankAssumption DEF BankInv, BankTypeOK
<1>10. ASSUME NoWalletDebited(work, work'), work' \in [Key -> AccountWith(SavingsData)]
       PROVE  AboveMinimum(work, work')
  <2>1. \A k \in Key : work[k].lamports \in Nat /\ work'[k].lamports \in Nat
    BY <1>1, <1>10, FieldTypes, Zenon
  <2> QED BY <1>10, <2>1 DEF NoWalletDebited, AboveMinimum
<1>11. ASSUME steps' = steps \/ steps' = 0
       PROVE  ~(steps' > steps)
  BY <1>9, <1>11
<1>2. ASSUME NEW p \in Payers, Begin(p)
      PROVE  Goal
  <2>1. accounts' = accounts /\ work' = Loaded(p) /\ FeePayerOk(p)
    BY <1>2, Zenon DEF Begin
  <2>2. /\ Shaped(Loaded(p)) /\ MinimumIn(Loaded(p)) /\ Follows(accounts, Loaded(p))
    BY <2>1, SavingsLoaded, Zenon
  <2>3. BankInv(SavingsData)' /\ Accounted'
    BY <1>1, <1>2, BankInvBegin, AccountedBegin, Zenon
  <2>4. SavingsInv'
    BY <2>1, <2>2, <2>3, Zenon DEF SavingsInv, Shaped, MinimumIn, Follows
  <2>5. SavingsKept
    BY <1>1, <2>1, FieldTypes DEF SavingsKept
  <2>6. ~(steps' > steps)
    BY <1>2, <1>11, Zenon DEF Begin
  <2> QED BY <2>3, <2>4, <2>5, <2>6, Zenon
<1>3. ASSUME NEW a \in Users,
             CreateAccountOk(work, a, get_wallet_address(a), MinimumBalance(Length)),
             Instruction(SavingsMade(work, a))
      PROVE  Goal
  <2>1. /\ SavingsMade(work, a) \in SavingsLedger
        /\ Shaped(SavingsMade(work, a)) /\ Follows(work, SavingsMade(work, a))
        /\ NoWalletDebited(work, SavingsMade(work, a))
        /\ TotalLamports(SavingsMade(work, a)) = TotalLamports(work)
    BY <1>1, <1>3, SavingsMadeKeeps, Zenon
  <2>2. Accounted'
    BY <1>3, <2>1, AccountedInstruction, Zenon
  <2>3. work' = SavingsMade(work, a)
    BY <1>3, Zenon DEF Instruction
  <2>4. AboveMinimum(work, work')
    BY <1>10, <2>1, <2>3, Zenon DEF SavingsLedger
  <2> QED BY <1>3, <2>1, <2>2, <2>4, SavingsInstruction, Zenon
<1>4. ASSUME NEW u \in Users, NEW k \in Key, NEW n \in WalletAmounts, SystemTransfer(u, k, n)
      PROVE  Goal
  <2> DEFINE m == Transferred(work, u, k, n)
  <2>1. TransferOk(work, u, k, n) /\ Instruction(m) /\ n \in U64 /\ u \in Key
    BY <1>4, Addresses, Zenon DEF SystemTransfer
  <2>2. /\ m \in [Key -> AccountWith(SavingsData)]
        /\ \A j \in Key : /\ m[j].owner = work[j].owner
                          /\ m[j].space = work[j].space
                          /\ m[j].data = work[j].data
        /\ \A j \in Key \ {u} : m[j].lamports >= work[j].lamports
    BY <1>1, <2>1, TransferFollows, Zenon
  <2>3. TotalLamports(m) = TotalLamports(work)
    BY <1>1, <2>1, TotalTransferred, Zenon
  <2> HIDE DEF m
  <2>4. Shaped(m) /\ Follows(work, m)
    <3>1. \A j \in Key \ Users : work[j].owner = System => m[j].lamports >= work[j].lamports
      BY <2>2, Zenon
    <3> QED BY <1>1, <2>2, <3>1, BalancesOnly, Zenon
  <2>5. NoWalletDebited(work, m)
    <3>1. ~IsWallet(work[u])
      <4>1. Plain(work[u])
        BY <1>1, <2>1, Addresses DEF Shaped, IsSavings
      <4> QED BY <4>1 DEF Plain, IsWallet, Zeroed
    <3> QED BY <2>2, <3>1, Zenon DEF NoWalletDebited
  <2>6. Accounted'
    BY <2>1, <2>3, AccountedInstruction, Zenon
  <2>7. AboveMinimum(work, work')
    <3>1. work' = m
      BY <2>1, Zenon DEF Instruction
    <3> QED BY <1>10, <2>2, <2>5, <3>1, Zenon
  <2> QED BY <2>1, <2>2, <2>4, <2>6, <2>7, SavingsInstruction, Zenon DEF SavingsLedger
<1>5. ASSUME NEW a \in Users, NEW k \in Key, NEW n \in WalletAmounts,
             SavingsWithdrawOk(keep, work, a, k, n),
             Instruction(MoveLamports(work, get_wallet_address(a), k, n))
      PROVE  Goal
  <2> DEFINE m == MoveLamports(work, get_wallet_address(a), k, n)
  <2>1. n \in U64
    BY Addresses, Zenon
  <2>2. /\ m \in SavingsLedger /\ Shaped(m) /\ Follows(work, m)
        /\ keep /\ TotalLamports(work) + MinimumBalance(Length) <= U64Max =>
              AboveMinimum(work, m)
        /\ TotalLamports(m) = TotalLamports(work)
    BY <1>1, <1>5, <2>1, SavingsWithdrawKeeps
  <2>3. Instruction(m)
    BY <1>5, Zenon
  <2> HIDE DEF m
  <2>4. TotalLamports(work) + MinimumBalance(Length) <= U64Max
    BY <1>1, <2>3, WorkFits, Zenon DEF Instruction
  <2>5. Accounted'
    BY <2>2, <2>3, AccountedInstruction, Zenon
  <2>6. work' = m
    BY <2>3, Zenon DEF Instruction
  <2> QED BY <2>2, <2>3, <2>4, <2>5, <2>6, SavingsInstruction, Zenon
<1>6. ASSUME Commit
      PROVE  Goal
  <2>1. payer \in Payers /\ FeePayerOk(payer) /\ End(work) /\ RentStatesOk(Loaded(payer), work)
    BY <1>1, <1>6, Zenon DEF Commit, BankInv, BankTypeOK, OpenPayerOk
  <2>2. \A k \in Key : ~RentPaying(work[k])
    BY <2>1, SavingsLoaded, Zenon DEF RentStatesOk, TransitionAllowed
  <2>3. Accounted'
    BY <1>1, <1>6, AccountedCommit, Zenon
  <2>4. ~(steps' > steps)
    BY <1>11, <2>1, Zenon DEF End
  <2> QED BY <1>1, <2>1, <2>2, <2>3, <2>4, SavingsEnd, Zenon
<1>7. ASSUME Fail
      PROVE  Goal
  <2>1. payer \in Payers /\ FeePayerOk(payer) /\ End(Loaded(payer))
    BY <1>1, <1>7, Zenon DEF Fail, BankInv, BankTypeOK, OpenPayerOk
  <2>2. /\ Loaded(payer) \in SavingsLedger /\ Shaped(Loaded(payer))
        /\ MinimumIn(Loaded(payer)) /\ Follows(accounts, Loaded(payer))
        /\ \A k \in Key : ~RentPaying(Loaded(payer)[k])
    BY <2>1, SavingsLoaded, Zenon
  <2>3. Accounted'
    BY <1>1, <1>7, AccountedFail, Zenon
  <2>4. ~(steps' > steps)
    BY <1>11, <2>1, Zenon DEF End
  <2> QED BY <2>1, <2>2, <2>3, <2>4, SavingsEnd, Zenon
<1>8. ASSUME UNCHANGED bankVars
      PROVE  Goal
  <2>1. accounts' = accounts /\ work' = work
    BY <1>8, Zenon DEF bankVars
  <2>2. BankInv(SavingsData)' /\ Accounted'
    BY <1>1, <1>8, BankInvStutter, AccountedStutter, Zenon
  <2>3. SavingsInv'
    BY <2>1, <2>2, Zenon DEF SavingsInv, Shaped, MinimumIn, Follows
  <2>4. SavingsKept
    BY <1>1, <2>1, FieldTypes DEF SavingsKept
  <2>5. ~(steps' > steps)
    BY <1>8, <1>11, Zenon DEF bankVars
  <2> QED BY <2>2, <2>3, <2>4, <2>5, Zenon
<1> HIDE DEF Goal
<1>12. Goal
  BY <1>2, <1>3, <1>4, <1>5, <1>6, <1>7, <1>8, Zenon DEF WalletStep
<1> QED BY <1>12, Zenon DEF Goal

-----------------------------------------------------------------------------
(* level1 *)

(* The balances that the instance adds up are those of this module. *)
LEMMA Level1Total == L1!Conservation <=> Conservation
BY Zenon DEF L1!Conservation, L1!TotalLamports, L1!SumFunctionOnSet, L1!FoldFunctionOnSet,
       L1!MapThenFoldSet, Conservation, TotalLamports, SumFunctionOnSet,
       FoldFunctionOnSet, MapThenFoldSet

(* What a step does to the addresses, in the words of level1.              *)
LEMMA Level1Keeps == SavingsKept => L1!AddressesKept
BY Zenon DEF SavingsKept, L1!AddressesKept, L1!IsWallet, IsWallet, L1!DefaultAccount,
       DefaultAccount, L1!Zeroed, Zeroed

(* The invariant of level1, and what a step of it does to the stored       *)
(* program addresses.                                                      *)
LEMMA Level1Invariance ==
    L1!Spec => [](SavingsInv /\ Accounted) /\ L1!AddressLifecycle
<1>1. L1!Init => SavingsInv /\ Accounted
  BY Level1Step, SavingsInit, AccountedInit, Zenon
<1>2. SavingsInv /\ Accounted /\ [L1!Next]_(L1!bankVars) =>
          (SavingsInv /\ Accounted)' /\ [L1!AddressesKept]_(L1!bankVars)
  <2> SUFFICES ASSUME SavingsInv, Accounted, [L1!Next]_(L1!bankVars)
               PROVE  (SavingsInv /\ Accounted)' /\ L1!AddressesKept
    BY Zenon
  <2>1. SavingsInv' /\ SavingsKept /\ Accounted'
    BY Level1Step, SavingsStep, Zenon
  <2>2. L1!AddressesKept
    BY <2>1, Level1Keeps, Zenon
  <2> QED BY <2>1, <2>2, Zenon
<1> QED BY <1>1, <1>2, PTL DEF L1!Spec, L1!AddressLifecycle

(* What the invariant says of the stored wallets of level1. *)
LEMMA Level1Stored ==
    ASSUME SavingsInv
    PROVE  L1!WalletStructure
<1> SUFFICES ASSUME NEW a \in Users
             PROVE  LET w == accounts[get_wallet_address(a)]
                    IN  \/ Plain(w)
                        \/ /\ w.owner = Program /\ w.space = Length
                           /\ w.data = Savings(a) /\ w.lamports >= MinimumBalance(Length)
  BY Zenon DEF L1!WalletStructure, L1!get_wallet_address, L1!Zeroed, L1!WALLET_LEN, L1!Wallet,
         L1!MinimumBalance, L1!AccountStorageOverhead, get_wallet_address, Zeroed, Length,
         Savings, MinimumBalance, AccountStorageOverhead, Plain
<1>1. get_wallet_address(a) \in Key
  BY Addresses, Zenon
<1>2. CASE IsSavings(accounts[get_wallet_address(a)], get_wallet_address(a))
  <2>1. PICK b \in Users :
            /\ get_wallet_address(a) = get_wallet_address(b)
            /\ accounts[get_wallet_address(a)].owner = Program
            /\ accounts[get_wallet_address(a)].space = Length
            /\ accounts[get_wallet_address(a)].data = Savings(b)
    BY <1>2, Zenon DEF IsSavings
  <2>2. a = b
    BY <2>1, Addresses, Zenon
  <2>3. accounts[get_wallet_address(a)].lamports >= MinimumBalance(Length)
    BY <1>1, <2>1, Zenon DEF SavingsInv, MinimumIn
  <2> QED BY <2>1, <2>2, <2>3, Zenon
<1> QED BY <1>1, <1>2, Zenon DEF SavingsInv, Shaped

(* A wallet address of level1 is stored as a plain account or as the       *)
(* complete wallet of its authority, above its rent-exempt minimum,        *)
(* however initialize, deposit and withdraw are mixed in transactions that *)
(* may fail.                                                               *)
THEOREM Level1Structure == L1!Spec => []L1!WalletStructure
BY Level1Invariance, Level1Stored, PTL

(* A wallet of level1 stays its authority's or closes with nothing left; a *)
(* funded address that is not a wallet keeps its lamports.                 *)
THEOREM Level1Lifecycle == L1!Spec => L1!AddressLifecycle
BY Level1Invariance, PTL

(* No instruction of level1 makes or loses lamports. *)
THEOREM Level1Conserves == L1!Spec => []L1!Conservation
<1>1. Accounted => L1!Conservation
  BY Level1Total, Zenon DEF Accounted
<1> QED BY <1>1, Level1Invariance, PTL

-----------------------------------------------------------------------------
(* level2 *)

(* The balances that the instance adds up are those of this module. *)
LEMMA Level2Total == L2!Conservation <=> Conservation
BY Zenon DEF L2!Conservation, L2!TotalLamports, L2!SumFunctionOnSet, L2!FoldFunctionOnSet,
       L2!MapThenFoldSet, Conservation, TotalLamports, SumFunctionOnSet,
       FoldFunctionOnSet, MapThenFoldSet

(* What a step does to the addresses, in the words of level2.              *)
LEMMA Level2Keeps == SavingsKept => L2!AddressesKept
BY Zenon DEF SavingsKept, L2!AddressesKept, L2!IsWallet, IsWallet, L2!DefaultAccount,
       DefaultAccount, L2!Zeroed, Zeroed

(* What an instruction takes from wallets, in the words of level2.         *)
LEMMA Level2Takes ==
    ASSUME SavingsInv, AboveMinimum(work, work')
    PROVE  L2!TakenAboveMinimum
<1>1. /\ \A a \in Users : L2!get_wallet_address(a) = get_wallet_address(a)
      /\ L2!MinimumBalance(L2!WALLET_LEN) = MinimumBalance(Length)
      /\ \A acc : L2!IsWallet(acc) <=> IsWallet(acc)
  BY Zenon DEF L2!get_wallet_address, L2!MinimumBalance, L2!AccountStorageOverhead,
         L2!WALLET_LEN, L2!IsWallet, get_wallet_address, MinimumBalance,
         AccountStorageOverhead, Length, IsWallet
<1>2. L2!Wallets \subseteq Key
  BY <1>1, Addresses, SMTT(30) DEF L2!Wallets
<1>3. ASSUME NEW j \in Key, IsWallet(work[j])
      PROVE  j \in L2!Wallets
  <2>1. IsSavings(work[j], j)
    BY <1>3 DEF SavingsInv, Shaped, Plain, IsWallet, Zeroed
  <2> QED BY <1>1, <2>1, Zenon DEF IsSavings, L2!Wallets
<1> QED BY <1>1, <1>2, <1>3, Zenon DEF AboveMinimum, L2!TakenAboveMinimum

(* The invariant of level2, and what a step of it does to wallets.         *)
LEMMA Level2Invariance ==
    L2!Spec => [](SavingsInv /\ Accounted) /\ L2!AddressLifecycle /\ L2!MinimumKept
<1>1. L2!Init => SavingsInv /\ Accounted
  BY Level2Step, SavingsInit, AccountedInit, Zenon
<1>2. SavingsInv /\ Accounted /\ [L2!Next]_(L2!bankVars) =>
          /\ (SavingsInv /\ Accounted)'
          /\ [L2!AddressesKept]_(L2!bankVars)
          /\ [steps' > steps => L2!TakenAboveMinimum]_(L2!bankVars)
  <2> SUFFICES ASSUME SavingsInv, Accounted, [L2!Next]_(L2!bankVars)
               PROVE  /\ (SavingsInv /\ Accounted)' /\ L2!AddressesKept
                      /\ steps' > steps => L2!TakenAboveMinimum
    BY Zenon
  <2>1. /\ SavingsInv' /\ SavingsKept /\ Accounted'
        /\ steps' > steps => AboveMinimum(work, work')
    BY Level2Step, SavingsStep, Zenon
  <2> QED BY <2>1, Level2Keeps, Level2Takes, Zenon
<1> QED BY <1>1, <1>2, PTL DEF L2!Spec, L2!AddressLifecycle, L2!MinimumKept

(* What the invariant says of the stored wallets of level2. *)
LEMMA Level2Stored ==
    ASSUME SavingsInv
    PROVE  L2!WalletStructure
<1> SUFFICES ASSUME NEW a \in Users
             PROVE  LET w == accounts[get_wallet_address(a)]
                    IN  \/ Plain(w)
                        \/ /\ w.owner = Program /\ w.space = Length
                           /\ w.data = Savings(a) /\ w.lamports >= MinimumBalance(Length)
  BY Zenon DEF L2!WalletStructure, L2!get_wallet_address, L2!Zeroed, L2!WALLET_LEN, L2!Wallet,
         L2!MinimumBalance, L2!AccountStorageOverhead, get_wallet_address, Zeroed, Length,
         Savings, MinimumBalance, AccountStorageOverhead, Plain
<1>1. get_wallet_address(a) \in Key
  BY Addresses, Zenon
<1>2. CASE IsSavings(accounts[get_wallet_address(a)], get_wallet_address(a))
  <2>1. PICK b \in Users :
            /\ get_wallet_address(a) = get_wallet_address(b)
            /\ accounts[get_wallet_address(a)].owner = Program
            /\ accounts[get_wallet_address(a)].space = Length
            /\ accounts[get_wallet_address(a)].data = Savings(b)
    BY <1>2, Zenon DEF IsSavings
  <2>2. a = b
    BY <2>1, Addresses, Zenon
  <2>3. accounts[get_wallet_address(a)].lamports >= MinimumBalance(Length)
    BY <1>1, <2>1, Zenon DEF SavingsInv, MinimumIn
  <2> QED BY <2>1, <2>2, <2>3, Zenon
<1> QED BY <1>1, <1>2, Zenon DEF SavingsInv, Shaped

(* level2 stores complete wallets, as level1 does, for any amounts. *)
THEOREM Level2Structure == L2!Spec => []L2!WalletStructure
BY Level2Invariance, Level2Stored, PTL

(* No instruction of level2 makes or loses lamports. *)
THEOREM Level2Conserves == L2!Spec => []L2!Conservation
<1>1. Accounted => L2!Conservation
  BY Level2Total, Zenon DEF Accounted
<1> QED BY <1>1, Level2Invariance, PTL

(* For every u64 amount, also one with which `min_balance + amount` wraps, *)
(* an instruction of level2 takes from a wallet what is above its minimum, *)
(* or else what another wallet of the program receives.                    *)
THEOREM Level2KeepsMinimum == L2!Spec => L2!MinimumKept
BY Level2Invariance, PTL

(* A wallet of level2 stays its authority's or closes with nothing left; a *)
(* funded address that is not a wallet keeps its lamports.                 *)
THEOREM Level2Lifecycle == L2!Spec => L2!AddressLifecycle
BY Level2Invariance, PTL

(* A withdrawal of level2 of what is above the minimum passes. *)
LEMMA Level2Passes ==
    ASSUME SavingsInv, Conservation, NEW a \in Users, NEW n \in U64,
           IsWallet(accounts[get_wallet_address(a)]), accounts[a].lamports > 0,
           MinimumBalance(Length) + n <= accounts[get_wallet_address(a)].lamports
    PROVE  LET w == get_wallet_address(a)
               m == MoveLamports(accounts, w, a, n)
           IN  /\ accounts[w].owner = Program
               /\ accounts[w].data.authority = a
               /\ WrapAdd(MinimumBalance(Length), n) <= accounts[w].lamports
               /\ Verified(Program, accounts, m, w, a)
               /\ RentStatesOk(accounts, m)
<1> DEFINE w == get_wallet_address(a)
           min == MinimumBalance(Length)
           m == MoveLamports(accounts, w, a, n)
<1>1. /\ BankTypeOK(SavingsData) /\ accounts \in [Key -> AccountWith(SavingsData)]
      /\ RentExempt /\ Shaped(accounts)
  BY Zenon DEF SavingsInv, BankInv, BankTypeOK
<1>2. w \in Key /\ a \in Key /\ a # w
  BY Addresses, Zenon
<1>3. /\ accounts[w].owner = Program /\ accounts[w].space = Length
      /\ accounts[w].data.authority = a
  <2>1. IsSavings(accounts[w], w)
    BY <1>1, <1>2 DEF Shaped, Plain, IsWallet, Zeroed
  <2> QED BY <2>1, Addresses DEF IsSavings, Savings
<1>4. /\ min \in Nat /\ n \in Nat /\ U64Max \in Nat
      /\ accounts[w].lamports \in Nat /\ accounts[w].lamports <= U64Max
      /\ accounts[a].lamports \in Nat
  BY <1>1, <1>2, FieldTypes, MinimumBalanceType, RentAssumption DEF Length, U64
<1>5. min + n <= accounts[w].lamports
  BY Zenon
<1> HIDE DEF min
<1>6. WrapAdd(min, n) <= accounts[w].lamports /\ n <= accounts[w].lamports
  BY <1>4, <1>5 DEF WrapAdd
<1>7. /\ Verified(Program, accounts, m, w, a)
      /\ m[w].lamports = accounts[w].lamports - n
      /\ m[a].lamports = accounts[a].lamports + n
      /\ \A k \in Key \ {w, a} : m[k] = accounts[k]
      /\ \A k \in Key : m[k].space = accounts[k].space
  BY <1>1, <1>2, <1>3, <1>6, ProgramPays, Zenon
<1> HIDE DEF m, w
<1>8. ASSUME NEW k \in Key
      PROVE  TransitionAllowed(accounts[k], m[k])
  <2>1. CASE k = w
    <3>1. m[w].lamports >= min
      BY <1>4, <1>5, <1>7
    <3> QED BY <1>2, <1>3, <1>7, <2>1, <3>1, Zenon DEF TransitionAllowed, RentPaying, IsExempt, min
  <2>2. CASE k = a
    <3>1. ~RentPaying(accounts[a]) /\ m[a].space = accounts[a].space
      BY <1>1, <1>2, <1>7, Zenon DEF RentExempt
    <3>2. accounts[a].lamports >= MinimumBalance(accounts[a].space)
      BY <3>1, Zenon DEF RentPaying, IsExempt
    <3>3. MinimumBalance(accounts[a].space) \in Nat
      BY <1>1, <1>2, FieldTypes, MinimumBalanceType, Zenon
    <3>4. m[a].lamports >= MinimumBalance(accounts[a].space)
      BY <1>4, <1>7, <3>2, <3>3
    <3> QED BY <2>2, <3>1, <3>4, Zenon DEF TransitionAllowed, RentPaying, IsExempt
  <2>3. CASE k # w /\ k # a
    BY <1>1, <1>7, <2>3, Zenon DEF TransitionAllowed, RentExempt
  <2> QED BY <2>1, <2>2, <2>3, Zenon
<1> QED BY <1>3, <1>6, <1>7, <1>8, Zenon DEF RentStatesOk, m, w, min

(* What is above the minimum passes, for each amount of the property.      *)
LEMMA Level2Serves == SavingsInv /\ Accounted => L2!Withdrawable
<1> SUFFICES ASSUME SavingsInv, Accounted, NEW a \in Users
             PROVE  LET w == accounts[L2!get_wallet_address(a)]
                        spare == w.lamports - L2!MinimumBalance(L2!WALLET_LEN)
                    IN  L2!IsWallet(w) /\ accounts[a].lamports > 0 =>
                        \A n \in {m \in WalletAmounts \cup {spare} : m <= spare} :
                           /\ L2!WithdrawOk(accounts, a, a, n)
                           /\ L2!RentStatesOk(accounts, L2!WithdrawPost(accounts, a, a, n))
  BY Zenon DEF L2!Withdrawable
<1>1. /\ L2!get_wallet_address(a) = get_wallet_address(a)
      /\ L2!MinimumBalance(L2!WALLET_LEN) = MinimumBalance(Length)
      /\ \A acc : L2!IsWallet(acc) <=> IsWallet(acc)
  BY Zenon DEF L2!get_wallet_address, L2!MinimumBalance, L2!AccountStorageOverhead,
         L2!WALLET_LEN, L2!IsWallet, get_wallet_address, MinimumBalance,
         AccountStorageOverhead, Length, IsWallet
<1> DEFINE w     == get_wallet_address(a)
           spare == accounts[w].lamports - MinimumBalance(Length)
<1> SUFFICES ASSUME IsWallet(accounts[w]), accounts[a].lamports > 0,
                    NEW n \in WalletAmounts \cup {spare}, n <= spare
             PROVE  /\ L2!WithdrawOk(accounts, a, a, n)
                    /\ L2!RentStatesOk(accounts, L2!WithdrawPost(accounts, a, a, n))
  BY <1>1, Zenon
<1>2. /\ accounts[w].lamports \in Nat /\ accounts[w].lamports <= U64Max
      /\ U64Max \in Nat /\ MinimumBalance(Length) \in Nat
  BY FieldTypes, Addresses, MinimumBalanceType, RentAssumption, Zenon
     DEF SavingsInv, BankInv, BankTypeOK, Length
<1>3. accounts[w].lamports >= MinimumBalance(Length)
  <2>1. w \in Key /\ accounts[w].owner = Program
    BY Addresses DEF SavingsInv, Shaped, Plain, IsSavings, IsWallet, Zeroed
  <2> QED BY <2>1, Zenon DEF SavingsInv, MinimumIn
<1>4. n \in U64 /\ MinimumBalance(Length) + n <= accounts[w].lamports
  <2>1. spare \in U64
    BY <1>2, <1>3 DEF U64
  <2>2. n \in U64
    BY <2>1, Addresses, Zenon
  <2>3. n \in Nat
    BY <2>2, RentAssumption DEF U64
  <2> QED BY <1>2, <2>2, <2>3
<1>5. /\ accounts[w].owner = Program
      /\ accounts[w].data.authority = a
      /\ WrapAdd(MinimumBalance(Length), n) <= accounts[w].lamports
      /\ Verified(Program, accounts, MoveLamports(accounts, w, a, n), w, a)
      /\ RentStatesOk(accounts, MoveLamports(accounts, w, a, n))
  BY <1>4, Level2Passes, Zenon DEF Accounted
<1>6. L2!WithdrawPost(accounts, a, a, n) = MoveLamports(accounts, w, a, n)
  BY Zenon DEF L2!WithdrawPost, L2!MoveLamports, L2!SetLamports, L2!WrapAdd, L2!WrapSub,
         L2!get_wallet_address, MoveLamports, SetLamports, WrapAdd, WrapSub,
         get_wallet_address
<1> HIDE DEF w
<1>7. L2!Verified(Program, accounts, L2!WithdrawPost(accounts, a, a, n), w, a)
  BY <1>5, <1>6, Zenon DEF L2!Verified, L2!VerifiedAccount, L2!Balanced, L2!Zeroed,
                    Verified, VerifiedAccount, Balanced, Zeroed
<1>8. L2!WithdrawOk(accounts, a, a, n)
  BY <1>1, <1>5, <1>7, Zenon DEF L2!WithdrawOk, L2!WrapAdd, WrapAdd, w
<1>9. L2!RentStatesOk(accounts, L2!WithdrawPost(accounts, a, a, n))
  BY <1>5, <1>6, Zenon DEF L2!RentStatesOk, L2!TransitionAllowed, L2!RentPaying, L2!IsExempt,
     L2!MinimumBalance, L2!AccountStorageOverhead, RentStatesOk, TransitionAllowed,
     RentPaying, IsExempt, MinimumBalance, AccountStorageOverhead
<1> QED BY <1>8, <1>9, Zenon

(* Everything above the minimum can be withdrawn from a wallet of level2   *)
(* by its authority to its own funded account: neither withdraw, nor the   *)
(* check after it, nor the rent-state check refuses.                       *)
THEOREM Level2Withdrawable == L2!Spec => []L2!Withdrawable
BY Level2Serves, Level2Invariance, PTL

-----------------------------------------------------------------------------
(* level0.  The inductive invariant: every address is plain, a complete    *)
(* wallet with its rent-exempt minimum, or a vault whose wallet exists; an *)
(* address follows what is stored there, and a vault that was emptied is   *)
(* not made again while its wallet exists.                                 *)

IsFirstWallet(l, k) ==
    \E a \in Users : /\ k = get_wallet_address(a)
                     /\ l[k].owner = Program /\ l[k].space = WALLET_LEN
                     /\ l[k].data = Wallet(a, get_vault_address(a))
                     /\ l[k].lamports >= MinimumBalance(WALLET_LEN)

IsVault(l, k) ==
    \E a \in Users : /\ k = get_vault_address(a)
                     /\ l[k].owner = Program /\ l[k].space = 0 /\ l[k].data = Zeroed
                     /\ l[get_wallet_address(a)].owner = Program

Paired(l) == \A k \in Key : Plain(l[k]) \/ IsFirstWallet(l, k) \/ IsVault(l, k)

StaysClosed(l, m) ==
    \A a \in Users : /\ IsWallet(l[get_wallet_address(a)])
                     /\ l[get_vault_address(a)].owner = System
                     => m[get_vault_address(a)].owner = System

PairInv ==
    /\ BankInv(Data)
    /\ Paired(accounts) /\ Paired(work)
    /\ Follows(accounts, work) /\ StaysClosed(accounts, work)

PairLedger == [Key -> AccountWith(Data)]

(* What level0 may do to the stored accounts in one step. *)
PairKept == AddressesKept /\ ClosedVaultStays

(* A user's account is plain. *)
LEMMA UsersPlain ==
    ASSUME NEW l, Paired(l), NEW u \in Users
    PROVE  Plain(l[u])
<1>1. u \in Key /\ ~IsFirstWallet(l, u) /\ ~IsVault(l, u)
  BY Addresses, Zenon DEF IsFirstWallet, IsVault
<1> QED BY <1>1, Zenon DEF Paired

(* The wallet and the vault of an authority. *)
LEMMA PairShape ==
    ASSUME NEW l, Paired(l), NEW a \in Users
    PROVE  /\ \/ Plain(l[get_wallet_address(a)])
              \/ /\ l[get_wallet_address(a)].owner = Program
                 /\ l[get_wallet_address(a)].space = WALLET_LEN
                 /\ l[get_wallet_address(a)].data = Wallet(a, get_vault_address(a))
                 /\ l[get_wallet_address(a)].lamports >= MinimumBalance(WALLET_LEN)
           /\ \/ Plain(l[get_vault_address(a)])
              \/ /\ l[get_vault_address(a)].owner = Program
                 /\ l[get_vault_address(a)].space = 0
                 /\ l[get_vault_address(a)].data = Zeroed
                 /\ l[get_wallet_address(a)].owner = Program
<1> DEFINE w == get_wallet_address(a)
           v == get_vault_address(a)
<1>1. w \in Key /\ v \in Key
  BY Addresses, Zenon
<1>2. ~IsVault(l, w) /\ ~IsFirstWallet(l, v)
  BY Addresses, Zenon DEF IsVault, IsFirstWallet
<1>3. ASSUME IsFirstWallet(l, w)
      PROVE  /\ l[w].owner = Program /\ l[w].space = WALLET_LEN
             /\ l[w].data = Wallet(a, v) /\ l[w].lamports >= MinimumBalance(WALLET_LEN)
  <2>1. PICK b \in Users : /\ w = get_wallet_address(b)
                           /\ l[w].owner = Program /\ l[w].space = WALLET_LEN
                           /\ l[w].data = Wallet(b, get_vault_address(b))
                           /\ l[w].lamports >= MinimumBalance(WALLET_LEN)
    BY <1>3, Zenon DEF IsFirstWallet
  <2>2. b = a
    BY <2>1, Addresses, Zenon
  <2> QED BY <2>1, <2>2, Zenon
<1>4. ASSUME IsVault(l, v)
      PROVE  /\ l[v].owner = Program /\ l[v].space = 0 /\ l[v].data = Zeroed
             /\ l[w].owner = Program
  <2>1. PICK b \in Users : /\ v = get_vault_address(b)
                           /\ l[v].owner = Program /\ l[v].space = 0 /\ l[v].data = Zeroed
                           /\ l[get_wallet_address(b)].owner = Program
    BY <1>4, Zenon DEF IsVault
  <2>2. b = a
    BY <2>1, Addresses, Zenon
  <2> QED BY <2>1, <2>2, Zenon
<1> QED BY <1>1, <1>2, <1>3, <1>4, Zenon DEF Paired

(* StaysClosed holds of a whole transaction, as Follows does. *)
LEMMA ClosedTransitive ==
    ASSUME NEW l, NEW m, NEW o, Follows(l, m), StaysClosed(l, m), StaysClosed(m, o)
    PROVE  StaysClosed(l, o)
<1> SUFFICES ASSUME NEW a \in Users, IsWallet(l[get_wallet_address(a)]),
                    l[get_vault_address(a)].owner = System
             PROVE  o[get_vault_address(a)].owner = System
  BY Zenon DEF StaysClosed
<1>1. m[get_wallet_address(a)].data = l[get_wallet_address(a)].data
  BY Addresses, Zenon DEF Follows
<1> QED BY <1>1, Zenon DEF StaysClosed, IsWallet

(* Changing balances only: those of wallets, and of addresses that the     *)
(* program does not own, only upwards.                                     *)
LEMMA PairBalances ==
    ASSUME NEW l \in PairLedger, NEW m \in PairLedger, Paired(l),
           \A k \in Key : /\ m[k].owner = l[k].owner
                          /\ m[k].space = l[k].space
                          /\ m[k].data = l[k].data,
           \A k \in Key \ Users : l[k].owner = System => m[k].lamports >= l[k].lamports,
           \A a \in Users : m[get_wallet_address(a)].lamports
                                >= l[get_wallet_address(a)].lamports
    PROVE  Paired(m) /\ Follows(l, m) /\ StaysClosed(l, m)
<1>1. Follows(l, m)
  BY Zenon DEF Follows
<1>2. StaysClosed(l, m)
  BY Addresses, Zenon DEF StaysClosed
<1>3. ASSUME NEW k \in Key
      PROVE  Plain(m[k]) \/ IsFirstWallet(m, k) \/ IsVault(m, k)
  <2>1. CASE Plain(l[k])
    BY <2>1, Zenon DEF Plain
  <2>2. CASE IsFirstWallet(l, k)
    <3>1. PICK a \in Users : /\ k = get_wallet_address(a)
                             /\ l[k].owner = Program /\ l[k].space = WALLET_LEN
                             /\ l[k].data = Wallet(a, get_vault_address(a))
                             /\ l[k].lamports >= MinimumBalance(WALLET_LEN)
      BY <2>2, Zenon DEF IsFirstWallet
    <3>2. /\ m[k].lamports >= l[k].lamports
          /\ l[k].lamports \in Nat /\ m[k].lamports \in Nat
          /\ MinimumBalance(WALLET_LEN) \in Nat
      BY <3>1, FieldTypes, MinimumBalanceType, Zenon DEF PairLedger, WALLET_LEN
    <3>3. m[k].lamports >= MinimumBalance(WALLET_LEN)
      BY <3>1, <3>2
    <3> QED BY <3>1, <3>3, Zenon DEF IsFirstWallet
  <2>3. CASE IsVault(l, k)
    BY <2>3, Addresses, Zenon DEF IsVault
  <2> QED BY <2>1, <2>2, <2>3, Zenon DEF Paired
<1> QED BY <1>1, <1>2, <1>3, Zenon DEF Paired

(* The purge of accounts without lamports touches no wallet, and leaves    *)
(* nothing of an emptied vault.                                            *)
LEMMA PairStored ==
    ASSUME NEW l \in PairLedger, Paired(l)
    PROVE  /\ Purged(l) \in PairLedger
           /\ Paired(Purged(l)) /\ Follows(l, Purged(l)) /\ StaysClosed(l, Purged(l))
<1> DEFINE m == Purged(l)
<1>1. /\ m \in PairLedger
      /\ \A k \in Key : m[k] = IF l[k].lamports = 0 THEN DefaultAccount ELSE l[k]
  BY PurgedFields, Zenon DEF PairLedger, Data
<1> HIDE DEF m
<1>2. Plain(DefaultAccount) /\ DefaultAccount.owner = System
  BY Zenon DEF Plain, DefaultAccount
<1>3. \A k \in Key : l[k].lamports \in Nat
  BY FieldTypes, Zenon DEF PairLedger
<1>4. ASSUME NEW k \in Key, IsFirstWallet(l, k) PROVE m[k] = l[k]
  <2>1. l[k].lamports >= MinimumBalance(WALLET_LEN)
    BY <1>4, Zenon DEF IsFirstWallet
  <2>2. MinimumBalance(WALLET_LEN) \in Nat /\ MinimumBalance(WALLET_LEN) > 0
    BY MinimumBalanceType, Zenon DEF WALLET_LEN
  <2>3. l[k].lamports # 0
    BY <1>3, <2>1, <2>2
  <2> QED BY <1>1, <2>3, Zenon
<1>5. ASSUME NEW k \in Key
      PROVE  Plain(m[k]) \/ IsFirstWallet(m, k) \/ IsVault(m, k)
  <2>1. CASE l[k].lamports = 0 \/ Plain(l[k])
    BY <1>1, <1>2, <2>1, Zenon
  <2>2. CASE IsFirstWallet(l, k)
    BY <1>4, <2>2, Zenon DEF IsFirstWallet
  <2>3. CASE IsVault(l, k) /\ l[k].lamports # 0
    <3>1. PICK a \in Users : /\ k = get_vault_address(a)
                             /\ l[k].owner = Program /\ l[k].space = 0 /\ l[k].data = Zeroed
                             /\ l[get_wallet_address(a)].owner = Program
      BY <2>3, Zenon DEF IsVault
    <3>2. IsFirstWallet(l, get_wallet_address(a)) /\ get_wallet_address(a) \in Key
      BY <3>1, PairShape, Addresses, ProgramsDiffer, Zenon DEF IsFirstWallet, Plain
    <3>3. m[get_wallet_address(a)].owner = Program
      BY <1>4, <3>1, <3>2, Zenon
    <3>4. m[k] = l[k]
      BY <1>1, <2>3, Zenon
    <3> QED BY <3>1, <3>3, <3>4, Zenon DEF IsVault
  <2> QED BY <2>1, <2>2, <2>3, Zenon DEF Paired
<1>6. Paired(m)
  BY <1>5, Zenon DEF Paired
<1>7. Follows(l, m)
  <2> SUFFICES ASSUME NEW k \in Key \ Users
               PROVE  /\ IsWallet(l[k]) => m[k].data = l[k].data
                      /\ l[k].owner = System /\ l[k].lamports > 0 =>
                            m[k].owner = System /\ m[k].lamports >= l[k].lamports
    BY Zenon DEF Follows
  <2>1. IsWallet(l[k]) => m[k] = l[k]
    BY <1>4 DEF Paired, Plain, IsVault, IsWallet, Zeroed
  <2>2. l[k].lamports > 0 => m[k] = l[k]
    BY <1>1, <1>3
  <2>3. l[k].lamports >= l[k].lamports
    BY <1>3
  <2> QED BY <2>1, <2>2, <2>3, Zenon
<1>8. StaysClosed(l, m)
  BY <1>1, <1>2, Addresses, Zenon DEF StaysClosed
<1> QED BY <1>1, <1>6, <1>7, <1>8, Zenon DEF m

(* initialize of level0: wallet and vault are made together. *)
LEMMA PairMade ==
    ASSUME NEW l \in PairLedger, Paired(l), NEW a \in Users, InitializeOk(l, a)
    PROVE  LET m == InitializePost(l, a)
           IN  /\ m \in PairLedger
               /\ Paired(m) /\ Follows(l, m) /\ StaysClosed(l, m)
               /\ TotalLamports(m) = TotalLamports(l)
<1> DEFINE w    == get_wallet_address(a)
           v    == get_vault_address(a)
           minW == MinimumBalance(WALLET_LEN)
           minV == MinimumBalance(0)
           c    == WalletCreated(l, a)
           e    == AccountCreated(c, a, v, minV, 0, Program)
           d    == Wallet(a, v)
           m    == InitializePost(l, a)
<1>1. /\ a \in Key /\ w \in Key \ Users /\ v \in Key \ Users
      /\ a # w /\ a # v /\ w # v /\ WALLET_LEN \in Nat /\ 0 \in Nat
  BY Addresses, Zenon DEF WALLET_LEN
<1>2. /\ l \in [Key -> AccountWith(Data)] /\ Zeroed \in Data /\ d \in Data
  BY Zenon DEF PairLedger, Data, Wallet, Vaults
<1>3. /\ CreateAccountOk(l, a, w, minW)
      /\ CreateAccountOk(c, a, v, minV)
  BY Zenon DEF InitializeOk
<1>4. c = AccountCreated(l, a, w, minW, WALLET_LEN, Program)
  BY Zenon DEF WalletCreated
<1>e. e = AccountCreated(c, a, v, minV, 0, Program)
  OBVIOUS
<1>5. minW \in Nat /\ minV \in Nat
  BY <1>1, MinimumBalanceType, Zenon
<1>6. m = SetData(e, w, d)
  BY Zenon DEF InitializePost
<1> HIDE DEF minW, minV, c, e, d, m, w, v
<1>7. ASSUME NEW x \in [Key -> AccountWith(Data)], NEW n \in Nat, NEW k \in Key,
             CreateAccountOk(x, a, k, n)
      PROVE  n \in U64 /\ x[k].lamports = 0 /\ x[k].owner = System
  <2>1. n <= x[a].lamports /\ x[k].lamports = 0 /\ x[k].owner = System
    BY <1>7, Zenon DEF CreateAccountOk, TransferOk
  <2>2. x[a].lamports \in Nat /\ x[a].lamports <= U64Max
    BY <1>1, FieldTypes, Zenon
  <2>3. n \in U64
    BY <2>1, <2>2, RentAssumption DEF U64
  <2> QED BY <2>1, <2>3, Zenon
<1>8. minW \in U64 /\ l[w].lamports = 0 /\ l[w].owner = System
  BY <1>1, <1>2, <1>3, <1>5, <1>7, Zenon
<1>9. /\ c \in [Key -> AccountWith(Data)]
      /\ c[w] = [lamports |-> minW, owner |-> Program, space |-> WALLET_LEN, data |-> Zeroed]
      /\ c[a] = [lamports |-> l[a].lamports - minW, owner |-> l[a].owner,
                 space |-> l[a].space, data |-> l[a].data]
      /\ \A k \in Key \ {a, w} : c[k] = l[k]
  BY <1>1, <1>2, <1>3, <1>4, <1>8, AccountCreatedFields
<1>10. TotalLamports(c) = TotalLamports(l)
  BY <1>1, <1>2, <1>3, <1>4, <1>8, TotalAccountCreated, Zenon
<1>11. minV \in U64 /\ c[v].lamports = 0 /\ c[v].owner = System
  BY <1>1, <1>3, <1>5, <1>7, <1>9, Zenon
<1>12. /\ e \in [Key -> AccountWith(Data)]
       /\ e[v] = [lamports |-> minV, owner |-> Program, space |-> 0, data |-> Zeroed]
       /\ e[a] = [lamports |-> c[a].lamports - minV, owner |-> c[a].owner,
                  space |-> c[a].space, data |-> c[a].data]
       /\ \A k \in Key \ {a, v} : e[k] = c[k]
  BY <1>1, <1>2, <1>3, <1>e, <1>9, <1>11, AccountCreatedFields
<1>13. TotalLamports(e) = TotalLamports(l)
  BY <1>1, <1>2, <1>3, <1>e, <1>9, <1>10, <1>11, TotalAccountCreated
<1>14. /\ m \in [Key -> AccountWith(Data)]
       /\ m[w] = [lamports |-> e[w].lamports, owner |-> e[w].owner,
                  space |-> e[w].space, data |-> d]
       /\ \A k \in Key \ {w} : m[k] = e[k]
       /\ \A k \in Key : /\ m[k].lamports = e[k].lamports
                         /\ m[k].owner = e[k].owner
                         /\ m[k].space = e[k].space
  BY <1>1, <1>2, <1>6, <1>12, SetDataFields
<1>15. TotalLamports(m) = TotalLamports(l)
  BY <1>1, <1>6, <1>12, <1>13, TotalSetData, Zenon
<1>16. /\ m[w].lamports = minW /\ m[w].owner = Program
       /\ m[w].space = WALLET_LEN /\ m[w].data = d
  BY <1>1, <1>9, <1>12, <1>14
<1>17. /\ m[v].owner = Program /\ m[v].space = 0 /\ m[v].data = Zeroed
       /\ m[a].owner = l[a].owner /\ m[a].space = l[a].space /\ m[a].data = l[a].data
       /\ \A k \in Key \ {a, w, v} : m[k] = l[k]
  BY <1>1, <1>9, <1>12, <1>14
<1>18. Plain(l[a]) /\ Plain(l[w]) /\ Plain(l[v]) /\ l[v].lamports = 0
  <2>1. l[v].owner = System /\ l[v].lamports = 0
    BY <1>1, <1>9, <1>11, Zenon
  <2> QED BY <1>8, <2>1, UsersPlain, PairShape, ProgramsDiffer, Zenon DEF Plain, w, v
<1>19. \A b \in Users : b # a =>
          /\ get_wallet_address(b) \notin {a, w, v} /\ get_wallet_address(b) \in Key
          /\ get_vault_address(b) \notin {a, w, v} /\ get_vault_address(b) \in Key
  BY Addresses, Zenon DEF w, v
<1>20. ASSUME NEW k \in Key
       PROVE  Plain(m[k]) \/ IsFirstWallet(m, k) \/ IsVault(m, k)
  <2>1. CASE k = a
    BY <1>17, <1>18, <2>1, Zenon DEF Plain
  <2>2. CASE k = w
    <3>1. m[w].lamports >= minW
      BY <1>5, <1>16
    <3> QED BY <1>16, <2>2, <3>1, Zenon DEF IsFirstWallet, w, d, v, minW
  <2>3. CASE k = v
    BY <1>16, <1>17, <2>3, Zenon DEF IsVault, v, w
  <2>4. CASE k \notin {a, w, v}
    <3>1. m[k] = l[k]
      BY <1>17, <2>4, Zenon
    <3>2. CASE Plain(l[k])
      BY <3>1, <3>2, Zenon
    <3>3. CASE IsFirstWallet(l, k)
      BY <3>1, <3>3, Zenon DEF IsFirstWallet
    <3>4. CASE IsVault(l, k)
      <4>1. PICK b \in Users : /\ k = get_vault_address(b)
                               /\ l[k].owner = Program /\ l[k].space = 0 /\ l[k].data = Zeroed
                               /\ l[get_wallet_address(b)].owner = Program
        BY <3>4, Zenon DEF IsVault
      <4>2. b # a
        BY <2>4, <4>1, Zenon DEF v
      <4>3. m[get_wallet_address(b)] = l[get_wallet_address(b)]
        BY <1>17, <1>19, <4>2, Zenon
      <4> QED BY <3>1, <4>1, <4>3, Zenon DEF IsVault
    <3> QED BY <3>2, <3>3, <3>4, Zenon DEF Paired
  <2> QED BY <2>1, <2>2, <2>3, <2>4, Zenon
<1>21. Follows(l, m)
  <2> SUFFICES ASSUME NEW k \in Key \ Users
               PROVE  /\ IsWallet(l[k]) => m[k].data = l[k].data
                      /\ l[k].owner = System /\ l[k].lamports > 0 =>
                            m[k].owner = System /\ m[k].lamports >= l[k].lamports
    BY Zenon DEF Follows
  <2>1. CASE k = w \/ k = v
    BY <1>8, <1>18, <2>1 DEF Plain, IsWallet, Zeroed
  <2>2. CASE k # w /\ k # v
    <3>1. m[k] = l[k] /\ l[k].lamports \in Nat
      BY <1>2, <1>17, <2>2, FieldTypes, Zenon
    <3> QED BY <3>1
  <2> QED BY <2>1, <2>2, Zenon
<1>22. StaysClosed(l, m)
  <2> SUFFICES ASSUME NEW b \in Users, IsWallet(l[get_wallet_address(b)]),
                      l[get_vault_address(b)].owner = System
               PROVE  m[get_vault_address(b)].owner = System
    BY Zenon DEF StaysClosed
  <2>1. b # a
    BY <1>18 DEF Plain, IsWallet, Zeroed, w
  <2> QED BY <1>17, <1>19, <2>1, Zenon
<1> QED BY <1>14, <1>15, <1>20, <1>21, <1>22, Zenon DEF Paired, PairLedger, m

(* withdraw of level0: only a vault of the program loses lamports. *)
LEMMA PairWithdraw ==
    ASSUME NEW l \in PairLedger, Paired(l), NEW a \in Users, NEW dest \in Key,
           NEW n \in U64, WithdrawOk(l, a, dest, n)
    PROVE  LET m == WithdrawPost(l, a, dest, n)
           IN  /\ m \in PairLedger
               /\ Paired(m) /\ Follows(l, m) /\ StaysClosed(l, m)
               /\ TotalLamports(m) = TotalLamports(l)
<1> DEFINE v == get_vault_address(a)
           m == MoveLamports(l, v, dest, n)
<1>1. v \in Key /\ l \in [Key -> AccountWith(Data)]
  BY Addresses, Zenon DEF PairLedger
<1>2. Verified(Program, l, m, v, dest) /\ n <= l[v].lamports
  BY Zenon DEF WithdrawOk, WithdrawPost
<1>3. /\ m \in [Key -> AccountWith(Data)]
      /\ \A k \in Key : /\ m[k].owner = l[k].owner
                        /\ m[k].space = l[k].space
                        /\ m[k].data = l[k].data
      /\ \A k \in Key \ {v, dest} : m[k] = l[k]
      /\ v # dest => /\ m[v].lamports = WrapSub(l[v].lamports, n)
                     /\ m[dest].lamports = WrapAdd(l[dest].lamports, n)
      /\ v = dest => m[v].lamports = l[v].lamports
  BY <1>1, MoveLamportsFields
<1>4. TotalLamports(m) = TotalLamports(l)
  BY <1>1, <1>2, TotalBalanced, Zenon DEF Verified
<1>5. Balanced(l, m, v, dest)
  BY <1>2, Zenon DEF Verified
<1>6. \A k \in Key \ Users : l[k].owner = System => m[k].lamports >= l[k].lamports
  BY <1>2, ProgramsDiffer, Zenon DEF Verified, VerifiedAccount
<1> HIDE DEF m, v
<1>7. /\ l[v].lamports \in Nat /\ l[dest].lamports \in Nat /\ n \in Nat
      /\ m[dest].lamports \in Nat
  BY <1>1, <1>3, FieldTypes, RentAssumption DEF U64
<1>8. ASSUME v # dest PROVE m[dest].lamports = l[dest].lamports + n
  <2>1. m[v].lamports = l[v].lamports - n
    BY <1>2, <1>3, <1>7, <1>8, Zenon DEF WrapSub
  <2> QED BY <1>5, <1>7, <1>8, <2>1 DEF Balanced
<1>9. ASSUME NEW b \in Users
      PROVE  m[get_wallet_address(b)].lamports >= l[get_wallet_address(b)].lamports
  <2>1. get_wallet_address(b) \in Key /\ get_wallet_address(b) # v
    BY Addresses, Zenon DEF v
  <2>2. l[get_wallet_address(b)].lamports \in Nat
    BY <1>1, <2>1, FieldTypes, Zenon
  <2>3. CASE get_wallet_address(b) = dest
    BY <1>7, <1>8, <2>1, <2>3
  <2>4. CASE get_wallet_address(b) # dest
    BY <1>3, <2>1, <2>2, <2>4
  <2> QED BY <2>3, <2>4, Zenon
<1>10. Paired(m) /\ Follows(l, m) /\ StaysClosed(l, m)
  <2>1. \A k \in Key : /\ m[k].owner = l[k].owner
                       /\ m[k].space = l[k].space
                       /\ m[k].data = l[k].data
    BY <1>3, Zenon
  <2>2. m \in PairLedger
    BY <1>3, Zenon DEF PairLedger
  <2> QED BY <1>6, <1>9, <2>1, <2>2, PairBalances, Zenon
<1> QED BY <1>3, <1>4, <1>10, Zenon DEF m, v, PairLedger, WithdrawPost

(* transfer, and the deposit that is one. *)
LEMMA PairTransfer ==
    ASSUME NEW l \in PairLedger, Paired(l), NEW u \in Users, NEW k \in Key,
           NEW n \in U64, TransferOk(l, u, k, n)
    PROVE  LET m == Transferred(l, u, k, n)
           IN  /\ m \in PairLedger
               /\ Paired(m) /\ Follows(l, m) /\ StaysClosed(l, m)
               /\ TotalLamports(m) = TotalLamports(l)
<1> DEFINE m == Transferred(l, u, k, n)
<1>1. l \in [Key -> AccountWith(Data)] /\ u \in Key
  BY Addresses, Zenon DEF PairLedger
<1>2. /\ m \in [Key -> AccountWith(Data)]
      /\ \A j \in Key : /\ m[j].owner = l[j].owner
                        /\ m[j].space = l[j].space
                        /\ m[j].data = l[j].data
      /\ \A j \in Key \ {u} : m[j].lamports >= l[j].lamports
  BY <1>1, TransferFollows, Zenon
<1>3. TotalLamports(m) = TotalLamports(l)
  BY <1>1, TotalTransferred, Zenon
<1> HIDE DEF m
<1>4. /\ \A j \in Key \ Users : l[j].owner = System => m[j].lamports >= l[j].lamports
      /\ \A a \in Users : m[get_wallet_address(a)].lamports
                              >= l[get_wallet_address(a)].lamports
  BY <1>2, Addresses, Zenon
<1>5. \A j \in Key : /\ m[j].owner = l[j].owner
                     /\ m[j].space = l[j].space
                     /\ m[j].data = l[j].data
  BY <1>2, Zenon
<1>6. m \in PairLedger
  BY <1>2, Zenon DEF PairLedger
<1>7. Paired(m) /\ Follows(l, m) /\ StaysClosed(l, m)
  BY <1>4, <1>5, <1>6, PairBalances, Zenon
<1> QED BY <1>3, <1>6, <1>7, Zenon DEF m

(* The accounts as loaded for a transaction of level0. *)
LEMMA PairLoaded ==
    ASSUME PairInv, NEW p \in Payers, FeePayerOk(p)
    PROVE  /\ Loaded(p) \in PairLedger
           /\ Paired(Loaded(p)) /\ Follows(accounts, Loaded(p))
           /\ StaysClosed(accounts, Loaded(p))
           /\ \A k \in Key : ~RentPaying(Loaded(p)[k])
<1> DEFINE m == Loaded(p)
<1>1. /\ accounts \in [Key -> AccountWith(Data)] /\ p \in Users /\ p \in Key
      /\ BankInv(Data) /\ Paired(accounts)
  BY BankAssumption, Zenon DEF PairInv, BankInv, BankTypeOK
<1>2. /\ m \in [Key -> AccountWith(Data)]
      /\ m[p] = [accounts[p] EXCEPT !.lamports = @ - Fee]
      /\ \A k \in Key \ {p} : m[k] = accounts[k]
      /\ \A k \in Key : ~RentPaying(m[k])
  BY <1>1, LoadedFields, Zenon
<1> HIDE DEF m
<1>3. /\ m[p].owner = accounts[p].owner /\ m[p].space = accounts[p].space
      /\ m[p].data = accounts[p].data
  BY <1>1, <1>2 DEF AccountWith
<1>4. \A k \in Key : /\ m[k].owner = accounts[k].owner
                     /\ m[k].space = accounts[k].space
                     /\ m[k].data = accounts[k].data
  BY <1>2, <1>3, Zenon
<1>5. \A k \in Key \ Users : m[k].lamports >= accounts[k].lamports
  <2> SUFFICES ASSUME NEW k \in Key \ Users PROVE m[k].lamports >= accounts[k].lamports
    BY Zenon
  <2>1. m[k] = accounts[k] /\ accounts[k].lamports \in Nat
    BY <1>1, <1>2, FieldTypes, Zenon
  <2> QED BY <2>1
<1>6. /\ \A k \in Key \ Users : accounts[k].owner = System =>
             m[k].lamports >= accounts[k].lamports
      /\ \A a \in Users : m[get_wallet_address(a)].lamports
                              >= accounts[get_wallet_address(a)].lamports
  BY <1>5, Addresses, Zenon
<1>7. Paired(m) /\ Follows(accounts, m) /\ StaysClosed(accounts, m)
  BY <1>1, <1>2, <1>4, <1>6, PairBalances, Zenon DEF PairLedger
<1> QED BY <1>2, <1>7, Zenon DEF m, PairLedger

(* An instruction that keeps the pairs and follows the loaded accounts. *)
LEMMA PairInstruction ==
    ASSUME PairInv, NEW post \in PairLedger, Paired(post),
           Follows(work, post), StaysClosed(work, post), Instruction(post)
    PROVE  PairInv' /\ PairKept
<1>1. /\ accounts' = accounts /\ work' = post
      /\ accounts \in [Key -> AccountWith(Data)] /\ work \in [Key -> AccountWith(Data)]
      /\ post \in [Key -> AccountWith(Data)]
      /\ BankInv(Data)
  BY Zenon DEF Instruction, PairInv, BankInv, BankTypeOK, PairLedger
<1>2. BankInv(Data)'
  BY <1>1, BankInvInstruction, Zenon
<1>3. Follows(accounts, post) /\ StaysClosed(accounts, post)
  BY <1>1, FollowsTransitive, ClosedTransitive, Zenon DEF PairInv
<1>4. PairInv'
  BY <1>1, <1>2, <1>3, Zenon
     DEF PairInv, Paired, IsFirstWallet, IsVault, Follows, StaysClosed
<1>5. PairKept
  BY <1>1, FieldTypes DEF PairKept, AddressesKept, ClosedVaultStays
<1> QED BY <1>4, <1>5, Zenon

(* The end of a transaction: l is stored. *)
LEMMA PairEnd ==
    ASSUME PairInv, NEW l \in PairLedger, Paired(l), \A k \in Key : ~RentPaying(l[k]),
           Follows(accounts, l), StaysClosed(accounts, l), End(l)
    PROVE  PairInv' /\ PairKept
<1> DEFINE m == Purged(l)
<1>1. /\ accounts' = m /\ work' = m
      /\ l \in [Key -> AccountWith(Data)] /\ Zeroed \in Data
      /\ accounts \in [Key -> AccountWith(Data)]
      /\ BankInv(Data)
  BY Zenon DEF End, PairInv, BankInv, BankTypeOK, PairLedger, Data
<1>2. BankInv(Data)'
  BY <1>1, EndKeepsBankInv, Zenon
<1>3. m \in PairLedger /\ Paired(m) /\ Follows(l, m) /\ StaysClosed(l, m)
  BY PairStored, Zenon
<1> HIDE DEF m
<1>4. m \in [Key -> AccountWith(Data)]
  BY <1>3, Zenon DEF PairLedger
<1>5. Follows(m, m) /\ StaysClosed(m, m)
  BY <1>4, FollowsReflexive, Zenon DEF StaysClosed
<1>6. Follows(accounts, m) /\ StaysClosed(accounts, m)
  BY <1>1, <1>3, <1>4, FollowsTransitive, ClosedTransitive, Zenon
<1>7. PairInv'
  BY <1>1, <1>2, <1>3, <1>5, Zenon
     DEF PairInv, Paired, IsFirstWallet, IsVault, Follows, StaysClosed
<1>8. PairKept
  BY <1>1, <1>6, Zenon DEF PairKept, AddressesKept, ClosedVaultStays, Follows, StaysClosed
<1> QED BY <1>7, <1>8, Zenon

(* The invariant of level0 holds of the genesis accounts. *)
LEMMA PairInit == Init => PairInv /\ Accounted
<1> SUFFICES ASSUME BankInit PROVE PairInv /\ Accounted
  BY Zenon DEF Init
<1>1. accounts = Genesis /\ work = Genesis /\ Zeroed \in Data
  BY Zenon DEF BankInit, Data
<1>2. BankInv(Data)
  BY <1>1, BankInvInit, Zenon
<1>3. Paired(Genesis)
  BY GenesisAssumption, Zenon DEF Plain, Paired
<1>4. Genesis \in [Key -> AccountWith(Data)]
  BY <1>1, <1>2, Zenon DEF BankInv, BankTypeOK
<1>5. Follows(Genesis, Genesis) /\ StaysClosed(Genesis, Genesis)
  BY <1>4, FollowsReflexive, Zenon DEF StaysClosed
<1> QED BY <1>1, <1>2, <1>3, <1>5, AccountedInit, Zenon DEF PairInv

(* Every step of level0 keeps the invariant and the lamports, and treats   *)
(* the stored program addresses as their life allows.                      *)
LEMMA PairNext ==
    PairInv /\ Accounted /\ [Next]_bankVars => PairInv' /\ PairKept /\ Accounted'
<1> SUFFICES ASSUME PairInv, Accounted, [Next]_bankVars
             PROVE  PairInv' /\ PairKept /\ Accounted'
  BY Zenon
<1>1. /\ BankInv(Data) /\ Zeroed \in Data
      /\ accounts \in [Key -> AccountWith(Data)]
      /\ work \in PairLedger /\ Paired(work)
      /\ Follows(accounts, work) /\ StaysClosed(accounts, work)
  BY Zenon DEF PairInv, BankInv, BankTypeOK, PairLedger, Data
<1>2. ASSUME NEW p \in Payers, Begin(p)
      PROVE  PairInv' /\ PairKept /\ Accounted'
  <2>1. accounts' = accounts /\ work' = Loaded(p) /\ FeePayerOk(p)
    BY <1>2, Zenon DEF Begin
  <2>2. /\ Paired(Loaded(p)) /\ Follows(accounts, Loaded(p))
        /\ StaysClosed(accounts, Loaded(p))
    BY <2>1, PairLoaded, Zenon
  <2>3. BankInv(Data)' /\ Accounted'
    BY <1>1, <1>2, BankInvBegin, AccountedBegin, Zenon
  <2>4. PairInv'
    BY <2>1, <2>2, <2>3, Zenon
       DEF PairInv, Paired, IsFirstWallet, IsVault, Follows, StaysClosed
  <2>5. PairKept
    BY <1>1, <2>1, FieldTypes DEF PairKept, AddressesKept, ClosedVaultStays
  <2> QED BY <2>3, <2>4, <2>5, Zenon
<1>3. ASSUME NEW post \in PairLedger, Paired(post), Follows(work, post),
             StaysClosed(work, post), TotalLamports(post) = TotalLamports(work),
             Instruction(post)
      PROVE  PairInv' /\ PairKept /\ Accounted'
  BY <1>3, PairInstruction, AccountedInstruction, Zenon
<1>4. ASSUME NEW a \in Users, Initialize(a)
      PROVE  PairInv' /\ PairKept /\ Accounted'
  <2>1. InitializeOk(work, a) /\ Instruction(InitializePost(work, a))
    BY <1>4, Zenon DEF Initialize
  <2> QED BY <1>1, <1>3, <2>1, PairMade, Zenon
<1>5. ASSUME NEW u \in Users, NEW k \in Key, NEW n \in Amounts,
             TransferOk(work, u, k, n), Instruction(Transferred(work, u, k, n))
      PROVE  PairInv' /\ PairKept /\ Accounted'
  <2>1. n \in U64
    BY Addresses, Zenon
  <2> QED BY <1>1, <1>3, <1>5, <2>1, PairTransfer, Zenon
<1>6. ASSUME NEW a \in Users, NEW u \in Users, NEW n \in Amounts, Deposit(a, u, n)
      PROVE  PairInv' /\ PairKept /\ Accounted'
  <2>1. /\ TransferOk(work, u, get_vault_address(a), n)
        /\ Instruction(Transferred(work, u, get_vault_address(a), n))
        /\ get_vault_address(a) \in Key
    BY <1>6, Addresses, Zenon DEF Deposit
  <2> QED BY <1>5, <2>1, Zenon
<1>7. ASSUME NEW a \in Users, NEW k \in Key, NEW n \in Amounts, Withdraw(a, k, n)
      PROVE  PairInv' /\ PairKept /\ Accounted'
  <2>1. /\ WithdrawOk(work, a, k, n) /\ Instruction(WithdrawPost(work, a, k, n))
        /\ n \in U64
    BY <1>7, Addresses, Zenon DEF Withdraw
  <2> QED BY <1>1, <1>3, <2>1, PairWithdraw, Zenon
<1>8. ASSUME NEW u \in Users, NEW k \in Key, NEW n \in Amounts, SystemTransfer(u, k, n)
      PROVE  PairInv' /\ PairKept /\ Accounted'
  BY <1>5, <1>8, Zenon DEF SystemTransfer
<1>9. ASSUME Commit
      PROVE  PairInv' /\ PairKept /\ Accounted'
  <2>1. payer \in Payers /\ FeePayerOk(payer) /\ End(work) /\ RentStatesOk(Loaded(payer), work)
    BY <1>1, <1>9, Zenon DEF Commit, BankInv, BankTypeOK, OpenPayerOk
  <2>2. \A k \in Key : ~RentPaying(work[k])
    BY <2>1, PairLoaded, Zenon DEF RentStatesOk, TransitionAllowed
  <2>3. Accounted'
    BY <1>1, <1>9, AccountedCommit, Zenon
  <2> QED BY <1>1, <2>1, <2>2, <2>3, PairEnd, Zenon
<1>10. ASSUME Fail
       PROVE  PairInv' /\ PairKept /\ Accounted'
  <2>1. payer \in Payers /\ FeePayerOk(payer) /\ End(Loaded(payer))
    BY <1>1, <1>10, Zenon DEF Fail, BankInv, BankTypeOK, OpenPayerOk
  <2>2. /\ Loaded(payer) \in PairLedger /\ Paired(Loaded(payer))
        /\ Follows(accounts, Loaded(payer)) /\ StaysClosed(accounts, Loaded(payer))
        /\ \A k \in Key : ~RentPaying(Loaded(payer)[k])
    BY <2>1, PairLoaded, Zenon
  <2>3. Accounted'
    BY <1>1, <1>10, AccountedFail, Zenon
  <2> QED BY <2>1, <2>2, <2>3, PairEnd, Zenon
<1>11. ASSUME UNCHANGED bankVars
       PROVE  PairInv' /\ PairKept /\ Accounted'
  <2>1. accounts' = accounts /\ work' = work
    BY <1>11, Zenon DEF bankVars
  <2>2. BankInv(Data)' /\ Accounted'
    BY <1>1, <1>11, BankInvStutter, AccountedStutter, Zenon
  <2>3. PairInv'
    BY <2>1, <2>2, Zenon DEF PairInv, Paired, IsFirstWallet, IsVault, Follows, StaysClosed
  <2>4. PairKept
    BY <1>1, <2>1, FieldTypes DEF PairKept, AddressesKept, ClosedVaultStays
  <2> QED BY <2>2, <2>3, <2>4, Zenon
<1> QED BY <1>2, <1>4, <1>6, <1>7, <1>8, <1>9, <1>10, <1>11, Zenon DEF Next

(* The invariant of level0, and what a step may do to its addresses. *)
LEMMA PairInvariance ==
    Spec => [](PairInv /\ Accounted) /\ [][PairKept]_bankVars
BY PairInit, PairNext, PTL DEF Spec

(* What the invariant says of the stored wallets and vaults of level0.     *)
LEMMA Level0Stored == PairInv => VaultStructure
BY PairShape, Zenon DEF PairInv, VaultStructure, Plain

(* initialize of level0 is never half done: a program address is stored    *)
(* plain or as initialize makes it, the wallet names its authority and     *)
(* vault, and a vault of the program has its wallet.                       *)
THEOREM Level0Structure == Spec => []VaultStructure
BY Level0Stored, PairInvariance, PTL

(* A stored wallet of level0 is never lost, and a funded address that the  *)
(* program does not own keeps its lamports.                                *)
THEOREM Level0Lifecycle == Spec => [][AddressesKept]_bankVars
<1>1. PairKept => AddressesKept
  BY Zenon DEF PairKept
<1> QED BY <1>1, PairInvariance, PTL

(* An emptied vault of level0 never becomes an account of the program      *)
(* again.                                                                  *)
THEOREM Level0VaultStaysClosed == Spec => [][ClosedVaultStays]_bankVars
<1>1. PairKept => ClosedVaultStays
  BY Zenon DEF PairKept
<1> QED BY <1>1, PairInvariance, PTL

(* No instruction of level0 makes or loses lamports. *)
THEOREM Level0Conserves == Spec => []Conservation
<1>1. Accounted => Conservation
  BY Zenon DEF Accounted
<1> QED BY <1>1, PairInvariance, PTL

(* A withdrawal of level0 that empties the vault or leaves it rent-exempt  *)
(* passes.                                                                 *)
LEMMA Level0Passes ==
    ASSUME PairInv, Conservation, NEW a \in Users, NEW n \in U64,
           accounts[get_vault_address(a)].owner = Program, accounts[a].lamports > 0,
           \/ n = accounts[get_vault_address(a)].lamports
           \/ n + MinimumBalance(0) <= accounts[get_vault_address(a)].lamports
    PROVE  /\ WithdrawOk(accounts, a, a, n)
           /\ RentStatesOk(accounts, WithdrawPost(accounts, a, a, n))
<1> DEFINE w == get_wallet_address(a)
           v == get_vault_address(a)
           m == MoveLamports(accounts, v, a, n)
<1>1. /\ BankTypeOK(Data) /\ accounts \in [Key -> AccountWith(Data)]
      /\ RentExempt /\ Paired(accounts)
  BY Zenon DEF PairInv, BankInv, BankTypeOK
<1>2. v \in Key /\ a \in Key /\ a # v
  BY Addresses, Zenon
<1>3. accounts[w].data = Wallet(a, v) /\ accounts[v].space = 0
  BY <1>1, PairShape, ProgramsDiffer, Zenon DEF Plain
<1>4. /\ accounts[v].lamports \in Nat /\ accounts[a].lamports \in Nat
      /\ n \in Nat /\ MinimumBalance(0) \in Nat
  BY <1>1, <1>2, FieldTypes, MinimumBalanceType, RentAssumption DEF U64
<1>5. n <= accounts[v].lamports
  BY <1>4
<1>6. /\ Verified(Program, accounts, m, v, a)
      /\ m[v].lamports = accounts[v].lamports - n
      /\ m[a].lamports = accounts[a].lamports + n
      /\ \A k \in Key \ {v, a} : m[k] = accounts[k]
      /\ \A k \in Key : m[k].space = accounts[k].space
  BY <1>1, <1>2, <1>5, ProgramPays, Zenon
<1>7. WithdrawOk(accounts, a, a, n)
  BY <1>3, <1>5, <1>6 DEF WithdrawOk, WithdrawPost, IsWallet, Wallet
<1> HIDE DEF m
<1>8. ASSUME NEW k \in Key
      PROVE  TransitionAllowed(accounts[k], m[k])
  <2>1. CASE k = v
    <3>1. m[v].lamports = 0 \/ m[v].lamports >= MinimumBalance(0)
      BY <1>4, <1>6
    <3> QED BY <1>2, <1>3, <1>6, <2>1, <3>1 DEF TransitionAllowed, RentPaying, IsExempt
  <2>2. CASE k = a
    <3>1. ~RentPaying(accounts[a]) /\ m[a].space = accounts[a].space
      BY <1>1, <1>2, <1>6, Zenon DEF RentExempt
    <3>2. accounts[a].lamports >= MinimumBalance(accounts[a].space)
      BY <3>1, Zenon DEF RentPaying, IsExempt
    <3>3. MinimumBalance(accounts[a].space) \in Nat
      BY <1>1, <1>2, FieldTypes, MinimumBalanceType, Zenon
    <3>4. m[a].lamports >= MinimumBalance(accounts[a].space)
      BY <1>4, <1>6, <3>2, <3>3
    <3> QED BY <2>2, <3>1, <3>4, Zenon DEF TransitionAllowed, RentPaying, IsExempt
  <2>3. CASE k # v /\ k # a
    BY <1>1, <1>6, <2>3, Zenon DEF TransitionAllowed, RentExempt
  <2> QED BY <2>1, <2>2, <2>3, Zenon
<1> QED BY <1>7, <1>8, Zenon DEF RentStatesOk, WithdrawPost, m

(* Such a withdrawal passes for each amount of the property.               *)
LEMMA Level0Serves == PairInv /\ Conservation => VaultWithdrawable
<1> SUFFICES ASSUME PairInv, Conservation, NEW a \in Users,
                    accounts[get_vault_address(a)].owner = Program,
                    accounts[a].lamports > 0,
                    NEW n \in Amounts \cup {accounts[get_vault_address(a)].lamports},
                    \/ n = accounts[get_vault_address(a)].lamports
                    \/ n + MinimumBalance(0) <= accounts[get_vault_address(a)].lamports
             PROVE  /\ WithdrawOk(accounts, a, a, n)
                    /\ RentStatesOk(accounts, WithdrawPost(accounts, a, a, n))
  BY Zenon DEF VaultWithdrawable
<1>1. n \in U64
  BY Addresses, FieldTypes DEF PairInv, BankInv, BankTypeOK
<1> QED BY <1>1, Level0Passes, Zenon

(* From a vault of level0 the authority can withdraw, to its own funded    *)
(* account, everything or any amount that leaves the vault rent-exempt.    *)
THEOREM Level0Withdrawable == Spec => []VaultWithdrawable
BY Level0Serves, PairInvariance, Level0Conserves, PTL

-----------------------------------------------------------------------------
(* Whichever of the three is deployed *)

WalletsInv ==
    /\ contract \in {"level0", "level1", "level2"}
    /\ contract = "level0" => PairInv
    /\ contract # "level0" => SavingsInv
    /\ Accounted

(* What a step may do to wallets. *)
WalletsKept ==
    /\ contract = "level0" => PairKept
    /\ contract # "level0" => SavingsKept
    /\ contract = "level2" /\ steps' > steps => L2!TakenAboveMinimum

(* Each program starts in its invariant. *)
LEMMA WalletsInvInit == WalletsInit => WalletsInv
<1> SUFFICES ASSUME WalletsInit PROVE WalletsInv
  BY Zenon
<1>1. CASE contract = "level0" /\ Init
  BY <1>1, PairInit, Zenon DEF WalletsInv
<1>2. CASE contract = "level1" /\ L1!Init
  <2>1. SavingsInv /\ Accounted /\ contract # "level0"
    BY <1>2, Level1Step, SavingsInit, AccountedInit, Zenon
  <2> QED BY <1>2, <2>1, Zenon DEF WalletsInv
<1>3. CASE contract = "level2" /\ L2!Init
  <2>1. SavingsInv /\ Accounted /\ contract # "level0"
    BY <1>3, Level2Step, SavingsInit, AccountedInit, Zenon
  <2> QED BY <1>3, <2>1, Zenon DEF WalletsInv
<1> QED BY <1>1, <1>2, <1>3, Zenon DEF WalletsInit

(* A step is one of the deployed program, or none. *)
LEMMA WalletsStep ==
    ASSUME [WalletsNext]_walletVars
    PROVE  /\ contract' = contract
           /\ contract = "level0" => [Next]_bankVars
           /\ contract = "level1" => [L1!Next]_(L1!bankVars)
           /\ contract = "level2" => [L2!Next]_(L2!bankVars)
<1>1. CASE UNCHANGED walletVars
  BY <1>1, Zenon DEF walletVars, bankVars, L1!bankVars, L2!bankVars
<1>2. CASE WalletsNext
  <2>1. "level0" # "level1" /\ "level0" # "level2" /\ "level1" # "level2"
    OBVIOUS
  <2> QED BY <1>2, <2>1, Zenon DEF WalletsNext
<1> QED BY <1>1, <1>2, Zenon

(* Every step of the deployed program keeps its invariant. *)
LEMMA WalletsInvStep ==
    WalletsInv /\ [WalletsNext]_walletVars => WalletsInv' /\ WalletsKept
<1> SUFFICES ASSUME WalletsInv, [WalletsNext]_walletVars
             PROVE  WalletsInv' /\ WalletsKept
  BY Zenon
<1>1. "level0" # "level1" /\ "level0" # "level2" /\ "level1" # "level2"
  OBVIOUS
<1>2. CASE contract = "level0"
  <2>1. PairInv' /\ PairKept /\ Accounted'
    BY <1>2, WalletsStep, PairNext, Zenon DEF WalletsInv
  <2> QED BY <1>1, <1>2, <2>1, WalletsStep, Zenon DEF WalletsInv, WalletsKept
<1>3. CASE contract = "level1"
  <2>1. SavingsInv' /\ SavingsKept /\ Accounted'
    BY <1>1, <1>3, WalletsStep, Level1Step, SavingsStep, Zenon DEF WalletsInv
  <2> QED BY <1>1, <1>3, <2>1, WalletsStep, Zenon DEF WalletsInv, WalletsKept
<1>4. CASE contract = "level2"
  <2>1. SavingsInv' /\ SavingsKept /\ Accounted' /\ (steps' > steps => L2!TakenAboveMinimum)
    BY <1>1, <1>4, WalletsStep, Level2Step, SavingsStep, Level2Takes, Zenon DEF WalletsInv
  <2> QED BY <1>1, <1>4, <2>1, WalletsStep, Zenon DEF WalletsInv, WalletsKept
<1> QED BY <1>2, <1>3, <1>4, Zenon DEF WalletsInv

(* The invariant of the wallets. *)
LEMMA WalletsInvariance ==
    WalletsSpec => []WalletsInv /\ [][WalletsKept]_walletVars
BY WalletsInvInit, WalletsInvStep, PTL DEF WalletsSpec

(* A program address is stored as a plain account or as all that           *)
(* initialize makes of it, whichever program is deployed, however          *)
(* initialize, deposit and withdraw are mixed in transactions that may     *)
(* fail, and for all amounts.                                              *)
THEOREM WalletsStructured == WalletsSpec => []WalletStructure
<1>1. WalletsInv => WalletStructure
  <2> SUFFICES ASSUME WalletsInv PROVE WalletStructure
    BY Zenon
  <2>1. contract = "level0" => VaultStructure
    BY Level0Stored, Zenon DEF WalletsInv
  <2>2. contract # "level0" => L1!WalletStructure /\ L2!WalletStructure
    BY Level1Stored, Level2Stored, Zenon DEF WalletsInv
  <2>3. contract \in {"level0", "level1", "level2"}
    BY Zenon DEF WalletsInv
  <2> QED BY <2>1, <2>2, <2>3, Zenon DEF WalletStructure
<1> QED BY <1>1, WalletsInvariance, PTL

(* No instruction of the three programs makes or loses lamports.           *)
THEOREM WalletsConserve == WalletsSpec => []Conservation
<1>1. WalletsInv => Conservation
  BY Zenon DEF WalletsInv, Accounted
<1> QED BY <1>1, WalletsInvariance, PTL

(* No withdrawal that the rules allow is impossible: the withdraw of       *)
(* level0 and of level2, the check of the runtime after it and the         *)
(* rent-state check let the authority have everything that need not stay.  *)
THEOREM WalletsWithdrawable == WalletsSpec => []Withdrawable
<1>1. WalletsInv => Withdrawable
  <2> SUFFICES ASSUME WalletsInv PROVE Withdrawable
    BY Zenon
  <2>1. contract = "level0" => VaultWithdrawable
    BY Level0Serves, Zenon DEF WalletsInv, Accounted
  <2>2. contract # "level0" => L2!Withdrawable
    BY Level2Serves, Zenon DEF WalletsInv
  <2>3. "level2" # "level0"
    OBVIOUS
  <2> QED BY <2>1, <2>2, <2>3, Zenon DEF Withdrawable
<1> QED BY <1>1, WalletsInvariance, PTL

(* For every u64 amount, an instruction of level2 takes from a wallet what *)
(* is above its minimum, or else what another wallet receives.             *)
THEOREM WalletsKeepMinimum == WalletsSpec => MinimumKept
<1>1. WalletsKept => (contract = "level2" /\ steps' > steps => L2!TakenAboveMinimum)
  BY Zenon DEF WalletsKept
<1> QED BY <1>1, WalletsInvariance, PTL DEF MinimumKept

(* The life of a program address: a stored wallet stays its authority's or *)
(* (level1, level2) closes with nothing left, and a funded address that    *)
(* the program does not own keeps its lamports.                            *)
THEOREM WalletsLifecycle == WalletsSpec => AddressLifecycle
<1> DEFINE Lives == CASE contract = "level0" -> AddressesKept
                      [] contract = "level1" -> L1!AddressesKept
                      [] contract = "level2" -> L2!AddressesKept
<1>1. ASSUME WalletsInv, WalletsKept
      PROVE  Lives
  <2>1. contract = "level0" => AddressesKept
    BY <1>1, Zenon DEF WalletsKept, PairKept
  <2>2. contract # "level0" => L1!AddressesKept /\ L2!AddressesKept
    BY <1>1, Level1Keeps, Level2Keeps, Zenon DEF WalletsKept
  <2>3. contract \in {"level0", "level1", "level2"}
    BY <1>1, Zenon DEF WalletsInv
  <2> QED BY <2>1, <2>2, <2>3, Zenon
<1>2. WalletsInv /\ [WalletsKept]_walletVars => [Lives]_walletVars
  BY <1>1, Zenon
<1> HIDE DEF Lives
<1>3. WalletsSpec => [][Lives]_walletVars
  BY <1>2, WalletsInvariance, PTL
<1> QED BY <1>3, Zenon DEF AddressLifecycle, Lives

(* An emptied vault of level0 never becomes an account of the program      *)
(* again.                                                                  *)
THEOREM WalletsVaultClosed == WalletsSpec => EmptiedVaultIsClosed
<1>1. WalletsKept => (contract = "level0" => ClosedVaultStays)
  BY Zenon DEF WalletsKept, PairKept
<1> QED BY <1>1, WalletsInvariance, PTL DEF EmptiedVaultIsClosed

=============================================================================
