------------------------------- MODULE Level2 -------------------------------
(***************************************************************************)
(* The wallet of contracts/level2.  withdraw leaves the rent-exempt        *)
(* minimum in the wallet, unless the u64 sum `min_balance + amount` of its *)
(* test wraps.  The wrapped amount then passes the runtime's checks only   *)
(* if the destination is another wallet of the program, because it is a    *)
(* debit of the destination.                                               *)
(***************************************************************************)
EXTENDS WalletProgram

Initialize(a) ==
    /\ InitializeOk(work, a)
    /\ Instruction(InitializePost(work, a))

Deposit(a, source, n) ==
    /\ DepositOk(work, a, source, n)
    /\ Instruction(DepositPost(work, a, source, n))

WithdrawOk_Strict(l, a, dest, n) ==
    LET wallet == l[get_wallet_address(a)]
    IN  /\ IsWallet(wallet)
        /\ WrapAdd(MinimumBalance(WALLET_LEN), n) < wallet.lamports
        /\ Verified(Program, l, WithdrawPost(l, a, dest, n),
                    get_wallet_address(a), dest)

WithdrawOk_NoMinimum(l, a, dest, n) ==
    LET wallet == l[get_wallet_address(a)]
    IN  /\ IsWallet(wallet)
        /\ n <= wallet.lamports
        /\ Verified(Program, l, WithdrawPost(l, a, dest, n),
                    get_wallet_address(a), dest)

WithdrawOk(l, a, dest, n) ==
    LET wallet == l[get_wallet_address(a)]
    IN  /\ IsWallet(wallet)
        /\ wallet.owner = Program
        /\ wallet.data.authority = a
        /\ WrapAdd(MinimumBalance(WALLET_LEN), n) <= wallet.lamports
        /\ Verified(Program, l, WithdrawPost(l, a, dest, n),
                    get_wallet_address(a), dest)

Withdraw(a, dest, n) ==
    /\ WithdrawOk(work, a, dest, n)
    /\ Instruction(WithdrawPost(work, a, dest, n))

Init == BankInit

Next ==
    \/ \E u \in Payers : Begin(u)
    \/ /\ Running
       /\ \/ \E a \in Users : Initialize(a)
          \/ \E a, u \in Users, n \in Amounts : Deposit(a, u, n)
          \/ \E a \in Users, k \in Key, n \in Amounts : Withdraw(a, k, n)
          \/ \E u \in Users, k \in Key, n \in Amounts : SystemTransfer(u, k, n)
    \/ Commit
    \/ Fail

Spec == Init /\ [][Next]_bankVars

-----------------------------------------------------------------------------
(* What an instruction may take from a wallet: what is above the minimum,  *)
(* or else what another wallet of the program receives.                    *)
TakenAboveMinimum ==
    \A k \in Wallets : IsWallet(work[k]) /\ work'[k].lamports < work[k].lamports =>
        \/ work'[k].lamports >= MinimumBalance(WALLET_LEN)
        \/ \E j \in Wallets \ {k} :
              /\ IsWallet(work[j])
              /\ work'[j].lamports - work[j].lamports = work[k].lamports - work'[k].lamports

(* Minimum kept (withdraw): for every u64 amount, also one with which      *)
(* min_balance + amount wraps, no instruction lets the lamports of the     *)
(* minimum leave the wallets of the program.                               *)
MinimumKept == [][steps' > steps => TakenAboveMinimum]_bankVars

(* Withdraw: everything above the minimum can be withdrawn by the          *)
(* authority to its own funded account, in any amounts.                    *)
Withdrawable ==
    \A a \in Users :
        LET w == accounts[get_wallet_address(a)]
            spare == w.lamports - MinimumBalance(WALLET_LEN)
        IN  IsWallet(w) /\ accounts[a].lamports > 0 =>
            \A n \in {m \in Amounts \cup {spare} : m <= spare} :
                /\ WithdrawOk(accounts, a, a, n)
                /\ RentStatesOk(accounts, WithdrawPost(accounts, a, a, n))

(* The life of a wallet address (initialize, withdraw, purge): a wallet    *)
(* stays or, emptied by a wrapped withdrawal of another wallet, closes.    *)
AddressLifecycle == [][AddressesKept]_bankVars

=============================================================================
