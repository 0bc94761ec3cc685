------------------------------- MODULE Level1 -------------------------------
(***************************************************************************)
(* The wallet of contracts/level1.  withdraw may take any part of the      *)
(* balance, the rent-exempt minimum included; the runtime drops a wallet   *)
(* that is emptied, and initialize can then make it again.                 *)
(***************************************************************************)
EXTENDS WalletProgram

Initialize(a) ==
    /\ InitializeOk(work, a)
    /\ Instruction(InitializePost(work, a))

Deposit(a, source, n) ==
    /\ DepositOk(work, a, source, n)
    /\ Instruction(DepositPost(work, a, source, n))

WithdrawOk(l, a, dest, n) ==
    LET wallet == l[get_wallet_address(a)]
    IN  /\ IsWallet(wallet)
        /\ wallet.owner = Program
        /\ wallet.data.authority = a
        /\ n <= wallet.lamports
        /\ Verified(Program, l, WithdrawPost(l, a, dest, n),
                    get_wallet_address(a), dest)

Withdraw(a, dest, n) ==
    /\ WithdrawOk(work, a, dest, n)
    /\ Instruction(WithdrawPost(work, a, dest, n))

Init == BankInit

Next ==
    \/ \E u \in Payers : Begin(u)
    \/ /\ Running
       /\ \/ \E a \in Users : Initialize(a)
          \/ \E a, u \in Users, n \in Amounts : Deposit(a, u, n)
          \/ \E a \in Users, k \in Key, n \in Amounts : Withdraw(a, k, n)
          \/ \E u \in Users, k \in Key, n \in Amounts : SystemTransfer(u, k, n)
    \/ Commit
    \/ Fail

Spec == Init /\ [][Next]_bankVars

-----------------------------------------------------------------------------
(* The life of a wallet address (initialize, withdraw, purge): a wallet    *)
(* may be emptied and then closes; nothing else happens to it.             *)
AddressLifecycle == [][AddressesKept]_bankVars

=============================================================================
