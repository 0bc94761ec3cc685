------------------------------- MODULE Level0 -------------------------------
(***************************************************************************)
(* The savings wallet of contracts/level0.  An authority's savings are two *)
(* accounts at program addresses: the wallet, whose data names the         *)
(* authority and the vault, and the vault, which has no data and holds the *)
(* lamports.  The vault stops being an account of the program when it is   *)
(* emptied, the wallet does not.                                           *)
(*                                                                         *)
(* Instructions are built as lib.rs builds them from an authority, so the  *)
(* wallet and the vault passed are the authority's, and the authority or   *)
(* the source of a deposit signs.                                          *)
(***************************************************************************)
EXTENDS Bank

CONSTANT Amounts   \* amounts of deposits, withdrawals and transfers (bound)

(* A program address is written as the seeds it is derived from. *)
get_wallet_address(a) == <<a>>
get_vault_address(a) == <<a, "VAULT">>

Wallets == {get_wallet_address(a) : a \in Users}
Vaults == {get_vault_address(a) : a \in Users}

ASSUME Level0Assumption ==
    /\ Users \cup Wallets \cup Vaults \subseteq Key
    /\ Users \cap (Wallets \cup Vaults) = {}   \* program addresses have no key pair
    /\ Amounts \subseteq U64

WALLET_LEN == 64

Wallet(authority, vault) ==
    [kind |-> "wallet", authority |-> authority, vault |-> vault]

Data == {Zeroed} \cup [kind : {"wallet"}, authority : Users, vault : Vaults]

IsWallet(acc) == acc.data.kind = "wallet"

-----------------------------------------------------------------------------
(* initialize: both accounts are created, then the wallet is written. *)

WalletCreated(l, a) ==
    AccountCreated(l, a, get_wallet_address(a),
                   MinimumBalance(WALLET_LEN), WALLET_LEN, Program)

InitializeOk_WalletKept(l, a) ==
    /\ \/ IsWallet(l[get_wallet_address(a)])
       \/ CreateAccountOk(l, a, get_wallet_address(a), MinimumBalance(WALLET_LEN))
    /\ l[a].lamports >= MinimumBalance(WALLET_LEN)
    /\ CreateAccountOk(WalletCreated(l, a), a, get_vault_address(a), MinimumBalance(0))

InitializeOk(l, a) ==
    /\ l[get_wallet_address(a)].space = 0
    /\ CreateAccountOk(l, a, get_wallet_address(a), MinimumBalance(WALLET_LEN))
    /\ CreateAccountOk(WalletCreated(l, a), a, get_vault_address(a), MinimumBalance(0))

InitializePost(l, a) ==
    SetData(AccountCreated(WalletCreated(l, a), a, get_vault_address(a),
                           MinimumBalance(0), 0, Program),
            get_wallet_address(a), Wallet(a, get_vault_address(a)))

Initialize(a) ==
    /\ InitializeOk(work, a)
    /\ Instruction(InitializePost(work, a))

(* deposit into the vault of a. *)
Deposit(a, source, n) ==
    LET wallet == work[get_wallet_address(a)]
        vault  == get_vault_address(a)
    IN  /\ IsWallet(wallet)
        /\ wallet.data.vault = vault
        /\ TransferOk(work, source, vault, n)
        /\ Instruction(Transferred(work, source, vault, n))

(* withdraw from the vault of a; the runtime then verifies the accounts. *)
WithdrawPost(l, a, dest, n) == MoveLamports(l, get_vault_address(a), dest, n)

WithdrawOk(l, a, dest, n) ==
    LET wallet == l[get_wallet_address(a)]
        vault  == get_vault_address(a)
    IN  /\ IsWallet(wallet)
        /\ wallet.data.authority = a
        /\ wallet.data.vault = vault
        /\ n <= l[vault].lamports
        /\ Verified(Program, l, WithdrawPost(l, a, dest, n), vault, dest)

Withdraw(a, dest, n) ==
    /\ WithdrawOk(work, a, dest, n)
    /\ Instruction(WithdrawPost(work, a, dest, n))

-----------------------------------------------------------------------------
Init == BankInit

Next ==
    \/ \E u \in Payers : Begin(u)
    \/ /\ Running
       /\ \/ \E a \in Users : Initialize(a)
          \/ \E a, u \in Users, n \in Amounts : Deposit(a, u, n)
          \/ \E a \in Users, k \in Key, n \in Amounts : Withdraw(a, k, n)
          \/ \E u \in Users, k \in Key, n \in Amounts : SystemTransfer(u, k, n)
    \/ Commit
    \/ Fail

Spec == Init /\ [][Next]_bankVars

-----------------------------------------------------------------------------
(* Structure (initialize): a stored program address is either a plain      *)
(* system account or what initialize makes of it.  The wallet of a names a *)
(* and the vault of a, and a vault that belongs to the program always has  *)
(* its wallet: the two creations of initialize are never half done.        *)
VaultStructure ==
    \A a \in Users :
        LET w == accounts[get_wallet_address(a)]
            v == accounts[get_vault_address(a)]
        IN  /\ v.space = 0 /\ v.data = Zeroed
            /\ \/ w.owner = System /\ w.space = 0 /\ w.data = Zeroed
               \/ /\ w.owner = Program /\ w.space = WALLET_LEN
                  /\ w.data = Wallet(a, get_vault_address(a))
            /\ v.owner = Program => w.owner = Program

(* No partial withdrawal is impossible (withdraw and the rent-state        *)
(* check): from a vault of the program the authority can withdraw, to its  *)
(* own funded account, everything, or any amount that leaves the vault     *)
(* rent-exempt.                                                            *)
VaultWithdrawable ==
    \A a \in Users :
        LET v == accounts[get_vault_address(a)]
        IN  v.owner = Program /\ accounts[a].lamports > 0 =>
            \A n \in {m \in Amounts \cup {v.lamports} :
                        m = v.lamports \/ m + MinimumBalance(0) <= v.lamports} :
                /\ WithdrawOk(accounts, a, a, n)
                /\ RentStatesOk(accounts, WithdrawPost(accounts, a, a, n))

(* An emptied vault does not come back (initialize and the purge of        *)
(* accounts without lamports): when the wallet exists and the vault is no  *)
(* longer an account of the program, it never is one again.                *)
ClosedVaultStays ==
    \A a \in Users :
        /\ IsWallet(accounts[get_wallet_address(a)])
        /\ accounts[get_vault_address(a)].owner = System
        => accounts'[get_vault_address(a)].owner = System

(* The life of a program address (initialize, withdraw, purge): a stored   *)
(* wallet is never lost.  An address that holds lamports as a system       *)
(* account (funded before initialize, or an emptied vault that was         *)
(* deposited into) stays as it is and keeps them.                          *)
AddressesKept ==
    \A k \in Key \ Users :
        /\ IsWallet(accounts[k]) => accounts'[k].data = accounts[k].data
        /\ accounts[k].owner = System /\ accounts[k].lamports > 0 =>
              /\ accounts'[k].owner = System
              /\ accounts'[k].lamports >= accounts[k].lamports

=============================================================================
