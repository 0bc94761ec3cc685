--------------------------- MODULE WalletProgram ----------------------------
(***************************************************************************)
(* What the wallets of contracts/level1 and contracts/level2 have in       *)
(* common.  An authority's savings are one account at a program address    *)
(* that holds both the data, which names the authority, and the lamports.  *)
(* initialize and deposit are the same code in the two programs; withdraw  *)
(* is what they differ in and is in the modules Level1 and Level2.         *)
(*                                                                         *)
(* Instructions are built as lib.rs builds them from an authority, so the  *)
(* wallet passed is the authority's, and the authority or the source of a  *)
(* deposit signs.                                                          *)
(***************************************************************************)
EXTENDS Bank

CONSTANT Amounts   \* amounts of deposits, withdrawals and transfers (bound)

(* A program address is written as the seeds it is derived from. *)
get_wallet_address(a) == <<a>>

Wallets == {get_wallet_address(a) : a \in Users}

(* What the constants must satisfy; stated as an ASSUME where they get     *)
(* their values.                                                           *)
WalletConstants ==
    /\ Users \cup Wallets \subseteq Key
    /\ Users \cap Wallets = {}   \* program addresses have no key pair
    /\ Amounts \subseteq U64

WALLET_LEN == 32

Wallet(authority) == [kind |-> "wallet", authority |-> authority]

Data == {Zeroed} \cup [kind : {"wallet"}, authority : Users]

IsWallet(acc) == acc.data.kind = "wallet"

-----------------------------------------------------------------------------
InitializeOk(l, a) ==
    /\ l[get_wallet_address(a)].space = 0
    /\ CreateAccountOk(l, a, get_wallet_address(a), MinimumBalance(WALLET_LEN))

InitializePost(l, a) ==
    SetData(AccountCreated(l, a, get_wallet_address(a),
                           MinimumBalance(WALLET_LEN), WALLET_LEN, Program),
            get_wallet_address(a), Wallet(a))

DepositOk(l, a, source, n) ==
    /\ l[get_wallet_address(a)].owner = Program
    /\ TransferOk(l, source, get_wallet_address(a), n)

DepositPost(l, a, source, n) == Transferred(l, source, get_wallet_address(a), n)

(* The end of withdraw: the lamports move, the wallet is written back. *)
WithdrawPost(l, a, dest, n) == MoveLamports(l, get_wallet_address(a), dest, n)

-----------------------------------------------------------------------------
(* Structure (initialize, purge): a wallet address is stored either as a   *)
(* plain system account or as the complete, funded wallet of its           *)
(* authority, also when it was emptied and used again in one transaction.  *)
WalletStructure ==
    \A a \in Users :
        LET w == accounts[get_wallet_address(a)]
        IN  \/ w.owner = System /\ w.space = 0 /\ w.data = Zeroed
            \/ /\ w.owner = Program /\ w.space = WALLET_LEN
               /\ w.data = Wallet(a) /\ w.lamports >= MinimumBalance(WALLET_LEN)

(* The life of a wallet address (initialize, withdraw, purge): a stored    *)
(* wallet stays the wallet of its authority, or closes with nothing left   *)
(* at its address.  An address that was funded before initialize stays a   *)
(* system account and keeps its lamports.                                  *)
AddressesKept ==
    \A k \in Key \ Users :
        /\ IsWallet(accounts[k]) =>
              \/ accounts'[k].data = accounts[k].data
              \/ accounts'[k] = DefaultAccount
        /\ accounts[k].owner = System /\ accounts[k].lamports > 0 =>
              /\ accounts'[k].owner = System
              /\ accounts'[k].lamports >= accounts[k].lamports

=============================================================================
