--------------------------- MODULE SavingsWallets ---------------------------
(***************************************************************************)
(* The savings wallets of level0, level1 and level2 on one bank.  Which of *)
(* the three programs is deployed is chosen at the start, so that what     *)
(* they have in common is stated once.  They share the users and the       *)
(* addresses: to level1 and level2, the address of a vault is one more     *)
(* address that lamports can be sent to.                                   *)
(***************************************************************************)
EXTENDS Level0

CONSTANT WalletAmounts   \* Amounts of level1 and level2 (bound)

VARIABLE contract   \* the deployed program

walletVars == <<bankVars, contract>>

L1 == INSTANCE Level1 WITH Amounts <- WalletAmounts
L2 == INSTANCE Level2 WITH Amounts <- WalletAmounts

ASSUME WalletAssumption == WalletAmounts \subseteq U64

(* The capitalization of a cluster is far below 2^64. *)
ASSUME SupplyAssumption ==
    TotalLamports(Genesis) + MinimumBalance(L2!WALLET_LEN) <= U64Max

WalletsInit ==
    \/ contract = "level0" /\ Init
    \/ contract = "level1" /\ L1!Init
    \/ contract = "level2" /\ L2!Init

WalletsNext ==
    /\ \/ contract = "level0" /\ Next
       \/ contract = "level1" /\ L1!Next
       \/ contract = "level2" /\ L2!Next
    /\ UNCHANGED contract

WalletsSpec == WalletsInit /\ [][WalletsNext]_walletVars

-----------------------------------------------------------------------------
(* Structure (initialize, withdraw, purge): what is stored at a program    *)
(* address is a plain system account or all that initialize makes of it,   *)
(* after every sequence of instructions and failures.                      *)
WalletStructure ==
    CASE contract = "level0" -> VaultStructure
      [] contract = "level1" -> L1!WalletStructure
      [] contract = "level2" -> L2!WalletStructure

(* The life of a program address (initialize, withdraw, purge).  A stored  *)
(* wallet stays the wallet of its authority or, in level1 and level2,      *)
(* closes with nothing left at its address.  An address that holds         *)
(* lamports as a system account (funded before initialize, or an emptied   *)
(* vault that was deposited into) stays as it is and keeps them:           *)
(* initialize fails on it (AccountAlreadyInUse), and no handler debits an  *)
(* account that the program does not own (ExternalAccountLamportSpend).    *)
AddressLifecycle ==
    [][CASE contract = "level0" -> AddressesKept
         [] contract = "level1" -> L1!AddressesKept
         [] contract = "level2" -> L2!AddressesKept]_walletVars

(* An emptied vault does not come back (initialize of level0 and the purge *)
(* of accounts without lamports): ClosedVaultStays of every step.          *)
EmptiedVaultIsClosed == [][contract = "level0" => ClosedVaultStays]_walletVars

(* No withdrawal that the rules allow is impossible (withdraw and the      *)
(* rent-state check): the authority gets everything that need not stay, in *)
(* any amounts.                                                            *)
Withdrawable ==
    /\ contract = "level0" => VaultWithdrawable
    /\ contract = "level2" => L2!Withdrawable

(* Minimum kept (withdraw of level2): for every u64 amount, also one with  *)
(* which min_balance + amount wraps, an instruction takes from a wallet    *)
(* what is above its rent-exempt minimum, or else what another wallet of   *)
(* the program receives.                                                   *)
MinimumKept == [][contract = "level2" /\ steps' > steps => L2!TakenAboveMinimum]_walletVars

=============================================================================
