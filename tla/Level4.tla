------------------------------- MODULE Level4 -------------------------------
(***************************************************************************)
(* The token wallet (contracts/level4).  The savings of an owner are one   *)
(* token account at an address derived from the owner; every such account  *)
(* belongs to one authority, the address the program can sign for.  The    *)
(* wallet program owns no account: it works through the system program and *)
(* the token program, so its actions compose those of SplToken.            *)
(*                                                                         *)
(* The handlers check the wallet's and the authority's address and the     *)
(* owner's signature.  The program they call is an argument like the       *)
(* others: lib.rs passes the token program, the handlers accept another.   *)
(* Everybody may also send the token program any instruction, about        *)
(* wallets included.                                                       *)
(***************************************************************************)
EXTENDS SplToken

CONSTANTS Authority,   \* get_authority
          Entrusted    \* accounts passed as writable to another program that is
                       \*   named in the place of the token program

VARIABLE signers     \* the users who signed the open transaction

get_wallet_address(o) == <<o>>

Wallets == {get_wallet_address(o) : o \in Users}

(* Program addresses have no key pair: nobody allocates them as accounts,  *)
(* mints or multisignature accounts of their own.                          *)
ASSUME Level4Assumption ==
    /\ DerivedAccounts = Wallets
    /\ Wallets \cap (KeyAccounts \cup Mints \cup Multisigs) = {}
    /\ Authority \in Key \ (Users \cup TokenAccounts \cup Mints \cup Multisigs)
    /\ Entrusted \subseteq Key \ {Authority}

-----------------------------------------------------------------------------
(* initialize: create_account, then the token program's initialize_account. *)

AllocateOk(l, o) ==
    CreateAccountOk(l, o, get_wallet_address(o), MinimumBalance(ACCOUNT_LEN))

Allocated(l, o, program) ==
    AccountCreated(l, o, get_wallet_address(o), MinimumBalance(ACCOUNT_LEN),
                   ACCOUNT_LEN, program)

InitializeOk(l, o, m) ==
    /\ AllocateOk(l, o)
    /\ InitializeAccountOk(Allocated(l, o, Program), get_wallet_address(o), m)

InitializePost_OwnedByUser(l, o, m) ==
    InitializeAccountPost(Allocated(l, o, Program), get_wallet_address(o), m, o)

InitializePost(l, o, m) ==
    InitializeAccountPost(Allocated(l, o, Program), get_wallet_address(o), m, Authority)

Initialize(o, m) ==
    /\ o \in signers
    /\ InitializeOk(work, o, m)
    /\ Instruction(InitializePost(work, o, m))

(* transfer_checked, whose mint must be an initialised mint account. *)
TransferCheckedOk(l, from, to, auth, S, m, n) ==
    /\ IsMint(l, m)
    /\ ProcessTransferOk(l, from, to, auth, S, n)
    /\ l[from].data.mint = m

(* deposit: into the wallet of o, by the authority of the source. *)
Deposit(o, source, auth, m, n) ==
    LET w == get_wallet_address(o)
    IN  /\ TransferCheckedOk(work, source, w, auth, signers, m, n)
        /\ TokenInstruction(ProcessTransferPost(work, source, w, auth, n))

(* The owner signs, and the program signs for the authority. *)
WithdrawOk(l, o, dest, m, n) ==
    TransferCheckedOk(l, get_wallet_address(o), dest, Authority, {Authority}, m, n)

Withdraw_AnyWallet(o, dest, m, n) ==
    /\ o \in signers
    /\ \E p \in Users :
          /\ WithdrawOk(work, p, dest, m, n)
          /\ TokenInstruction(ProcessTransferPost(work, get_wallet_address(p), dest,
                                                  Authority, n))

Withdraw(o, dest, m, n) ==
    /\ o \in signers
    /\ WithdrawOk(work, o, dest, m, n)
    /\ TokenInstruction(ProcessTransferPost(work, get_wallet_address(o), dest,
                                            Authority, n))

-----------------------------------------------------------------------------
(* The handlers with another program in the place of the token program.    *)
(* It is handed accounts to write and, by withdraw, the signature of the   *)
(* authority; a deposit hands it the signature of the source's authority,  *)
(* who can as well send what it does (OtherStep).                          *)

Others == Programs \ {System, Program}

(* initialize leaves the wallet's account to that program.  What it writes *)
(* there is its own affair: the token program cannot change the account.   *)
InitializeFor(o, program) ==
    /\ o \in signers
    /\ get_wallet_address(o) \in Entrusted
    /\ AllocateOk(work, o)
    /\ Instruction(Allocated(work, o, program))

(* withdraw lets it call the token program with the authority's signature, *)
(* on the wallet and on the destination, whatever account that is; it can  *)
(* change no other account.  Each call it makes is a step.                 *)
WithdrawThrough(o, dest) ==
    /\ o \in signers
    /\ {get_wallet_address(o), dest} \subseteq Entrusted
    /\ AsAuthority(Authority, {Authority})
    /\ \A k \in Key \ {get_wallet_address(o), dest} : work'[k] = work[k]

Assigned(l, k, program) == [l EXCEPT ![k].owner = program]

(* The owner of an account can take lamports from it and give it away. *)
Dispose(k) ==
    /\ work[k].owner \in Others
    /\ \/ \E to \in (Users \cup TokenAccounts) \ {k}, n \in Funds :
             /\ n <= work[k].lamports /\ work[to].lamports + n <= U64Max
             /\ Instruction(MoveLamports(work, k, to, n))
       \/ \E program \in Programs : Instruction(Assigned(work, k, program))

-----------------------------------------------------------------------------
Level4Init == BankInit /\ signers = {}

WalletStep ==
    \/ \E o \in Users, m \in AccountMints : Initialize(o, m)
    \/ \E o, auth \in Users, source \in TokenAccounts, m \in Mints, n \in Amounts :
            Deposit(o, source, auth, m, n)
    \/ \E o \in Users, dest \in TokenAccounts, m \in Mints, n \in Amounts :
            Withdraw(o, dest, m, n)

(* What the signers send to the system program and the token program. *)
OtherStep ==
    \/ \E u \in signers : Allocate(u) \/ Fund(u)
    \/ Unsigned
    \/ \E auth \in Authorities : AsAuthority(auth, signers)

(* What other programs do with what the wallet program has handed them. *)
EntrustedStep ==
    \/ \E o \in Users, program \in Others : InitializeFor(o, program)
    \/ \E o \in Users, dest \in Entrusted : WithdrawThrough(o, dest)
    \/ \E k \in Wallets : Dispose(k)

Level4Next ==
    \/ \E u \in Payers : Begin(u) /\ signers' \in {{u}, Users}
    \/ Running /\ (WalletStep \/ OtherStep \/ EntrustedStep) /\ UNCHANGED signers
    \/ (Commit \/ Fail) /\ signers' = {}

level4Vars == <<bankVars, signers>>

Level4Spec == Level4Init /\ [][Level4Next]_level4Vars

-----------------------------------------------------------------------------
(* The wallets that are never handed to another program. *)
OwnWallets == Wallets \ Entrusted

InCustody(acc) ==
    /\ acc.data.kind = "account"
    /\ acc.data.owner = Authority
    /\ acc.data.delegate = None
    /\ acc.data.close_authority = None

(* Custody (initialize, and the token program's validate_owner): a wallet  *)
(* that was never handed to another program belongs to the authority,      *)
(* nobody else can spend from it or close it, and it exists for good once  *)
(* a transaction has made it, although others are handed the signature of  *)
(* the same authority for other accounts.                                  *)
WalletsInCustody ==
    [][\A w \in OwnWallets :
        /\ accounts'[w].owner # System => InCustody(accounts'[w])
        /\ accounts[w].owner # System => accounts'[w].owner = Program]_level4Vars

(* Savings (withdraw): no instruction takes tokens out of a wallet that    *)
(* was never handed to another program unless its owner has signed the     *)
(* transaction, whatever the signers send to the wallet program, to        *)
(* another program through it, or straight to the token program.           *)
SavingsLeaveByOwner ==
    [][\A o \in Users : LET w == get_wallet_address(o) IN
        steps' > steps /\ w \in OwnWallets /\ IsAccount(work, w) =>
            \/ o \in signers
            \/ IsAccount(work', w) /\ work'[w].data.amount >= work[w].data.amount]_level4Vars

(* Withdrawable (withdraw, process_transfer): the owner of such a wallet   *)
(* can always take out any amount up to the balance, to any account of the *)
(* mint, unless the mint's freeze authority has frozen one of the two: no  *)
(* sequence of mints, transfers and deposits makes the destination         *)
(* overflow.                                                               *)
Withdrawable ==
    \A o \in Users : LET w == get_wallet_address(o) IN
        /\ w \in OwnWallets
        /\ IsAccount(accounts, w) /\ accounts[w].data.mint \in Mints
        => \A dest \in TokenAccounts, n \in Amounts :
                /\ IsAccount(accounts, dest)
                /\ accounts[dest].data.mint = accounts[w].data.mint
                /\ ~accounts[w].data.frozen /\ ~accounts[dest].data.frozen
                /\ n <= accounts[w].data.amount
                => WithdrawOk(accounts, o, dest, accounts[w].data.mint, n)

=============================================================================
