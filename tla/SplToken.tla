------------------------------ MODULE SplToken ------------------------------
(***************************************************************************)
(* The token program (spl-token 3.3.0, processor.rs) on the accounts of a  *)
(* bank.  Program is the id of the token program: it owns mints, token     *)
(* accounts and multisignature accounts.  An account is allocated by the   *)
(* system program and claimed by one of the initialize instructions, in    *)
(* the same transaction or in a later one.                                 *)
(*                                                                         *)
(* Every instruction is a guard (the handler's early returns) and the      *)
(* ledger it leaves.  S is the set of keys that sign.  The Checked forms   *)
(* of transfer, approve, mint_to and burn differ by one more reason to     *)
(* fail (the decimals) and by nothing they do.                             *)
(***************************************************************************)
EXTENDS Bank, Sequences

CONSTANTS Mints,        \* addresses that clients allocate as mints,
          KeyAccounts,  \*   as token accounts
          Multisigs,    \*   and as multisignature accounts
          SignerLists,  \* signers of new multisignature accounts (bound)
          DerivedAccounts, \* token accounts at addresses of other programs
          Delegates,    \* keys that accounts are delegated to
          Officers,     \* users named as mint, freeze and close authorities (bound)
          AccountMints, \* mints that token accounts are opened for
          NativeMint,   \* mint of wrapped lamports; the program only compares it
          None,         \* COption::None
          Amounts,      \* amounts of token instructions (bound)
          Funds         \* lamports of transfers and of new accounts (bound)

(* Addresses that are used as token accounts. *)
TokenAccounts == KeyAccounts \cup DerivedAccounts

ASSUME TokenAssumption ==
    /\ Mints \cup TokenAccounts \cup Multisigs \subseteq Key \ Users
    /\ Officers \subseteq Users
    /\ NativeMint \notin Key
    /\ AccountMints \subseteq Mints \cup {NativeMint}
    /\ None \notin Key \cup Nat
    /\ Amounts \subseteq U64
    /\ Funds \subseteq U64

MINT_LEN == 82
ACCOUNT_LEN == 165
MULTISIG_LEN == 355
MAX_SIGNERS == 11

MintData(authority, supply, freeze) ==
    [kind |-> "mint", mint_authority |-> authority, supply |-> supply,
     freeze_authority |-> freeze]

(* The last three fields are history: how much was delegated by the last   *)
(* approve and by whom, and how much delegates have drawn since.           *)
TokenData(mint, owner, amount, reserve) ==
    [kind |-> "account", mint |-> mint, owner |-> owner, amount |-> amount,
     delegate |-> None, delegated_amount |-> 0, frozen |-> FALSE,
     is_native |-> reserve, close_authority |-> None,
     approver |-> None, granted |-> 0, drawn |-> 0]

MultisigData(m, signers) == [kind |-> "multisig", m |-> m, signers |-> signers]

IsMint(l, k) == l[k].data.kind = "mint"
IsAccount(l, k) == l[k].data.kind = "account"
IsNative(d) == d.is_native # None

-----------------------------------------------------------------------------
(* validate_owner.  A multisignature account stands for its signers: each  *)
(* position of its list whose key signs counts once.                       *)
ValidOwner(l, expected, auth, S) ==
    /\ auth = expected
    /\ IF l[auth].owner = Program /\ l[auth].space = MULTISIG_LEN
       THEN LET d == l[auth].data
            IN  /\ d.kind = "multisig"
                /\ d.m <= Cardinality({i \in DOMAIN d.signers : d.signers[i] \in S})
       ELSE auth \in S

(* transfer and burn: a delegate is bound by what was delegated to it, and *)
(* so is an owner who has delegated to itself.                             *)
MaySpend(l, k, auth, S, n) ==
    LET d == l[k].data
    IN  IF d.delegate = auth
        THEN ValidOwner(l, auth, auth, S) /\ n <= d.delegated_amount
        ELSE ValidOwner(l, d.owner, auth, S)

Undelegated(d) ==
    [d EXCEPT !.delegate = None, !.delegated_amount = 0,
              !.approver = None, !.granted = 0, !.drawn = 0]

(* A token account after auth has taken n out of it; a delegation that is  *)
(* used up ends.                                                           *)
Spent(d, auth, n) ==
    LET left == [d EXCEPT !.amount = @ - n]
    IN  IF d.delegate # auth THEN left
        ELSE IF d.delegated_amount = n THEN Undelegated(left)
        ELSE [left EXCEPT !.delegated_amount = @ - n, !.drawn = @ + n]

-----------------------------------------------------------------------------
(* initialize_mint, initialize_account, initialize_multisig: the account   *)
(* must be of the right size, unused and rent-exempt.                      *)

Unused(l, k, len) == l[k].space = len /\ l[k].data = Zeroed /\ IsExempt(l[k])

InitializeMintPost(l, k, authority, freeze) ==
    SetData(l, k, MintData(authority, 0, freeze))

InitializeAccountOk(l, k, m) ==
    /\ Unused(l, k, ACCOUNT_LEN)
    /\ m # NativeMint => l[m].owner = Program /\ IsMint(l, m)

InitializeAccountPost(l, k, m, o) ==
    SetData(l, k,
        IF m = NativeMint
        THEN TokenData(m, o, l[k].lamports - MinimumBalance(ACCOUNT_LEN),
                       MinimumBalance(ACCOUNT_LEN))
        ELSE TokenData(m, o, 0, None))

InitializeMultisigOk(l, k, m, signers) ==
    /\ Unused(l, k, MULTISIG_LEN)
    /\ Len(signers) \in 1..MAX_SIGNERS
    /\ m \in 1..MAX_SIGNERS

-----------------------------------------------------------------------------
(* process_transfer; transferring an account to itself checks everything   *)
(* and changes nothing.                                                    *)

ProcessTransferOk(l, from, to, auth, S, n) ==
    /\ IsAccount(l, from) /\ IsAccount(l, to)
    /\ ~l[from].data.frozen /\ ~l[to].data.frozen
    /\ n <= l[from].data.amount
    /\ l[from].data.mint = l[to].data.mint
    /\ MaySpend(l, from, auth, S, n)
    /\ from # to => /\ l[to].data.amount + n <= U64Max
                    /\ IsNative(l[from].data) => /\ n <= l[from].lamports
                                                 /\ l[to].lamports + n <= U64Max

ProcessTransferPost_SelfCredits(l, from, to, auth, n) ==
    LET moved == IF IsNative(l[from].data) THEN MoveLamports(l, from, to, n) ELSE l
    IN  SetData(SetData(moved, from, Spent(l[from].data, auth, n)),
                to, [l[to].data EXCEPT !.amount = @ + n])

ProcessTransferPost(l, from, to, auth, n) ==
    LET moved == IF IsNative(l[from].data) THEN MoveLamports(l, from, to, n) ELSE l
    IN  IF from = to THEN l
        ELSE SetData(SetData(moved, from, Spent(l[from].data, auth, n)),
                     to, [l[to].data EXCEPT !.amount = @ + n])

-----------------------------------------------------------------------------
(* process_approve, process_revoke: by the owner of an account that is not *)
(* frozen.                                                                 *)

OwnerActsOk_WhenFrozen(l, k, auth, S) ==
    /\ IsAccount(l, k)
    /\ ValidOwner(l, l[k].data.owner, auth, S)

OwnerActsOk(l, k, auth, S) ==
    /\ IsAccount(l, k)
    /\ ~l[k].data.frozen
    /\ ValidOwner(l, l[k].data.owner, auth, S)

ProcessApprovePost(l, k, delegate, n) ==
    SetData(l, k, [l[k].data EXCEPT !.delegate = delegate,
                                    !.delegated_amount = n,
                                    !.approver = l[k].data.owner,
                                    !.granted = n,
                                    !.drawn = 0])

ProcessRevokePost(l, k) == SetData(l, k, Undelegated(l[k].data))

-----------------------------------------------------------------------------
(* process_set_authority, one pair of operators for each authority type.   *)

SetOwnerPost_KeepsDelegate(l, k, new) ==
    SetData(l, k, [l[k].data EXCEPT !.owner = new])

(* A new owner starts without a delegate, and on a native account without  *)
(* another close authority.                                                *)
SetOwnerPost(l, k, new) ==
    LET d == Undelegated(l[k].data)
    IN  SetData(l, k, [d EXCEPT !.owner = new,
                                !.close_authority = IF IsNative(d) THEN None ELSE @])

CloseAuthority(d) == IF d.close_authority = None THEN d.owner ELSE d.close_authority

SetCloseAuthorityOk(l, k, auth, S) ==
    /\ IsAccount(l, k)
    /\ ~l[k].data.frozen
    /\ ValidOwner(l, CloseAuthority(l[k].data), auth, S)

SetCloseAuthorityPost(l, k, new) == SetData(l, k, [l[k].data EXCEPT !.close_authority = new])

SetMintAuthorityOk_Reopens(l, k, auth, S) ==
    /\ IsMint(l, k)
    /\ l[k].data.mint_authority # None => ValidOwner(l, l[k].data.mint_authority, auth, S)

(* A mint whose authority is gone has a fixed supply. *)
SetMintAuthorityOk(l, k, auth, S) ==
    /\ IsMint(l, k)
    /\ l[k].data.mint_authority # None
    /\ ValidOwner(l, l[k].data.mint_authority, auth, S)

SetMintAuthorityPost(l, k, new) == SetData(l, k, [l[k].data EXCEPT !.mint_authority = new])

SetFreezeAuthorityOk(l, k, auth, S) ==
    /\ IsMint(l, k)
    /\ l[k].data.freeze_authority # None
    /\ ValidOwner(l, l[k].data.freeze_authority, auth, S)

SetFreezeAuthorityPost(l, k, new) == SetData(l, k, [l[k].data EXCEPT !.freeze_authority = new])

-----------------------------------------------------------------------------
(* process_mint_to, process_burn: never on wrapped lamports. *)

ProcessMintToOk_NoSupplyCheck(l, m, k, auth, S, n) ==
    /\ IsAccount(l, k) /\ IsMint(l, m)
    /\ ~l[k].data.frozen
    /\ ~IsNative(l[k].data)
    /\ l[k].data.mint = m
    /\ l[m].data.mint_authority # None
    /\ ValidOwner(l, l[m].data.mint_authority, auth, S)
    /\ l[k].data.amount + n <= U64Max

ProcessMintToOk(l, m, k, auth, S, n) ==
    /\ IsAccount(l, k) /\ IsMint(l, m)
    /\ ~l[k].data.frozen
    /\ ~IsNative(l[k].data)
    /\ l[k].data.mint = m
    /\ l[m].data.mint_authority # None
    /\ ValidOwner(l, l[m].data.mint_authority, auth, S)
    /\ l[k].data.amount + n <= U64Max
    /\ l[m].data.supply + n <= U64Max

ProcessMintToPost(l, m, k, n) ==
    SetData(SetData(l, k, [l[k].data EXCEPT !.amount = @ + n]),
            m, [l[m].data EXCEPT !.supply = @ + n])

ProcessBurnOk(l, m, k, auth, S, n) ==
    /\ IsAccount(l, k) /\ IsMint(l, m)
    /\ ~l[k].data.frozen
    /\ ~IsNative(l[k].data)
    /\ n <= l[k].data.amount
    /\ l[k].data.mint = m
    /\ MaySpend(l, k, auth, S, n)
    /\ n <= l[m].data.supply

ProcessBurnPost(l, m, k, auth, n) ==
    SetData(SetData(l, k, Spent(l[k].data, auth, n)),
            m, [l[m].data EXCEPT !.supply = @ - n])

-----------------------------------------------------------------------------
(* process_close_account.  The bytes are zeroed and the lamports leave, but *)
(* the account stays allocated until the transaction ends.                 *)
ProcessCloseOk(l, k, dest, auth, S) ==
    /\ k # dest
    /\ IsAccount(l, k)
    /\ IsNative(l[k].data) \/ l[k].data.amount = 0
    /\ ValidOwner(l, CloseAuthority(l[k].data), auth, S)
    /\ l[dest].lamports + l[k].lamports <= U64Max

ProcessClosePost_LamportsStay(l, k, dest) ==
    SetData(SetLamports(l, dest, l[dest].lamports + l[k].lamports), k, Zeroed)

ProcessClosePost(l, k, dest) ==
    SetData(MoveLamports(l, k, dest, l[k].lamports), k, Zeroed)

ToggleFreezeOk(l, m, k, auth, S, freeze) ==
    /\ IsAccount(l, k) /\ IsMint(l, m)
    /\ l[k].data.frozen # freeze
    /\ ~IsNative(l[k].data)
    /\ l[k].data.mint = m
    /\ l[m].data.freeze_authority # None
    /\ ValidOwner(l, l[m].data.freeze_authority, auth, S)

ToggleFreezePost(l, k, freeze) == SetData(l, k, [l[k].data EXCEPT !.frozen = freeze])

(* process_sync_native: nobody has to sign. *)
SyncNativeOk(l, k) ==
    /\ l[k].owner = Program
    /\ IsAccount(l, k)
    /\ IsNative(l[k].data)
    /\ l[k].data.amount + l[k].data.is_native <= l[k].lamports

SyncNativePost_ReserveCounted(l, k) ==
    SetData(l, k, [l[k].data EXCEPT !.amount = l[k].lamports])

SyncNativePost(l, k) ==
    SetData(l, k, [l[k].data EXCEPT !.amount = l[k].lamports - l[k].data.is_native])

-----------------------------------------------------------------------------
(* The token program runs, and the runtime checks each account it was      *)
(* given; the sum of their lamports stays (TokenLamportsConserved).        *)
TokenInstruction(post) ==
    /\ \A k \in Key : VerifiedAccount(Program, work[k], post[k])
    /\ Instruction(post)

CreateAccount(u, k, n, len) ==
    /\ CreateAccountOk(work, u, k, n)
    /\ Instruction(AccountCreated(work, u, k, n, len, Program))

InitializeMint(k, authority, freeze) ==
    /\ Unused(work, k, MINT_LEN)
    /\ TokenInstruction(InitializeMintPost(work, k, authority, freeze))

InitializeAccount(k, m, o) ==
    /\ InitializeAccountOk(work, k, m)
    /\ TokenInstruction(InitializeAccountPost(work, k, m, o))

InitializeMultisig(k, m, signers) ==
    /\ InitializeMultisigOk(work, k, m, signers)
    /\ TokenInstruction(SetData(work, k, MultisigData(m, signers)))

Transfer(from, to, auth, S, n) ==
    /\ ProcessTransferOk(work, from, to, auth, S, n)
    /\ TokenInstruction(ProcessTransferPost(work, from, to, auth, n))

Approve(k, delegate, auth, S, n) ==
    /\ OwnerActsOk(work, k, auth, S)
    /\ TokenInstruction(ProcessApprovePost(work, k, delegate, n))

Revoke(k, auth, S) ==
    /\ OwnerActsOk(work, k, auth, S)
    /\ TokenInstruction(ProcessRevokePost(work, k))

SetOwner(k, new, auth, S) ==
    /\ OwnerActsOk(work, k, auth, S)
    /\ new # None
    /\ TokenInstruction(SetOwnerPost(work, k, new))

SetCloseAuthority(k, new, auth, S) ==
    /\ SetCloseAuthorityOk(work, k, auth, S)
    /\ TokenInstruction(SetCloseAuthorityPost(work, k, new))

SetMintAuthority(k, new, auth, S) ==
    /\ SetMintAuthorityOk(work, k, auth, S)
    /\ TokenInstruction(SetMintAuthorityPost(work, k, new))

SetFreezeAuthority(k, new, auth, S) ==
    /\ SetFreezeAuthorityOk(work, k, auth, S)
    /\ TokenInstruction(SetFreezeAuthorityPost(work, k, new))

MintTo(m, k, auth, S, n) ==
    /\ ProcessMintToOk(work, m, k, auth, S, n)
    /\ TokenInstruction(ProcessMintToPost(work, m, k, n))

Burn(m, k, auth, S, n) ==
    /\ ProcessBurnOk(work, m, k, auth, S, n)
    /\ TokenInstruction(ProcessBurnPost(work, m, k, auth, n))

CloseAccount(k, dest, auth, S) ==
    /\ ProcessCloseOk(work, k, dest, auth, S)
    /\ TokenInstruction(ProcessClosePost(work, k, dest))

ToggleFreezeAccount(m, k, auth, S, freeze) ==
    /\ ToggleFreezeOk(work, m, k, auth, S, freeze)
    /\ TokenInstruction(ToggleFreezePost(work, k, freeze))

SyncNative(k) ==
    /\ SyncNativeOk(work, k)
    /\ TokenInstruction(SyncNativePost(work, k))

-----------------------------------------------------------------------------
Init == BankInit

(* Who signs for an authority: itself, or any of the users for a           *)
(* multisignature account.  Further signatures make no difference.         *)
SignedBy(auth) == IF auth \in Users THEN {{auth}} ELSE SUBSET Users

Authorities == Users \cup Multisigs

Allocate(u) ==
    \E n \in Funds :
        \/ \E k \in Mints : CreateAccount(u, k, n, MINT_LEN)
        \/ \E k \in KeyAccounts : CreateAccount(u, k, n, ACCOUNT_LEN)
        \/ \E k \in Multisigs : CreateAccount(u, k, n, MULTISIG_LEN)

Fund(u) == \E k \in TokenAccounts, n \in Funds : SystemTransfer(u, k, n)

(* Instructions that need no authority. *)
Unsigned ==
    \/ \E k \in Mints, a \in Officers, f \in Officers \cup {None} : InitializeMint(k, a, f)
    \/ \E k \in TokenAccounts, m \in AccountMints, o \in Authorities :
            InitializeAccount(k, m, o)
    \/ \E k \in Multisigs, s \in SignerLists, m \in 1..2 : InitializeMultisig(k, m, s)
    \/ \E k \in TokenAccounts : SyncNative(k)

AsAuthority(auth, S) ==
    \/ \E k, to \in TokenAccounts, n \in Amounts : Transfer(k, to, auth, S, n)
    \/ \E k \in TokenAccounts, d \in Delegates, n \in Amounts : Approve(k, d, auth, S, n)
    \/ \E k \in TokenAccounts : Revoke(k, auth, S)
    \/ \E k \in TokenAccounts, new \in Authorities : SetOwner(k, new, auth, S)
    \/ \E k \in TokenAccounts, new \in Officers \cup {None} : SetCloseAuthority(k, new, auth, S)
    \/ \E k \in Mints, new \in Officers \cup {None} : SetMintAuthority(k, new, auth, S)
    \/ \E k \in Mints, new \in Officers \cup {None} : SetFreezeAuthority(k, new, auth, S)
    \/ \E m \in Mints, k \in TokenAccounts, n \in Amounts : MintTo(m, k, auth, S, n)
    \/ \E m \in Mints, k \in TokenAccounts, n \in Amounts : Burn(m, k, auth, S, n)
    \/ \E k \in TokenAccounts, dest \in Users \cup TokenAccounts : CloseAccount(k, dest, auth, S)
    \/ \E m \in Mints, k \in TokenAccounts, freeze \in BOOLEAN :
            ToggleFreezeAccount(m, k, auth, S, freeze)

Next ==
    \/ \E u \in Payers : Begin(u)
    \/ /\ Running
       /\ \/ \E u \in Users : Allocate(u) \/ Fund(u)
          \/ Unsigned
          \/ \E auth \in Authorities : \E S \in SignedBy(auth) : AsAuthority(auth, S)
    \/ Commit
    \/ Fail

Spec == Init /\ [][Next]_bankVars

-----------------------------------------------------------------------------
(* Wrapped lamports are backed (initialize_account, process_transfer,      *)
(* process_sync_native, process_close_account): a native token account     *)
(* always holds its recorded rent reserve and one lamport for each of its  *)
(* tokens, also between the instructions of a transaction.                 *)
NativeBacked ==
    \A l \in {accounts, work} : \A k \in Key :
        IsAccount(l, k) /\ IsNative(l[k].data) =>
            l[k].data.amount + l[k].data.is_native <= l[k].lamports

(* The tokens of mint m in account k. *)
Held(l, m, k) == IF IsAccount(l, k) /\ l[k].data.mint = m THEN l[k].data.amount ELSE 0

Balances(l, m) == SumFunctionOnSet([k \in Key |-> Held(l, m, k)], Key)

(* Supply (process_mint_to, process_burn, process_transfer, closing): the  *)
(* supply a mint records is the sum of the balances of its accounts, at    *)
(* the limits of u64 too, and also between the instructions of one         *)
(* transaction.                                                            *)
Supply ==
    \A l \in {accounts, work} : \A m \in Mints :
        IsMint(l, m) => l[m].data.supply = Balances(l, m)

(* Delegation (process_approve, process_transfer, process_burn,            *)
(* process_set_authority): a delegate was named by the account's present   *)
(* owner, and what delegates have drawn and what they may still draw add   *)
(* up to the amount of that one approval.                                  *)
DelegationBound ==
    \A l \in {accounts, work} : \A k \in Key :
        IsAccount(l, k) /\ l[k].data.delegate # None =>
            /\ l[k].data.approver = l[k].data.owner
            /\ l[k].data.drawn + l[k].data.delegated_amount = l[k].data.granted

SupplyKept(l, m) ==
    \A k \in Key : IsMint(l, k) /\ l[k].data.mint_authority = None =>
        /\ IsMint(m, k)
        /\ m[k].data.mint_authority = None
        /\ m[k].data.supply <= l[k].data.supply

(* Fixed supply (process_set_authority, process_mint_to): once a mint has  *)
(* given up its authority it never has one again, and its supply can only  *)
(* be burned.                                                              *)
FixedSupply == [][SupplyKept(accounts, accounts')]_bankVars

(* Tokens in a frozen account stay where they are (process_transfer,       *)
(* process_burn, process_mint_to, process_close_account): as long as the   *)
(* freeze authority has not thawed it, the account keeps its tokens, its   *)
(* owner and its delegation; it can be closed, but only when it is empty.  *)
FrozenKept(l, m) ==
    \A k \in Key : IsAccount(l, k) /\ l[k].data.frozen =>
        \/ m[k].data = [l[k].data EXCEPT !.frozen = FALSE]
        \/ m[k].data = l[k].data
        \/ l[k].data.amount = 0 /\ m[k].data = Zeroed

FrozenUntouched == [][payer' # NoPayer => FrozenKept(work, work')]_bankVars

=============================================================================
