------------------------------- MODULE Level3 -------------------------------
(***************************************************************************)
(* The tip program (contracts/level3).  A vault holds the lamports of all  *)
(* the tip pools that name it; a pool records how many of them it is owed  *)
(* and who may withdraw them.  A pool account is made by the system        *)
(* program in a transaction of its own and is claimed later by             *)
(* create_pool.                                                            *)
(*                                                                         *)
(* initialize derives the address of its vault from a seed.  The other     *)
(* instructions take any account of the program as vault and as pool: they *)
(* compare owners and keys only, and TipPool::deserialize reads the first  *)
(* TIP_POOL_LEN bytes of whatever it is given.  A Vault has a key, eight   *)
(* bytes and a key there too (creator, fee, fee_recipient), so its data is *)
(* written here with the names that a reader of pools gives to the bytes.  *)
(* Signers are the ones the builders of lib.rs mark.                       *)
(***************************************************************************)
EXTENDS Bank, FiniteSets

CONSTANTS Vaults,   \* program addresses of the seeds in use
          Pools,    \* addresses of pool accounts
          Fees,     \* bits of the fees given to initialize (bound)
          FeeRecipients,  \* the fee recipients given to initialize
          Amounts   \* amounts of tips, withdrawals and transfers (bound)

ASSUME Level3Assumption ==
    /\ Key = Users \cup Vaults \cup Pools
    /\ Users \cap Vaults = {}
    /\ Users \cap Pools = {}
    /\ Vaults \cap Pools = {}
    /\ Fees \subseteq U64
    /\ FeeRecipients \subseteq Key
    /\ Amounts \subseteq U64

(* The addresses at which the program has accounts. *)
Holders == Vaults \cup Pools

VAULT_LEN == 73
TIP_POOL_LEN == 72

Vault(creator, fee, fee_recipient) ==
    [kind |-> "vault", withdraw_authority |-> creator,
     value |-> fee, vault |-> fee_recipient]

TipPool(authority, value, vault) ==
    [kind |-> "pool", withdraw_authority |-> authority,
     value |-> value, vault |-> vault]

Data ==
    {Zeroed} \cup [kind : {"vault", "pool"}, withdraw_authority : Users,
                   value : U64, vault : Key]

(* Deserialises as a pool of vault v.  The key in zeroed data is that of   *)
(* the system program, which is no account of this program.                *)
PoolOf(acc, v) == acc.data # Zeroed /\ acc.data.vault = v

OwnedByProgram(l, k) == l[k].owner = Program

-----------------------------------------------------------------------------
(* initialize *)

InitializeOk(l, i, v) ==
    /\ l[v].space = 0
    /\ CreateAccountOk(l, i, v, MinimumBalance(VAULT_LEN))

InitializePost(l, i, v, fee, r) ==
    SetData(AccountCreated(l, i, v, MinimumBalance(VAULT_LEN), VAULT_LEN, Program),
            v, Vault(i, fee, r))

Initialize(i, v, fee, r) ==
    /\ InitializeOk(work, i, v)
    /\ Instruction(InitializePost(work, i, v, fee, r))

(* The system instruction by which a client makes a pool account. *)
CreatePoolAccount(u, p) ==
    /\ CreateAccountOk(work, u, p, MinimumBalance(TIP_POOL_LEN))
    /\ Instruction(AccountCreated(work, u, p, MinimumBalance(TIP_POOL_LEN),
                                  TIP_POOL_LEN, Program))

CreatePool_Reclaim(v, a, p) ==
    /\ OwnedByProgram(work, v)
    /\ OwnedByProgram(work, p)
    /\ Instruction(SetData(work, p, TipPool(a, 0, v)))

(* create_pool; a pool that holds data is AccountAlreadyInitialized. *)
CreatePool(v, a, p) ==
    /\ OwnedByProgram(work, v)
    /\ OwnedByProgram(work, p)
    /\ work[p].data = Zeroed
    /\ Instruction(SetData(work, p, TipPool(a, 0, v)))

-----------------------------------------------------------------------------
(* tip: transfer, then checked_add; an overflow undoes the transfer.       *)
(* serialize writes the fields of a pool, which leaves a vault's seed.     *)

TipOk(l, v, p, src, n) ==
    /\ OwnedByProgram(l, v)
    /\ OwnedByProgram(l, p)
    /\ PoolOf(l[p], v)
    /\ TransferOk(l, src, v, n)
    /\ l[p].data.value + n <= U64Max

TipPost(l, v, p, src, n) ==
    SetData(Transferred(l, src, v, n),
            p, [l[p].data EXCEPT !.value = @ + n])

Tip(v, p, src, n) ==
    /\ TipOk(work, v, p, src, n)
    /\ Instruction(TipPost(work, v, p, src, n))

-----------------------------------------------------------------------------
(* withdraw: checked_sub on the pool, then lamports from vault to authority. *)

WithdrawPost_Unrecorded(l, v, p, a, n) == MoveLamports(l, v, a, n)

WithdrawPost(l, v, p, a, n) ==
    SetData(MoveLamports(l, v, a, n),
            p, [l[p].data EXCEPT !.value = @ - n])

WithdrawOk_Strict(l, v, p, a, n) ==
    /\ OwnedByProgram(l, v)
    /\ OwnedByProgram(l, p)
    /\ PoolOf(l[p], v)
    /\ l[p].data.withdraw_authority = a
    /\ n < l[p].data.value
    /\ Verified(Program, l, WithdrawPost(l, v, p, a, n), v, a)

WithdrawOk(l, v, p, a, n) ==
    /\ OwnedByProgram(l, v)
    /\ OwnedByProgram(l, p)
    /\ PoolOf(l[p], v)
    /\ l[p].data.withdraw_authority = a
    /\ n <= l[p].data.value
    /\ Verified(Program, l, WithdrawPost(l, v, p, a, n), v, a)

Withdraw(v, p, a, n) ==
    /\ WithdrawOk(work, v, p, a, n)
    /\ Instruction(WithdrawPost(work, v, p, a, n))

-----------------------------------------------------------------------------
Init == BankInit

Next ==
    \/ \E u \in Payers : Begin(u)
    \/ \E u \in Users, v \in Vaults, fee \in Fees, r \in FeeRecipients :
          Initialize(u, v, fee, r)
    \/ \E u \in Users, p \in Pools : CreatePoolAccount(u, p)
    \/ \E v \in Holders, a \in Users, p \in Holders : CreatePool(v, a, p)
    \/ \E v \in Holders, p \in Holders, u \in Users, n \in Amounts : Tip(v, p, u, n)
    \/ \E v \in Holders, p \in Holders, a \in Users, n \in Amounts :
          Withdraw(v, p, a, n)
    \/ \E u \in Users, k \in Key, n \in Amounts : SystemTransfer(u, k, n)
    \/ Commit
    \/ Fail

Spec == Init /\ [][Next]_bankVars

-----------------------------------------------------------------------------
(* Accounts, the loaded copy and the bookkeeping of the open transaction   *)
(* have their types; every balance and every pool value fits a u64.        *)
TypeOK == BankTypeOK(Data)

(* The lamports that whatever reads as a pool of v is owed, one element    *)
(* for each.                                                               *)
Claims(l, v) ==
    UNION {{p} \X (1..l[p].data.value) : p \in {q \in Holders : PoolOf(l[q], v)}}

SolventIn(l) ==
    \A v \in Holders \ FeeRecipients : OwnedByProgram(l, v) =>
        Cardinality(Claims(l, v)) + MinimumBalance(l[v].space) <= l[v].lamports

(* Solvency (tip, withdraw): whatever mixture of pools shares a vault,     *)
(* whatever accounts are passed as pools and as vaults, and also between   *)
(* the instructions of a transaction, an account that no vault has as its  *)
(* fee recipient holds its own rent-exempt minimum plus every lamport its  *)
(* pools have been credited.  The fee of a vault that names it would count *)
(* as a credit that no tip has paid for.                                   *)
Solvency == SolventIn(accounts) /\ SolventIn(work)

(* A pool's vault exists (create_pool): the vault that a pool names is an  *)
(* account of the program for as long as the pool exists, if it is nobody's *)
(* fee recipient.                                                          *)
PoolsHaveVaults ==
    \A p \in Holders, v \in Key \ FeeRecipients :
        PoolOf(accounts[p], v) => OwnedByProgram(accounts, v)

(* Payable (withdraw and the rent-state check): the authority of a pool    *)
(* whose vault is nobody's fee recipient can always withdraw any amount up *)
(* to the pool's value in a transaction of its own: neither the handler    *)
(* nor the runtime refuses, unless the amount is too small to bring the    *)
(* authority's account into existence.                                     *)
Payable ==
    \A p \in Holders, v \in Key \ FeeRecipients : PoolOf(accounts[p], v) =>
        LET a == accounts[p].data.withdraw_authority
        IN  \A n \in Amounts : n <= accounts[p].data.value =>
               /\ WithdrawOk(accounts, v, p, a, n)
               /\ \/ RentStatesOk(accounts, WithdrawPost(accounts, v, p, a, n))
                  \/ accounts[a].lamports + n < MinimumBalance(0)

TermsKept(l, m, p) ==
    l[p].data # Zeroed =>
        /\ m[p].data # Zeroed
        /\ m[p].data.kind = l[p].data.kind
        /\ m[p].data.withdraw_authority = l[p].data.withdraw_authority
        /\ m[p].data.vault = l[p].data.vault

(* Terms of a pool (create_pool's AccountAlreadyInitialized): once an      *)
(* account is a pool or a vault, it stays one, and the two keys in it (who *)
(* may withdraw and from where; creator and fee recipient) never change,   *)
(* whoever else tries to claim the account.  It only disappears as a whole, *)
(* when it is a fee recipient and has been emptied through the vault that  *)
(* names it.                                                               *)
PoolTermsFixed ==
    [][\A p \in Holders :
          \/ TermsKept(accounts, accounts', p)
          \/ p \in FeeRecipients /\ accounts'[p] = DefaultAccount]_bankVars

=============================================================================
