-------------------------------- MODULE Bank --------------------------------
(***************************************************************************)
(* The life of a transaction in a bank that executes one transaction at a  *)
(* time: the fee payer is validated and charged while the accounts are     *)
(* loaded (Begin), every instruction of the message then works on the      *)
(* loaded copy, and the copy is either stored after the rent-state check   *)
(* (Commit) or thrown away, the fee excepted (Fail).                       *)
(*                                                                         *)
(* A program's module extends this one, writes each of its handlers as an  *)
(* Instruction, and puts Begin, Commit and Fail beside them in its Next.   *)
(***************************************************************************)
EXTENDS Accounts, FiniteSets, Functions

CONSTANTS Users,            \* key pairs that sign
          Payers,           \* the users that pay for transactions
          NoPayer,          \* no transaction is being executed
          Fee,              \* the fee of a transaction
          MaxInstructions,  \* instructions of one transaction (bound)
          Genesis           \* the accounts at the start

ASSUME BankAssumption ==
    /\ Users \subseteq Key
    /\ Payers \subseteq Users
    /\ NoPayer \notin Users
    /\ Fee \in Nat
    /\ MaxInstructions \in Nat

(* Nothing but plain system accounts, none of them short of rent. *)
ASSUME GenesisAssumption ==
    /\ Genesis \in [Key -> [lamports : U64, owner : {System},
                            space : {0}, data : {Zeroed}]]
    /\ \A k \in Key : ~RentPaying(Genesis[k])

TotalLamports(l) == SumFunctionOnSet([k \in Key |-> l[k].lamports], Key)

(* The capitalization of a bank is a u64. *)
ASSUME CapitalizationAssumption ==
    /\ IsFiniteSet(Key)
    /\ TotalLamports(Genesis) <= U64Max

VARIABLES accounts,   \* the accounts the bank has stored
          work,       \* the loaded copy the open transaction works on
          payer,      \* fee payer of the open transaction, or NoPayer
          steps,      \* instructions the open transaction has executed
          collected   \* fees collected so far

bankVars == <<accounts, work, payer, steps, collected>>

BankInit ==
    /\ accounts = Genesis
    /\ work = Genesis
    /\ payer = NoPayer
    /\ steps = 0
    /\ collected = 0

-----------------------------------------------------------------------------
(* The accounts as loaded for a transaction that p pays for. *)
Loaded(p) == SetLamports(accounts, p, accounts[p].lamports - Fee)

(* validate_fee_payer: a funded system account that can pay the fee and    *)
(* does not become rent-paying by doing so.                                *)
FeePayerOk(p) ==
    /\ accounts[p].lamports > 0
    /\ accounts[p].owner = System
    /\ accounts[p].space = 0
    /\ accounts[p].lamports >= Fee
    /\ TransitionAllowed(accounts[p], Loaded(p)[p])

Begin(p) ==
    /\ payer = NoPayer
    /\ FeePayerOk(p)
    /\ payer' = p
    /\ work' = Loaded(p)
    /\ UNCHANGED <<accounts, steps, collected>>

(* The open transaction has room for another instruction. *)
Running ==
    /\ payer # NoPayer
    /\ steps < MaxInstructions

(* One instruction succeeds and leaves the loaded accounts as post. *)
Instruction(post) ==
    /\ payer # NoPayer
    /\ steps < MaxInstructions
    /\ work' = post
    /\ steps' = steps + 1
    /\ UNCHANGED <<accounts, payer, collected>>

(* The transaction ends and the bank stores l. *)
End(l) ==
    /\ accounts' = Purged(l)
    /\ work' = Purged(l)
    /\ payer' = NoPayer
    /\ steps' = 0
    /\ collected' = collected + Fee

RentStatesOk_Unchecked(pre, post) == TRUE

RentStatesOk(pre, post) == \A k \in Key : TransitionAllowed(pre[k], post[k])

(* Every instruction succeeded, and so does the rent-state check. *)
Commit ==
    /\ payer # NoPayer
    /\ steps > 0
    /\ RentStatesOk(Loaded(payer), work)
    /\ End(work)

Fail_FeeNotCharged ==
    /\ payer # NoPayer
    /\ End(accounts)

(* An instruction or the rent-state check fails: nothing the instructions  *)
(* did is stored, and the payer is still charged.                          *)
Fail ==
    /\ payer # NoPayer
    /\ End(Loaded(payer))

-----------------------------------------------------------------------------
(* The system program's transfer, as an instruction of its own: wallets,   *)
(* scripts and the faucet use it to fund any address.                      *)
SystemTransfer(from, to, n) ==
    /\ TransferOk(work, from, to, n)
    /\ Instruction(Transferred(work, from, to, n))

-----------------------------------------------------------------------------
(* Types, for a program whose accounts hold data in D. *)
BankTypeOK(D) ==
    /\ accounts \in [Key -> AccountWith(D)]
    /\ work \in [Key -> AccountWith(D)]
    /\ payer \in Payers \cup {NoPayer}
    /\ steps \in 0..MaxInstructions
    /\ collected \in Nat

(* Rent (create_account with the minimum, check_rent_state at the end of a *)
(* transaction and on the fee payer): whatever the program does, no stored *)
(* account is ever left with some lamports but less than its rent-exempt   *)
(* minimum, so rent is never collected from one.                           *)
RentExempt == \A k \in Key : ~RentPaying(accounts[k])

(* Conservation (MoveLamports wraps, Balanced, fees, purge of accounts     *)
(* without lamports): the stored balances and the collected fees add up to *)
(* the genesis balances.                                                   *)
Conservation == TotalLamports(accounts) + collected = TotalLamports(Genesis)

=============================================================================
