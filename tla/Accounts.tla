------------------------------ MODULE Accounts ------------------------------
(***************************************************************************)
(* Accounts of a Solana bank and what the runtime lets a program do with   *)
(* them: the arithmetic of lamport balances, rent exemption, the system    *)
(* program's create_account and transfer, the check the runtime makes on   *)
(* every account after a program has run, and the rent-state check made    *)
(* before a transaction is committed.                                      *)
(*                                                                         *)
(* A ledger is a function from addresses to accounts.  An account that     *)
(* does not exist is the default account (zero lamports, no data, owned by *)
(* the system program), as the loader makes it.  The module has no         *)
(* variables: every operator takes the ledger it works on.                 *)
(***************************************************************************)
EXTENDS Integers

CONSTANTS Key,               \* the addresses in play
          System,            \* id of the system program
          Program,           \* id of the program under study
          Programs,          \* ids of the programs that own accounts
          U64Max,            \* the largest value of a u64 (2^64 - 1)
          LamportsPerByte    \* rent rate: lamports_per_byte_year * threshold

ASSUME ProgramsDiffer == System # Program

ASSUME ProgramsOwn == {System, Program} \subseteq Programs

ASSUME RentAssumption ==
    /\ U64Max \in Nat
    /\ LamportsPerByte \in Nat \ {0}

U64 == 0..U64Max

-----------------------------------------------------------------------------
(* u64 arithmetic of a release build of a program: it wraps. *)

WrapAdd(a, b) == IF a + b <= U64Max THEN a + b ELSE a + b - (U64Max + 1)

WrapSub(a, b) == IF a >= b THEN a - b ELSE a - b + (U64Max + 1)

-----------------------------------------------------------------------------
(* Accounts *)

Zeroed == [kind |-> "zeroed"]    \* data bytes that are all zero, or no bytes

(* Accounts whose data is in D. *)
AccountWith(D) ==
    [lamports : U64, owner : Programs, space : Nat, data : D]

DefaultAccount ==
    [lamports |-> 0, owner |-> System, space |-> 0, data |-> Zeroed]

SetLamports(l, k, n) == [l EXCEPT ![k].lamports = n]

SetData(l, k, d) == [l EXCEPT ![k].data = d]

MoveLamports_ReadFirst(l, from, to, n) ==
    SetLamports(SetLamports(l, from, WrapSub(l[from].lamports, n)),
                to, WrapAdd(l[to].lamports, n))

(* A program moves n lamports by `-=` on one account and `+=` on another,   *)
(* in this order, which also gives the outcome when the two are the same.  *)
MoveLamports(l, from, to, n) ==
    LET debited == SetLamports(l, from, WrapSub(l[from].lamports, n))
    IN  SetLamports(debited, to, WrapAdd(debited[to].lamports, n))

-----------------------------------------------------------------------------
(* Rent *)

AccountStorageOverhead == 128

MinimumBalance(space) == (AccountStorageOverhead + space) * LamportsPerByte

IsExempt(acc) == acc.lamports >= MinimumBalance(acc.space)

RentPaying(acc) == acc.lamports > 0 /\ ~IsExempt(acc)

(* The account may not become rent-paying; one that already was may stay   *)
(* so, unless it was resized.                                              *)
TransitionAllowed(pre, post) ==
    RentPaying(post) => RentPaying(pre) /\ post.space = pre.space

-----------------------------------------------------------------------------
(* System program.  TransferOk and CreateAccountOk say when the instruction *)
(* succeeds, Transferred and AccountCreated what it leaves.  `from` signs.  *)

TransferOk(l, from, to, n) ==
    /\ l[from].space = 0
    /\ n <= l[from].lamports
    /\ n > 0 => l[from].owner = System            \* else ExternalAccountLamportSpend
    /\ from # to => l[to].lamports + n <= U64Max  \* else ArithmeticOverflow

Transferred(l, from, to, n) == MoveLamports(l, from, to, n)

CreateAccountOk_Funded(l, from, to, n) ==
    /\ l[to].space = 0
    /\ l[to].owner = System
    /\ from # to
    /\ TransferOk(l, from, to, n)

CreateAccountOk(l, from, to, n) ==
    /\ l[to].lamports = 0
    /\ l[to].space = 0
    /\ l[to].owner = System
    /\ from # to
    /\ TransferOk(l, from, to, n)

AccountCreated(l, from, to, n, space, owner) ==
    Transferred([l EXCEPT ![to] = [@ EXCEPT !.space = space,
                                            !.data  = Zeroed,
                                            !.owner = owner]],
                from, to, n)

-----------------------------------------------------------------------------
(* What the runtime checks once `program` has run an instruction that took *)
(* the ledger from pre to post, on accounts that are writable and not      *)
(* executable.                                                             *)

VerifiedAccount(program, pre, post) ==
    /\ pre.owner # post.owner => program = pre.owner /\ post.data = Zeroed
    /\ program # pre.owner =>
          /\ post.lamports >= pre.lamports
          /\ post.space = pre.space
          /\ post.data = pre.data

(* The lamports of the instruction's accounts add up to the same (u128)    *)
(* sum.  a and b are the accounts whose lamports the instruction writes;   *)
(* the others are the same on both sides.                                  *)
Balanced(pre, post, a, b) ==
    IF a = b
    THEN pre[a].lamports = post[a].lamports
    ELSE pre[a].lamports + pre[b].lamports = post[a].lamports + post[b].lamports

Verified(program, pre, post, a, b) ==
    /\ \A k \in Key : VerifiedAccount(program, pre[k], post[k])
    /\ Balanced(pre, post, a, b)

-----------------------------------------------------------------------------
Purged_Kept(l) == l

(* Storing a ledger: an account with no lamports is stored as the default. *)

Purged(l) ==
    [k \in DOMAIN l |-> IF l[k].lamports = 0 THEN DefaultAccount ELSE l[k]]

=============================================================================
