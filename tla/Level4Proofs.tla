---------------------------- MODULE Level4Proofs ----------------------------
(***************************************************************************)
(* Proofs about the token wallet: wallets stay in the custody of the       *)
(* program's authority, savings leave only with the owner's signature, and *)
(* the owner can always withdraw them.  The guarantees of the token        *)
(* program hold in the presence of the wallet program as well, which calls *)
(* it.                                                                     *)
(***************************************************************************)
EXTENDS Level4, SplTokenProofs

-----------------------------------------------------------------------------
(* What an instruction does to wallets *)

(* The account j is not given to a program, and if it is in custody it     *)
(* stays so and loses no tokens.                                           *)
Undisturbed(l, n, j) ==
    /\ l[j].owner = System => n[j].owner = System
    /\ InCustody(l[j]) => /\ InCustody(n[j])
                          /\ n[j].data.amount >= l[j].data.amount

(* An account whose owner and data stay is not disturbed. *)
LEMMA SameUndisturbed ==
    ASSUME NEW l \in TokenLedger, NEW n, NEW j \in Key,
           n[j].data = l[j].data, n[j].owner = l[j].owner
    PROVE  Undisturbed(l, n, j)
<1>1. InCustody(l[j]) => l[j].data.amount \in Nat
  BY LedgerFields, TokenFields, Zenon DEF InCustody, IsAccount
<1> QED
  BY <1>1 DEF Undisturbed, InCustody

(* Writing the data of an account that is not in custody, or writing to    *)
(* one in custody only what keeps it so, disturbs no account.              *)
LEMMA DataUndisturbed ==
    ASSUME NEW l \in TokenLedger, NEW k \in Key, NEW d,
           InCustody(l[k]) => /\ d.kind = "account" /\ d.owner = Authority
                              /\ d.delegate = None /\ d.close_authority = None
                              /\ d.amount >= l[k].data.amount
    PROVE  \A j \in Key : Undisturbed(l, SetData(l, k, d), j)
<1> DEFINE n == SetData(l, k, d)
<1>1. /\ n[k].data = d /\ n[k].owner = l[k].owner
      /\ \A j \in Key \ {k} : n[j] = l[j]
  BY Zenon DEF SetData, TokenLedger, AccountWith
<1> HIDE DEF n
<1>2. Undisturbed(l, n, k)
  BY <1>1, Zenon DEF Undisturbed, InCustody
<1>3. \A j \in Key \ {k} : Undisturbed(l, n, j)
  BY <1>1, SameUndisturbed, Zenon
<1> QED
  BY <1>2, <1>3, Zenon DEF n

(* validate_owner refuses every authority but the program's own, to spend  *)
(* from an account in custody, to change it or to close it.                *)
LEMMA CustodyGuards ==
    ASSUME NEW l, NEW k, InCustody(l[k]), NEW auth \in Authorities, NEW S, NEW x
    PROVE  /\ ~ValidOwner(l, l[k].data.owner, auth, S)
           /\ ~ValidOwner(l, CloseAuthority(l[k].data), auth, S)
           /\ ~MaySpend(l, k, auth, S, x)
<1>1. auth # Authority /\ auth # None
  BY Level4Assumption, TokenAssumption, BankAssumption, Zenon DEF Authorities
<1> QED
  BY <1>1, Zenon DEF InCustody, ValidOwner, CloseAuthority, MaySpend

(* process_transfer into an account in custody adds to it. *)
LEMMA TransferUndisturbed ==
    ASSUME NEW l \in TokenLedger, AllSound(l), NEW from \in Key, NEW to \in Key,
           NEW auth, NEW S, NEW x \in U64, ProcessTransferOk(l, from, to, auth, S, x)
    PROVE  LET n == ProcessTransferPost(l, from, to, auth, x)
           IN  \A j \in Key : \/ j = from /\ InCustody(l[from])
                              \/ Undisturbed(l, n, j)
<1> DEFINE n == ProcessTransferPost(l, from, to, auth, x)
<1>1. CASE from = to
  <2>1. n = l
    BY <1>1, Zenon DEF ProcessTransferPost
  <2> QED
    BY <2>1, SameUndisturbed, Zenon
<1>2. CASE from # to
  <2> DEFINE e == [l[to].data EXCEPT !.amount = @ + x]
  <2>1. /\ n[to].data = e
        /\ \A k \in Key : n[k].owner = l[k].owner
        /\ \A k \in Key \ {from, to} : n[k] = l[k]
    BY <1>2, TransferPostFields
  <2>2. /\ l[to].data \in TokenRecord /\ x \in Nat
    BY LedgerFields, RentAssumption DEF ProcessTransferOk, U64
  <2>3. /\ e.kind = l[to].data.kind /\ e.owner = l[to].data.owner
        /\ e.delegate = l[to].data.delegate
        /\ e.close_authority = l[to].data.close_authority
        /\ e.amount >= l[to].data.amount
    BY <2>2, TokenFields DEF TokenRecord
  <2> HIDE DEF n, e
  <2>4. Undisturbed(l, n, to)
    BY <2>1, <2>3, Zenon DEF Undisturbed, InCustody
  <2>5. InCustody(l[from]) \/ Undisturbed(l, n, from)
    BY <2>1, Zenon DEF Undisturbed
  <2>6. \A j \in Key \ {from, to} : Undisturbed(l, n, j)
    BY <2>1, SameUndisturbed, Zenon
  <2> QED
    BY <2>4, <2>5, <2>6, Zenon DEF n
<1> QED
  BY <1>1, <1>2, Zenon

(* Allocating a mint, a token account or a multisignature account, and     *)
(* funding accounts, disturbs no wallet and not the authority.             *)
LEMMA SystemUndisturbed ==
    ASSUME TokenInv, NEW u \in Users, Allocate(u) \/ Fund(u)
    PROVE  \A j \in Wallets \cup {Authority} : Undisturbed(work, work', j)
<1>1. LedgerInv(work) /\ work \in TokenLedger /\ u \in Key
  BY BankAssumption, Zenon DEF TokenInv, LedgerInv
<1>2. /\ Mints \cup TokenAccounts \cup Multisigs \subseteq Key /\ Funds \subseteq U64
      /\ Wallets \subseteq Key /\ Authority \in Key
  BY TokenAssumption, Level4Assumption, Zenon DEF TokenAccounts
<1>3. ASSUME NEW k \in Key \ (Wallets \cup {Authority}), NEW x \in U64, NEW len \in Nat,
             CreateAccount(u, k, x, len)
      PROVE  \A j \in Wallets \cup {Authority} : Undisturbed(work, work', j)
  <2>1. /\ CreateAccountOk(work, u, k, x)
        /\ work' = AccountCreated(work, u, k, x, len, Program)
    BY <1>3, Zenon DEF CreateAccount, Instruction
  <2>2. \A j \in Key \ {k} : work'[j].data = work[j].data /\ work'[j].owner = work[j].owner
    BY <1>1, <2>1, AccountCreatedKeeps
  <2> QED
    BY <1>1, <1>2, <2>2, SameUndisturbed, Zenon
<1>4. CASE Allocate(u)
  <2>1. MINT_LEN \in Nat /\ ACCOUNT_LEN \in Nat /\ MULTISIG_LEN \in Nat
    BY DEF MINT_LEN, ACCOUNT_LEN, MULTISIG_LEN
  <2>2. PICK x \in Funds :
          \/ \E k \in Mints : CreateAccount(u, k, x, MINT_LEN)
          \/ \E k \in KeyAccounts : CreateAccount(u, k, x, ACCOUNT_LEN)
          \/ \E k \in Multisigs : CreateAccount(u, k, x, MULTISIG_LEN)
    BY <1>4, Zenon DEF Allocate
  <2>3. Mints \cup KeyAccounts \cup Multisigs \subseteq Key \ (Wallets \cup {Authority})
    BY <1>2, Level4Assumption, Zenon DEF TokenAccounts
  <2>4. \E k \in Key \ (Wallets \cup {Authority}), len \in Nat : CreateAccount(u, k, x, len)
    BY <2>1, <2>2, <2>3, Zenon
  <2> QED
    BY <1>2, <1>3, <2>4, Zenon
<1>5. CASE Fund(u)
  <2>1. PICK k \in TokenAccounts, x \in Funds : SystemTransfer(u, k, x)
    BY <1>5, Zenon DEF Fund
  <2>2. /\ k \in Key /\ x \in U64 /\ TransferOk(work, u, k, x)
        /\ work' = Transferred(work, u, k, x)
    BY <1>2, <2>1, Zenon DEF SystemTransfer, Instruction
  <2>3. \A j \in Key : work'[j].data = work[j].data /\ work'[j].owner = work[j].owner
    BY <1>1, <2>2, TransferredKeeps
  <2> QED
    BY <1>1, <1>2, <2>3, SameUndisturbed, Zenon
<1> QED
  BY <1>4, <1>5, Zenon

(* The instructions without authority: an account in custody is in use, so *)
(* nobody can initialise it again, and syncing only adds to it.            *)
LEMMA UnsignedUndisturbed ==
    ASSUME TokenInv, Unsigned
    PROVE  \A j \in Key : Undisturbed(work, work', j)
<1>1. /\ LedgerInv(work) /\ work \in TokenLedger
      /\ Mints \subseteq Key /\ TokenAccounts \subseteq Key /\ Multisigs \subseteq Key
  BY TokenAssumption, Zenon DEF TokenInv, LedgerInv
<1>2. ASSUME NEW k \in Key, NEW len, Unused(work, k, len)
      PROVE  ~InCustody(work[k])
  BY <1>2 DEF Unused, InCustody, Zeroed
<1>3. ASSUME NEW k \in Mints, NEW a, NEW f, InitializeMint(k, a, f)
      PROVE  \A j \in Key : Undisturbed(work, work', j)
  <2>1. k \in Key /\ ~InCustody(work[k]) /\ work' = SetData(work, k, MintData(a, 0, f))
    BY <1>1, <1>2, <1>3, Zenon
       DEF InitializeMint, TokenInstruction, Instruction, InitializeMintPost
  <2> QED
    BY <1>1, <2>1, DataUndisturbed, Zenon
<1>4. ASSUME NEW k \in TokenAccounts, NEW m, NEW o, InitializeAccount(k, m, o)
      PROVE  \A j \in Key : Undisturbed(work, work', j)
  <2>1. PICK d : d = IF m = NativeMint
                     THEN TokenData(m, o, work[k].lamports - MinimumBalance(ACCOUNT_LEN),
                                    MinimumBalance(ACCOUNT_LEN))
                     ELSE TokenData(m, o, 0, None)
    BY Zenon
  <2>2. k \in Key /\ ~InCustody(work[k]) /\ work' = SetData(work, k, d)
    BY <1>1, <1>2, <1>4, <2>1, Zenon
       DEF InitializeAccount, InitializeAccountOk, TokenInstruction, Instruction,
           InitializeAccountPost
  <2> QED
    BY <1>1, <2>2, DataUndisturbed, Zenon
<1>5. ASSUME NEW k \in Multisigs, NEW s, NEW m, InitializeMultisig(k, m, s)
      PROVE  \A j \in Key : Undisturbed(work, work', j)
  <2>1. k \in Key /\ ~InCustody(work[k]) /\ work' = SetData(work, k, MultisigData(m, s))
    BY <1>1, <1>2, <1>5, Zenon
       DEF InitializeMultisig, InitializeMultisigOk, TokenInstruction, Instruction
  <2> QED
    BY <1>1, <2>1, DataUndisturbed, Zenon
<1>6. ASSUME NEW k \in TokenAccounts, SyncNative(k)
      PROVE  \A j \in Key : Undisturbed(work, work', j)
  <2> DEFINE o == work[k].data
             d == [o EXCEPT !.amount = work[k].lamports - o.is_native]
  <2>1. k \in Key /\ SyncNativeOk(work, k) /\ work' = SetData(work, k, d)
    BY <1>1, <1>6, Zenon DEF SyncNative, TokenInstruction, Instruction, SyncNativePost
  <2>2. o \in TokenRecord /\ IsNative(o) /\ work[k].lamports \in Nat
    BY <1>1, <2>1, LedgerFields, Zenon DEF SyncNativeOk
  <2>3. work[k].lamports - o.is_native >= o.amount
    <3>1. o.amount + o.is_native <= work[k].lamports
      BY <2>1, Zenon DEF SyncNativeOk
    <3>2. o.amount \in Nat /\ o.is_native \in Nat
      BY <2>2, TokenFields, Zenon DEF IsNative
    <3> QED
      BY <2>2, <3>1, <3>2
  <2>4. /\ d.kind = o.kind /\ d.owner = o.owner /\ d.delegate = o.delegate
        /\ d.close_authority = o.close_authority
        /\ d.amount = work[k].lamports - o.is_native
    BY <2>2, Zenon DEF TokenRecord
  <2> HIDE DEF d
  <2>5. InCustody(work[k]) => /\ d.kind = "account" /\ d.owner = Authority
                              /\ d.delegate = None /\ d.close_authority = None
                              /\ d.amount >= work[k].data.amount
    BY <2>3, <2>4, Zenon DEF InCustody
  <2> QED
    BY <1>1, <2>1, <2>5, DataUndisturbed, Zenon
<1> QED
  BY <1>3, <1>4, <1>5, <1>6, Zenon DEF Unsigned

(* The instructions that users and multisignature accounts sign. *)
LEMMA AuthorityUndisturbed ==
    ASSUME TokenInv, NEW auth \in Authorities, NEW S, AsAuthority(auth, S)
    PROVE  \A j \in Key : Undisturbed(work, work', j)
<1>1. /\ LedgerInv(work) /\ work \in TokenLedger /\ AllSound(work)
      /\ Mints \subseteq Key /\ TokenAccounts \subseteq Key /\ Users \subseteq Key
      /\ Amounts \subseteq U64
  BY BankAssumption, TokenAssumption, Zenon DEF TokenInv, LedgerInv
<1> DEFINE Goal == \A j \in Key : Undisturbed(work, work', j)
<1>2. ASSUME NEW k \in Key, NEW d, ~InCustody(work[k]), work' = SetData(work, k, d)
      PROVE  Goal
  BY <1>1, <1>2, DataUndisturbed, Zenon
<1>3. ASSUME NEW k \in TokenAccounts, NEW to \in TokenAccounts, NEW x \in Amounts,
             Transfer(k, to, auth, S, x)
      PROVE  Goal
  <2>1. /\ k \in Key /\ to \in Key /\ x \in U64
        /\ ProcessTransferOk(work, k, to, auth, S, x)
        /\ work' = ProcessTransferPost(work, k, to, auth, x)
    BY <1>1, <1>3, Zenon DEF Transfer, TokenInstruction, Instruction
  <2>2. ~InCustody(work[k])
    BY <2>1, CustodyGuards, Zenon DEF ProcessTransferOk
  <2>3. \A j \in Key : \/ j = k /\ InCustody(work[k])
                       \/ Undisturbed(work, work', j)
    BY <1>1, <2>1, TransferUndisturbed, Zenon
  <2> QED
    BY <2>2, <2>3, Zenon
<1>4. ASSUME NEW k \in TokenAccounts, OwnerActsOk(work, k, auth, S)
      PROVE  k \in Key /\ ~InCustody(work[k])
  BY <1>1, <1>4, CustodyGuards, Zenon DEF OwnerActsOk
<1>5. ASSUME NEW k \in TokenAccounts, NEW g, NEW x, Approve(k, g, auth, S, x)
      PROVE  Goal
  <2>1. k \in Key /\ ~InCustody(work[k]) /\ work' = ProcessApprovePost(work, k, g, x)
    BY <1>4, <1>5, Zenon DEF Approve, TokenInstruction, Instruction
  <2> QED
    BY <1>2, <2>1, Zenon DEF ProcessApprovePost
<1>6. ASSUME NEW k \in TokenAccounts, Revoke(k, auth, S)
      PROVE  Goal
  <2>1. k \in Key /\ ~InCustody(work[k]) /\ work' = ProcessRevokePost(work, k)
    BY <1>4, <1>6, Zenon DEF Revoke, TokenInstruction, Instruction
  <2> QED
    BY <1>2, <2>1, Zenon DEF ProcessRevokePost
<1>7. ASSUME NEW k \in TokenAccounts, NEW new, SetOwner(k, new, auth, S)
      PROVE  Goal
  <2>1. k \in Key /\ ~InCustody(work[k]) /\ work' = SetOwnerPost(work, k, new)
    BY <1>4, <1>7, Zenon DEF SetOwner, TokenInstruction, Instruction
  <2> QED
    BY <1>2, <2>1, Zenon DEF SetOwnerPost
<1>8. ASSUME NEW k \in TokenAccounts, NEW new, SetCloseAuthority(k, new, auth, S)
      PROVE  Goal
  <2>1. k \in Key /\ ~InCustody(work[k]) /\ work' = SetCloseAuthorityPost(work, k, new)
    BY <1>1, <1>8, CustodyGuards, Zenon
       DEF SetCloseAuthority, SetCloseAuthorityOk, TokenInstruction, Instruction
  <2> QED
    BY <1>2, <2>1, Zenon DEF SetCloseAuthorityPost
<1>9. ASSUME NEW k \in Mints, IsMint(work, k)
      PROVE  k \in Key /\ ~InCustody(work[k])
  BY <1>1, <1>9, Zenon DEF IsMint, InCustody
<1>10. ASSUME NEW k \in Mints, NEW new, SetMintAuthority(k, new, auth, S)
       PROVE  Goal
  <2>1. k \in Key /\ ~InCustody(work[k]) /\ work' = SetMintAuthorityPost(work, k, new)
    BY <1>9, <1>10, Zenon DEF SetMintAuthority, SetMintAuthorityOk, TokenInstruction, Instruction
  <2> QED
    BY <1>2, <2>1, Zenon DEF SetMintAuthorityPost
<1>11. ASSUME NEW k \in Mints, NEW new, SetFreezeAuthority(k, new, auth, S)
       PROVE  Goal
  <2>1. k \in Key /\ ~InCustody(work[k]) /\ work' = SetFreezeAuthorityPost(work, k, new)
    BY <1>9, <1>11, Zenon
       DEF SetFreezeAuthority, SetFreezeAuthorityOk, TokenInstruction, Instruction
  <2> QED
    BY <1>2, <2>1, Zenon DEF SetFreezeAuthorityPost
<1>12. ASSUME NEW m \in Mints, NEW k \in TokenAccounts, NEW x \in Amounts,
              MintTo(m, k, auth, S, x)
       PROVE  Goal
  <2> DEFINE o == work[k].data
             d == [o EXCEPT !.amount = @ + x]
  <2>1. /\ k \in Key /\ m \in Key /\ x \in U64
        /\ ProcessMintToOk(work, m, k, auth, S, x)
        /\ work' = ProcessMintToPost(work, m, k, x)
    BY <1>1, <1>12, Zenon DEF MintTo, TokenInstruction, Instruction
  <2>2. /\ work'[k].data = d
        /\ \A j \in Key \ {k, m} : work'[j] = work[j]
    BY <1>1, <2>1, MintToKeeps
  <2>3. o \in TokenRecord /\ x \in Nat
    BY <1>1, <2>1, LedgerFields, RentAssumption DEF ProcessMintToOk, U64
  <2>4. /\ d.kind = o.kind /\ d.owner = o.owner /\ d.delegate = o.delegate
        /\ d.close_authority = o.close_authority /\ d.amount >= o.amount
    BY <2>3, TokenFields DEF TokenRecord
  <2>5. /\ IsAccount(work, k) /\ IsMint(work, m)
        /\ work[k].owner = Program /\ work[m].owner = Program /\ ~InCustody(work[m])
    BY <1>1, <1>9, <2>1, OwnedByProgram, Zenon DEF ProcessMintToOk
  <2> HIDE DEF d
  <2>6. Undisturbed(work, work', k) /\ Undisturbed(work, work', m)
    BY <2>2, <2>4, <2>5, ProgramsDiffer, Zenon DEF Undisturbed, InCustody
  <2>7. \A j \in Key \ {k, m} : Undisturbed(work, work', j)
    BY <1>1, <2>2, SameUndisturbed, Zenon
  <2> QED
    BY <2>6, <2>7, Zenon
<1>13. ASSUME NEW m \in Mints, NEW k \in TokenAccounts, NEW x \in Amounts,
              Burn(m, k, auth, S, x)
       PROVE  Goal
  <2>1. /\ k \in Key /\ m \in Key /\ x \in U64
        /\ ProcessBurnOk(work, m, k, auth, S, x)
        /\ work' = ProcessBurnPost(work, m, k, auth, x)
    BY <1>1, <1>13, Zenon DEF Burn, TokenInstruction, Instruction
  <2>2. \A j \in Key \ {k, m} : work'[j] = work[j]
    BY <1>1, <2>1, BurnKeeps
  <2>3. /\ work[k].owner = Program /\ work[m].owner = Program
        /\ ~InCustody(work[k]) /\ ~InCustody(work[m])
    BY <1>1, <1>9, <2>1, OwnedByProgram, CustodyGuards, Zenon DEF ProcessBurnOk
  <2>4. Undisturbed(work, work', k) /\ Undisturbed(work, work', m)
    BY <2>3, ProgramsDiffer, Zenon DEF Undisturbed
  <2>5. \A j \in Key \ {k, m} : Undisturbed(work, work', j)
    BY <1>1, <2>2, SameUndisturbed, Zenon
  <2> QED
    BY <2>4, <2>5, Zenon
<1>14. ASSUME NEW k \in TokenAccounts, NEW dest \in Users \cup TokenAccounts,
              CloseAccount(k, dest, auth, S)
       PROVE  Goal
  <2>1. /\ k \in Key /\ dest \in Key /\ ProcessCloseOk(work, k, dest, auth, S)
        /\ work' = ProcessClosePost(work, k, dest)
    BY <1>1, <1>14, Zenon DEF CloseAccount, TokenInstruction, Instruction
  <2>2. \A j \in Key \ {k} : work'[j].data = work[j].data /\ work'[j].owner = work[j].owner
    BY <1>1, <2>1, CloseKeeps
  <2>3. work[k].owner = Program /\ ~InCustody(work[k])
    BY <1>1, <2>1, OwnedByProgram, CustodyGuards, Zenon DEF ProcessCloseOk
  <2>4. Undisturbed(work, work', k)
    BY <2>3, ProgramsDiffer, Zenon DEF Undisturbed
  <2>5. \A j \in Key \ {k} : Undisturbed(work, work', j)
    BY <1>1, <2>2, SameUndisturbed, Zenon
  <2> QED
    BY <2>4, <2>5, Zenon
<1>15. ASSUME NEW m \in Mints, NEW k \in TokenAccounts, NEW freeze \in BOOLEAN,
              ToggleFreezeAccount(m, k, auth, S, freeze)
       PROVE  Goal
  <2> DEFINE o == work[k].data
             d == [o EXCEPT !.frozen = freeze]
  <2>1. /\ k \in Key /\ IsAccount(work, k) /\ work' = SetData(work, k, d)
    BY <1>1, <1>15, Zenon
       DEF ToggleFreezeAccount, ToggleFreezeOk, ToggleFreezePost, TokenInstruction, Instruction
  <2>2. o \in TokenRecord /\ o.amount \in Nat
    BY <1>1, <2>1, LedgerFields, TokenFields, Zenon
  <2>3. /\ d.kind = o.kind /\ d.owner = o.owner /\ d.delegate = o.delegate
        /\ d.close_authority = o.close_authority /\ d.amount >= o.amount
    BY <2>2 DEF TokenRecord
  <2> HIDE DEF d
  <2>4. InCustody(work[k]) => /\ d.kind = "account" /\ d.owner = Authority
                              /\ d.delegate = None /\ d.close_authority = None
                              /\ d.amount >= work[k].data.amount
    BY <2>3, Zenon DEF InCustody
  <2> QED
    BY <1>1, <2>1, <2>4, DataUndisturbed, Zenon
<1> QED
  BY <1>3, <1>5, <1>6, <1>7, <1>8, <1>10, <1>11, <1>12, <1>13, <1>14, <1>15, Zenon DEF AsAuthority

-----------------------------------------------------------------------------
(* The wallet program *)

(* A wallet that exists and is handed to no other program is in custody,   *)
(* and the authority itself is a plain account.                            *)
Custody(l) ==
    /\ \A w \in OwnWallets : l[w].owner # System => InCustody(l[w])
    /\ l[Authority].owner = System

(* Whoever can pay for an account pays an amount that fits in a u64. *)
LEMMA CreationFits ==
    ASSUME NEW l \in TokenLedger, NEW o \in Key, NEW w,
           CreateAccountOk(l, o, w, MinimumBalance(ACCOUNT_LEN))
    PROVE  ACCOUNT_LEN \in Nat /\ MinimumBalance(ACCOUNT_LEN) \in U64
<1> DEFINE x == MinimumBalance(ACCOUNT_LEN)
<1>1. x <= l[o].lamports
  BY Zenon DEF CreateAccountOk, TransferOk
<1>2. x \in Nat /\ l[o].lamports \in Nat /\ l[o].lamports <= U64Max
  BY Minimums, LedgerFields, Zenon
<1> HIDE DEF x
<1>3. x <= U64Max
  BY <1>1, <1>2, RentAssumption
<1> QED
  BY <1>2, <1>3, RentAssumption DEF ACCOUNT_LEN, U64, x

(* initialize creates the wallet and leaves it to the program's authority. *)
LEMMA InitializeGood ==
    ASSUME TokenInv, NEW o \in Users, NEW m \in AccountMints, Initialize(o, m)
    PROVE  /\ GoodInstruction
           /\ InCustody(work'[get_wallet_address(o)])
           /\ ~IsAccount(work, get_wallet_address(o))
           /\ \A j \in Key \ {get_wallet_address(o)} : Undisturbed(work, work', j)
<1> DEFINE w == get_wallet_address(o)
           x == MinimumBalance(ACCOUNT_LEN)
           c == Allocated(work, o, Program)
           d == IF m = NativeMint
                THEN TokenData(m, Authority, c[w].lamports - x, x)
                ELSE TokenData(m, Authority, 0, None)
           n == SetData(c, w, d)
<1>1. /\ LedgerInv(work) /\ work \in TokenLedger /\ AllSound(work)
      /\ o \in Key /\ w \in Key /\ Authority \in Key
      /\ m \in Mints \cup {NativeMint}
  BY BankAssumption, TokenAssumption, Level4Assumption, Zenon
     DEF TokenInv, LedgerInv, Wallets, TokenAccounts
<1>2. /\ CreateAccountOk(work, o, w, x) /\ InitializeAccountOk(c, w, m)
      /\ Instruction(n) /\ work' = n
      /\ n = InitializeAccountPost(c, w, m, Authority)
  BY Zenon
     DEF Initialize, InitializeOk, AllocateOk, InitializePost, InitializeAccountPost, Instruction
<1>3. ACCOUNT_LEN \in Nat /\ x \in U64
  BY <1>1, <1>2, CreationFits
<1>4. /\ LedgerInv(c) /\ Kept(work, c)
      /\ \A k \in Key : c[k].data = work[k].data
      /\ \A k \in Key \ {w} : c[k].owner = work[k].owner
      /\ c[w].owner = Program
  <2>1. /\ LedgerInv(c) /\ Kept(work, c)
        /\ \A k \in Key : c[k].data = work[k].data
        /\ \A k \in Key \ {w} : c[k].owner = work[k].owner
    BY <1>1, <1>2, <1>3, AccountCreatedKeeps DEF Allocated
  <2>2. c[w].owner = Program
    <3>1. Zeroed \in TokenDatum /\ work \in [Key -> AccountWith(TokenDatum)]
      BY <1>1, Zenon DEF TokenDatum, TokenLedger
    <3> DEFINE a == AccountCreated(work, o, w, x, ACCOUNT_LEN, Program)
    <3>2. CreateAccountOk(work, o, w, x) /\ o \in Key /\ w \in Key /\ c = a
      BY <1>1, <1>2, Zenon DEF Allocated
    <3> HIDE DEF w, x, c
    <3>3. /\ a \in [Key -> AccountWith(TokenDatum)]
          /\ a[w] = [lamports |-> x, owner |-> Program, space |-> ACCOUNT_LEN, data |-> Zeroed]
          /\ a[o] = [lamports |-> work[o].lamports - x, owner |-> work[o].owner,
                     space |-> work[o].space, data |-> work[o].data]
          /\ \A k \in Key \ {o, w} : a[k] = work[k]
      BY <1>3, <3>1, <3>2, AccountCreatedFields
    <3> HIDE DEF a
    <3> QED
      BY <3>2, <3>3
  <2> QED
    BY <2>1, <2>2
<1>5. c \in TokenLedger
  BY <1>4, Zenon DEF LedgerInv
<1>6. d.kind = "account" /\ d.owner = Authority /\ d.delegate = None /\ d.close_authority = None
  BY Zenon DEF TokenData
<1>7. LedgerInv(n) /\ Kept(c, n)
  BY <1>1, <1>2, <1>4, InitializeAccountKeeps, Zenon
<1> HIDE DEF c, d
<1>8. /\ n[w].data = d
      /\ \A j \in Key \ {w} : n[j] = c[j]
  BY <1>1, <1>5, Zenon DEF SetData, TokenLedger, AccountWith
<1> HIDE DEF n
<1>9. Kept(work, n)
  <2>1. SupplyKept(work, n)
    BY <1>1, <1>4, <1>7, SupplyKeptTransitive, Zenon DEF Kept, LedgerInv
  <2>2. FrozenKept(work, n)
    BY <1>4, <1>7, Zenon DEF Kept, FrozenKept, IsAccount
  <2> QED
    BY <2>1, <2>2, Zenon DEF Kept
<1>10. GoodInstruction
  BY <1>2, <1>7, <1>9, Zenon DEF GoodInstruction
<1>11. InCustody(n[w])
  BY <1>6, <1>8, Zenon DEF InCustody
<1>12. ~IsAccount(work, w)
  <2>1. work[w].owner = System
    BY <1>2, Zenon DEF CreateAccountOk
  <2> QED
    BY <1>1, <2>1, OwnedByProgram, ProgramsDiffer, Zenon
<1>13. \A j \in Key \ {w} : Undisturbed(work, n, j)
  BY <1>1, <1>4, <1>8, SameUndisturbed, Zenon
<1> QED
  BY <1>2, <1>10, <1>11, <1>12, <1>13, Zenon

(* deposit is a transfer that somebody else's authority signs. *)
LEMMA DepositGood ==
    ASSUME TokenInv, NEW o \in Users, NEW auth \in Users, NEW source \in TokenAccounts,
           NEW m, NEW x \in Amounts, Deposit(o, source, auth, m, x)
    PROVE  GoodInstruction /\ \A j \in Key : Undisturbed(work, work', j)
<1> DEFINE w == get_wallet_address(o)
<1>1. /\ LedgerInv(work) /\ work \in TokenLedger /\ AllSound(work)
      /\ source \in Key /\ w \in Key /\ auth \in Authorities /\ x \in U64
  BY BankAssumption, TokenAssumption, Level4Assumption, Zenon
     DEF TokenInv, LedgerInv, Wallets, TokenAccounts, Authorities
<1>2. /\ ProcessTransferOk(work, source, w, auth, signers, x)
      /\ Instruction(ProcessTransferPost(work, source, w, auth, x))
      /\ work' = ProcessTransferPost(work, source, w, auth, x)
  BY Zenon DEF Deposit, TransferCheckedOk, TokenInstruction, Instruction
<1>3. GoodInstruction
  BY <1>1, <1>2, TransferKeeps, Zenon DEF GoodInstruction
<1>4. ~InCustody(work[source])
  BY <1>1, <1>2, CustodyGuards, Zenon DEF ProcessTransferOk
<1>5. \A j \in Key : \/ j = source /\ InCustody(work[source])
                     \/ Undisturbed(work, work', j)
  BY <1>1, <1>2, TransferUndisturbed, Zenon
<1> QED
  BY <1>3, <1>4, <1>5, Zenon

(* withdraw takes from the wallet of the owner who signs, and from no      *)
(* other; the wallet stays in custody.                                     *)
LEMMA WithdrawGood ==
    ASSUME TokenInv, NEW o \in Users, NEW dest \in TokenAccounts, NEW m,
           NEW x \in Amounts, Withdraw(o, dest, m, x), Custody(work)
    PROVE  /\ GoodInstruction /\ o \in signers
           /\ get_wallet_address(o) \in OwnWallets => InCustody(work'[get_wallet_address(o)])
           /\ \A j \in Key \ {get_wallet_address(o)} : Undisturbed(work, work', j)
<1> DEFINE w == get_wallet_address(o)
           d == work[w].data
           e == Spent(d, Authority, x)
           n == ProcessTransferPost(work, w, dest, Authority, x)
<1>1. /\ LedgerInv(work) /\ work \in TokenLedger /\ AllSound(work)
      /\ dest \in Key /\ w \in Key /\ w \in Wallets /\ x \in U64 /\ x \in Nat
  BY BankAssumption, TokenAssumption, Level4Assumption, RentAssumption
     DEF TokenInv, LedgerInv, Wallets, TokenAccounts, U64
<1>2. /\ ProcessTransferOk(work, w, dest, Authority, {Authority}, x)
      /\ Instruction(n) /\ work' = n /\ o \in signers
  BY Zenon DEF Withdraw, WithdrawOk, TransferCheckedOk, TokenInstruction, Instruction
<1>3. GoodInstruction
  BY <1>1, <1>2, TransferKeeps, Zenon DEF GoodInstruction
<1>4. d \in TokenRecord /\ (w \in OwnWallets => InCustody(work[w]))
  <2>1. IsAccount(work, w)
    BY <1>2, Zenon DEF ProcessTransferOk
  <2>2. work[w].owner = Program
    BY <1>1, <2>1, OwnedByProgram, Zenon
  <2> QED
    BY <1>1, <2>1, <2>2, LedgerFields, ProgramsDiffer, Zenon DEF Custody
<1>5. ASSUME w \in OwnWallets
      PROVE  InCustody(n[w])
  <2>1. CASE w = dest
    <3>1. n = work
      BY <2>1, Zenon DEF ProcessTransferPost
    <3> QED
      BY <1>4, <1>5, <3>1, Zenon
  <2>2. CASE w # dest
    <3>1. n[w].data = e
      <4> DEFINE a == [work[dest].data EXCEPT !.amount = @ + x]
      <4>1. /\ n \in TokenLedger
            /\ e \in TokenRecord /\ a \in TokenRecord
            /\ \A k \in Key : n[k].owner = work[k].owner /\ n[k].space = work[k].space
            /\ n[w].data = e /\ n[dest].data = a
            /\ \A k \in Key \ {w, dest} : n[k] = work[k]
        BY <1>1, <1>2, <2>2, TransferPostFields
      <4> QED
        BY <4>1, Zenon
    <3>2. /\ x <= d.amount
          /\ d.delegate = Authority => x <= d.delegated_amount
      <4>1. x <= d.amount /\ MaySpend(work, w, Authority, {Authority}, x)
        BY <1>2, Zenon DEF ProcessTransferOk
      <4> QED
        BY <4>1, Zenon DEF MaySpend
    <3>3. /\ e \in TokenRecord /\ e.owner = d.owner
          /\ e.close_authority = d.close_authority
          /\ e.delegate = None \/ e.delegate = d.delegate
      BY <1>1, <1>4, <3>2, SpentFields
    <3>4. e.kind = "account"
      BY <3>3, TokenFields, Zenon
    <3> HIDE DEF e, n
    <3> QED
      BY <1>4, <1>5, <3>1, <3>3, <3>4, Zenon DEF InCustody
  <2> QED
    BY <2>1, <2>2, Zenon
<1>6. \A j \in Key \ {w} : Undisturbed(work, n, j)
  BY <1>1, <1>2, TransferUndisturbed, Zenon
<1> QED
  BY <1>2, <1>3, <1>5, <1>6, Zenon

-----------------------------------------------------------------------------
(* Other programs *)

(* An account without anything of the token program's changes hands. *)
LEMMA AssignedKeeps ==
    ASSUME NEW l, LedgerInv(l), NEW k \in Key, l[k].data = Zeroed, NEW p \in Programs
    PROVE  LET n == Assigned(l, k, p)
           IN  /\ LedgerInv(n) /\ Kept(l, n)
               /\ \A j \in Key : n[j].lamports = l[j].lamports
               /\ \A j \in Key \ {k} : n[j] = l[j]
<1> DEFINE n == Assigned(l, k, p)
<1>1. l \in [Key -> AccountWith(TokenDatum)] /\ AllSound(l)
  BY Zenon DEF LedgerInv, TokenLedger
<1>2. /\ n \in [Key -> AccountWith(TokenDatum)]
      /\ n[k].data = l[k].data /\ n[k].lamports = l[k].lamports
      /\ \A j \in Key \ {k} : n[j] = l[j]
  BY <1>1 DEF Assigned, AccountWith
<1> HIDE DEF n
<1>3. Sound(n[k])
  BY <1>2 DEF Sound, Zeroed
<1>4. /\ n \in TokenLedger
      /\ \A j \in Key : Sound(n[j])
      /\ \A j \in Key : n[j].data = l[j].data /\ n[j].lamports = l[j].lamports
  BY <1>1, <1>2, <1>3, Zenon DEF AllSound, TokenLedger
<1>5. LedgerInv(n) /\ Kept(l, n)
  BY <1>4, LamportsOnly, Zenon
<1> QED
  BY <1>2, <1>4, <1>5, Zenon DEF n

(* create_account for another program leaves it an empty account. *)
LEMMA CreatedForKeeps ==
    ASSUME NEW l, LedgerInv(l), NEW from \in Key, NEW to \in Key, NEW x \in U64,
           NEW len \in Nat, NEW p \in Programs, CreateAccountOk(l, from, to, x)
    PROVE  LET n == AccountCreated(l, from, to, x, len, p)
           IN  /\ LedgerInv(n) /\ Kept(l, n)
               /\ \A j \in Key \ {to} : n[j].data = l[j].data /\ n[j].owner = l[j].owner
<1> DEFINE n == AccountCreated(l, from, to, x, len, p)
<1>1. l \in TokenLedger /\ AllSound(l) /\ Zeroed \in TokenDatum
  BY Zenon DEF LedgerInv, TokenDatum
<1>2. /\ n \in TokenLedger
      /\ n[to] = [lamports |-> x, owner |-> p, space |-> len, data |-> Zeroed]
      /\ n[from] = [lamports |-> l[from].lamports - x, owner |-> l[from].owner,
                    space |-> l[from].space, data |-> l[from].data]
      /\ \A k \in Key \ {from, to} : n[k] = l[k]
  BY <1>1, CreatedFor DEF TokenLedger
<1>3. from # to /\ l[to].owner = System /\ TransferOk(l, from, to, x)
  BY Zenon DEF CreateAccountOk
<1> HIDE DEF n
<1>4. /\ n[to].data = Zeroed
      /\ n[from].lamports = l[from].lamports - x /\ n[from].owner = l[from].owner
      /\ n[from].space = l[from].space /\ n[from].data = l[from].data
  BY <1>2
<1>5. l[to].data = Zeroed
  BY <1>1, <1>3, ProgramsDiffer, Zenon DEF AllSound, Sound
<1>6. \A k \in Key : n[k].data = l[k].data
  BY <1>2, <1>4, <1>5, Zenon
<1>7. \A k \in Key : Sound(n[k])
  <2>1. Sound(n[to])
    BY <1>4 DEF Sound, Zeroed
  <2>2. Sound(n[from])
    BY <1>1, <1>3, <1>4, SoundPayer, Zenon
  <2> QED
    BY <1>1, <1>2, <2>1, <2>2, Zenon DEF AllSound
<1>8. LedgerInv(n) /\ Kept(l, n)
  BY <1>2, <1>6, <1>7, LamportsOnly, Zenon
<1>9. \A k \in Key \ {to} : n[k].owner = l[k].owner
  BY <1>2, <1>4, Zenon
<1> QED
  BY <1>6, <1>8, <1>9, Zenon DEF n

(* Lamports leave an account that is not the token program's. *)
LEMMA TakenKeeps ==
    ASSUME NEW l, LedgerInv(l), NEW from \in Key, NEW to \in Key, from # to,
           NEW x \in U64, x <= l[from].lamports, l[to].lamports + x <= U64Max,
           l[from].owner # Program
    PROVE  LET n == MoveLamports(l, from, to, x)
           IN  /\ LedgerInv(n) /\ Kept(l, n) /\ Balanced(l, n, from, to)
               /\ \A j \in Key : n[j].data = l[j].data /\ n[j].owner = l[j].owner
<1> DEFINE n == MoveLamports(l, from, to, x)
<1>1. l \in TokenLedger /\ AllSound(l)
  BY Zenon DEF LedgerInv
<1>2. /\ n \in TokenLedger
      /\ \A k \in Key : /\ n[k].owner = l[k].owner
                        /\ n[k].space = l[k].space
                        /\ n[k].data = l[k].data
      /\ \A k \in Key \ {from, to} : n[k] = l[k]
      /\ n[from].lamports = WrapSub(l[from].lamports, x)
      /\ n[to].lamports = WrapAdd(l[to].lamports, x)
  BY <1>1, MoveLamportsFields DEF TokenLedger
<1> HIDE DEF n
<1>3. /\ x \in Nat /\ l[from].lamports \in Nat /\ l[to].lamports \in Nat
      /\ l[to].data \in TokenDatum
  BY <1>1, LedgerFields, RentAssumption DEF U64
<1>4. /\ n[from].lamports = l[from].lamports - x
      /\ n[to].lamports = l[to].lamports + x
  BY <1>2, <1>3 DEF WrapSub, WrapAdd
<1>5. Balanced(l, n, from, to)
  BY <1>3, <1>4 DEF Balanced
<1>6. Sound(n[from])
  <2>1. Sound(l[from]) /\ n[from].owner = l[from].owner /\ n[from].data = l[from].data
    BY <1>1, <1>2, Zenon DEF AllSound
  <2> QED
    BY <2>1 DEF Sound, Zeroed
<1>7. Sound(n[to])
  <2>1. /\ Sound(l[to]) /\ n[to].owner = l[to].owner /\ n[to].space = l[to].space
        /\ n[to].data = l[to].data
    BY <1>1, <1>2, Zenon DEF AllSound
  <2>2. n[to].lamports \in Nat /\ n[to].lamports >= l[to].lamports
    BY <1>3, <1>4
  <2> QED
    BY <1>3, <2>1, <2>2, SoundWithMore, Zenon
<1>8. \A k \in Key : Sound(n[k])
  BY <1>1, <1>2, <1>6, <1>7, Zenon DEF AllSound
<1>9. LedgerInv(n) /\ Kept(l, n)
  BY <1>2, <1>8, LamportsOnly, Zenon
<1> QED
  BY <1>2, <1>5, <1>9, Zenon DEF n

(* What initialize and withdraw hand to another program: it does nothing   *)
(* to the accounts it was not handed, whatever it does to the others.      *)
LEMMA EntrustedGood ==
    ASSUME TokenInv, Custody(work), EntrustedStep
    PROVE  /\ GoodInstruction
           /\ \A j \in OwnWallets \cup {Authority} : Undisturbed(work, work', j)
<1>1. LedgerInv(work) /\ work \in TokenLedger /\ AllSound(work)
  BY Zenon DEF TokenInv, LedgerInv
<1>2. /\ Users \subseteq Key /\ TokenAccounts \subseteq Key /\ Wallets \subseteq Key
      /\ Authority \in Key /\ Authority \notin Entrusted /\ Authority \notin Wallets
      /\ OwnWallets \cap Entrusted = {} /\ OwnWallets \subseteq Key /\ Funds \subseteq U64
      /\ \A o \in Users : get_wallet_address(o) \in Key
  BY BankAssumption, TokenAssumption, Level4Assumption, Zenon
     DEF OwnWallets, Wallets, TokenAccounts
<1>3. ASSUME NEW A \in SUBSET (Key \ (OwnWallets \cup {Authority})),
             \A j \in Key \ A : work'[j].data = work[j].data /\ work'[j].owner = work[j].owner
      PROVE  \A j \in OwnWallets \cup {Authority} : Undisturbed(work, work', j)
  BY <1>1, <1>2, <1>3, SameUndisturbed, Zenon
<1>4. ASSUME NEW o \in Users, NEW p \in Others, InitializeFor(o, p)
      PROVE  /\ GoodInstruction
             /\ \A j \in OwnWallets \cup {Authority} : Undisturbed(work, work', j)
  <2> DEFINE w == get_wallet_address(o)
             x == MinimumBalance(ACCOUNT_LEN)
             n == AccountCreated(work, o, w, x, ACCOUNT_LEN, p)
  <2>1. /\ CreateAccountOk(work, o, w, x) /\ Instruction(n) /\ work' = n
        /\ w \in Entrusted /\ w \in Key /\ o \in Key /\ p \in Programs
    BY <1>2, <1>4, Zenon DEF InitializeFor, AllocateOk, Allocated, Others, Instruction
  <2>2. ACCOUNT_LEN \in Nat /\ x \in U64
    BY <1>1, <2>1, CreationFits
  <2>3. /\ LedgerInv(n) /\ Kept(work, n)
        /\ \A j \in Key \ {w} : n[j].data = work[j].data /\ n[j].owner = work[j].owner
    BY <1>1, <2>1, <2>2, CreatedForKeeps
  <2> HIDE DEF n
  <2>4. {w} \in SUBSET (Key \ (OwnWallets \cup {Authority}))
    BY <1>2, <2>1, Zenon
  <2> QED
    BY <1>3, <2>1, <2>3, <2>4, Zenon DEF GoodInstruction
<1>5. ASSUME NEW o \in Users, NEW dest \in Entrusted, WithdrawThrough(o, dest)
      PROVE  /\ GoodInstruction
             /\ \A j \in OwnWallets \cup {Authority} : Undisturbed(work, work', j)
  <2>1. GoodInstruction
    BY <1>5, AuthorityGood, Zenon DEF WithdrawThrough
  <2>2. \A j \in Key \ {get_wallet_address(o), dest} : work'[j] = work[j]
    BY <1>5, Zenon DEF WithdrawThrough
  <2>3. get_wallet_address(o) \in Entrusted /\ dest \in Entrusted /\ Entrusted \subseteq Key
    BY <1>5, Level4Assumption, Zenon DEF WithdrawThrough
  <2>4. {get_wallet_address(o), dest} \in SUBSET (Key \ (OwnWallets \cup {Authority}))
    BY <1>2, <2>3, Zenon
  <2> QED
    BY <1>3, <2>1, <2>2, <2>4, Zenon
<1>6. ASSUME NEW k \in Wallets, Dispose(k)
      PROVE  /\ GoodInstruction
             /\ \A j \in OwnWallets \cup {Authority} : Undisturbed(work, work', j)
  <2>1. /\ work[k].owner # System /\ work[k].owner # Program
        /\ k \in Key /\ k # Authority
    BY <1>2, <1>6, Zenon DEF Dispose, Others
  <2>2. ~IsAccount(work, k) /\ work[k].data = Zeroed
    BY <1>1, <2>1, OwnedByProgram, Zenon DEF AllSound, Sound
  <2>3. k \notin OwnWallets
    BY <2>1, <2>2, Zenon DEF Custody, InCustody, IsAccount
  <2>4. ASSUME NEW to \in (Users \cup TokenAccounts) \ {k}, NEW x \in Funds,
               x <= work[k].lamports, work[to].lamports + x <= U64Max,
               Instruction(MoveLamports(work, k, to, x))
        PROVE  /\ GoodInstruction
               /\ \A j \in OwnWallets \cup {Authority} : Undisturbed(work, work', j)
    <3>1. to \in Key /\ x \in U64 /\ k # to /\ work' = MoveLamports(work, k, to, x)
      BY <1>2, <2>4, Zenon DEF Instruction
    <3> DEFINE n == MoveLamports(work, k, to, x)
    <3>2. /\ LedgerInv(n) /\ Kept(work, n)
          /\ \A j \in Key : n[j].data = work[j].data /\ n[j].owner = work[j].owner
      BY <1>1, <2>1, <2>4, <3>1, TakenKeeps, SMTT(30)
    <3> HIDE DEF n
    <3>3. \A j \in OwnWallets \cup {Authority} : Undisturbed(work, n, j)
      BY <1>1, <1>2, <3>2, SameUndisturbed, Zenon
    <3> QED
      BY <2>4, <3>1, <3>2, <3>3, Zenon DEF GoodInstruction, n
  <2>5. ASSUME NEW p \in Programs, Instruction(Assigned(work, k, p))
        PROVE  /\ GoodInstruction
               /\ \A j \in OwnWallets \cup {Authority} : Undisturbed(work, work', j)
    <3>1. work' = Assigned(work, k, p)
      BY <2>5, Zenon DEF Instruction
    <3>2. /\ LedgerInv(work') /\ Kept(work, work')
          /\ \A j \in Key \ {k} : work'[j] = work[j]
      BY <1>1, <2>1, <2>2, <3>1, AssignedKeeps, Zenon
    <3>3. {k} \in SUBSET (Key \ (OwnWallets \cup {Authority}))
      BY <2>1, <2>3, Zenon
    <3> QED
      BY <1>3, <2>5, <3>1, <3>2, <3>3, Zenon DEF GoodInstruction
  <2> QED
    BY <1>6, <2>4, <2>5, Zenon DEF Dispose
<1> QED
  BY <1>4, <1>5, <1>6, Zenon DEF EntrustedStep

-----------------------------------------------------------------------------
(* The theorems *)

Level4Inv ==
    /\ TokenInv
    /\ Custody(accounts)
    /\ Custody(work)
    /\ signers \subseteq Users
    /\ \A w \in OwnWallets : InCustody(accounts[w]) => InCustody(work[w])

(* What an instruction may do to wallets. *)
WalletsSafe ==
    /\ Custody(work')
    /\ \A w \in OwnWallets : InCustody(work[w]) => InCustody(work'[w])
    /\ \A o \in Users : LET w == get_wallet_address(o) IN
          w \in OwnWallets /\ IsAccount(work, w) =>
              \/ o \in signers
              \/ IsAccount(work', w) /\ work'[w].data.amount >= work[w].data.amount

(* It is enough to look at one wallet: either it is not disturbed, or it   *)
(* is new, or its owner has signed.                                        *)
LEMMA WalletsSafeFrom ==
    ASSUME work \in TokenLedger, AllSound(work), Custody(work),
           \A j \in OwnWallets \cup {Authority} :
               \/ Undisturbed(work, work', j)
               \/ /\ InCustody(work'[j]) /\ j # Authority
                  /\ \/ ~IsAccount(work, j)
                     \/ \E o \in signers : j = get_wallet_address(o)
    PROVE  WalletsSafe
<1>1. ASSUME NEW w \in OwnWallets, work'[w].owner # System
      PROVE  InCustody(work'[w])
  BY <1>1, Zenon DEF Undisturbed, Custody
<1>2. work'[Authority].owner = System
  BY Zenon DEF Undisturbed, Custody
<1>3. ASSUME NEW w \in OwnWallets, InCustody(work[w])
      PROVE  InCustody(work'[w])
  BY <1>3, Zenon DEF Undisturbed
<1>4. ASSUME NEW o \in Users, get_wallet_address(o) \in OwnWallets,
             IsAccount(work, get_wallet_address(o)), o \notin signers
      PROVE  /\ IsAccount(work', get_wallet_address(o))
             /\ work'[get_wallet_address(o)].data.amount
                    >= work[get_wallet_address(o)].data.amount
  <2> DEFINE w == get_wallet_address(o)
  <2>1. w \in OwnWallets /\ w \in Key
    BY <1>4, TokenAssumption, Level4Assumption, Zenon DEF Wallets, TokenAccounts
  <2>2. InCustody(work[w])
    BY <1>4, <2>1, OwnedByProgram, ProgramsDiffer, Zenon DEF Custody
  <2>3. \A p \in signers : w # get_wallet_address(p)
    BY <1>4, Zenon DEF get_wallet_address
  <2>4. Undisturbed(work, work', w)
    BY <1>4, <2>1, <2>3, Zenon
  <2> QED
    BY <2>2, <2>4, Zenon DEF Undisturbed, InCustody, IsAccount
<1> QED
  BY <1>1, <1>2, <1>3, <1>4, Zenon DEF WalletsSafe, Custody

(* Every instruction of a transaction, of the wallet program or of another. *)
LEMMA Level4Instruction ==
    ASSUME Level4Inv, WalletStep \/ OtherStep \/ EntrustedStep
    PROVE  GoodInstruction /\ WalletsSafe
<1>1. /\ TokenInv /\ work \in TokenLedger /\ AllSound(work) /\ Custody(work)
      /\ signers \subseteq Users
  BY Zenon DEF Level4Inv, TokenInv, LedgerInv
<1>2. /\ Wallets \subseteq Key /\ Authority \in Key /\ Authority \notin Wallets
      /\ OwnWallets \subseteq Wallets
      /\ \A o \in Users : get_wallet_address(o) \in Wallets
  BY TokenAssumption, Level4Assumption, Zenon DEF OwnWallets, Wallets, TokenAccounts
<1>3. ASSUME \A j \in OwnWallets \cup {Authority} : Undisturbed(work, work', j)
      PROVE  WalletsSafe
  BY <1>1, <1>3, WalletsSafeFrom, Zenon
<1>4. ASSUME NEW o \in Users,
             get_wallet_address(o) \in OwnWallets
                 => InCustody(work'[get_wallet_address(o)]),
             o \in signers \/ ~IsAccount(work, get_wallet_address(o)),
             \A j \in Key \ {get_wallet_address(o)} : Undisturbed(work, work', j)
      PROVE  WalletsSafe
  <2>1. \A j \in OwnWallets \cup {Authority} :
            \/ Undisturbed(work, work', j)
            \/ /\ InCustody(work'[j]) /\ j # Authority
               /\ \/ ~IsAccount(work, j)
                  \/ \E p \in signers : j = get_wallet_address(p)
    BY <1>2, <1>4, Zenon
  <2> QED
    BY <1>1, <2>1, WalletsSafeFrom, Zenon
<1>5. ASSUME NEW o \in Users, NEW m \in AccountMints, Initialize(o, m)
      PROVE  GoodInstruction /\ WalletsSafe
  BY <1>1, <1>4, <1>5, InitializeGood, Zenon
<1>6. ASSUME NEW o \in Users, NEW auth \in Users, NEW source \in TokenAccounts,
             NEW m \in Mints, NEW x \in Amounts, Deposit(o, source, auth, m, x)
      PROVE  GoodInstruction /\ WalletsSafe
  BY <1>1, <1>2, <1>3, <1>6, DepositGood, Zenon
<1>7. ASSUME NEW o \in Users, NEW dest \in TokenAccounts, NEW m \in Mints,
             NEW x \in Amounts, Withdraw(o, dest, m, x)
      PROVE  GoodInstruction /\ WalletsSafe
  BY <1>1, <1>4, <1>7, WithdrawGood, Zenon
<1>8. ASSUME NEW u \in signers, Allocate(u) \/ Fund(u)
      PROVE  GoodInstruction /\ WalletsSafe
  BY <1>1, <1>2, <1>3, <1>8, SystemGood, SystemUndisturbed, Zenon
<1>9. ASSUME Unsigned
      PROVE  GoodInstruction /\ WalletsSafe
  BY <1>1, <1>2, <1>3, <1>9, UnsignedGood, UnsignedUndisturbed, Zenon
<1>10. ASSUME NEW auth \in Authorities, AsAuthority(auth, signers)
       PROVE  GoodInstruction /\ WalletsSafe
  BY <1>1, <1>2, <1>3, <1>10, AuthorityGood, AuthorityUndisturbed, Zenon
<1>11. ASSUME EntrustedStep
       PROVE  GoodInstruction /\ WalletsSafe
  BY <1>1, <1>3, <1>11, EntrustedGood, Zenon
<1> QED
  BY <1>5, <1>6, <1>7, <1>8, <1>9, <1>10, <1>11, Zenon DEF WalletStep, OtherStep

(* What a step may do to the stored wallets and to savings. *)
Level4Keeps ==
    /\ StepKeeps
    /\ Level4Inv'
    /\ \A w \in OwnWallets : InCustody(accounts[w]) => InCustody(accounts'[w])
    /\ \A o \in Users : LET w == get_wallet_address(o) IN
          steps' > steps /\ w \in OwnWallets /\ IsAccount(work, w) =>
              \/ o \in signers
              \/ IsAccount(work', w) /\ work'[w].data.amount >= work[w].data.amount

(* Storing the accounts drops no wallet. *)
LEMMA PurgedCustody ==
    ASSUME NEW l, LedgerInv(l), Custody(l)
    PROVE  /\ Custody(Purged(l))
           /\ \A w \in OwnWallets : InCustody(l[w]) => InCustody(Purged(l)[w])
<1>1. l \in TokenLedger /\ Zeroed \in TokenDatum
  BY Zenon DEF LedgerInv, TokenDatum
<1>2. \A k \in Key : Purged(l)[k] = IF l[k].lamports = 0 THEN DefaultAccount ELSE l[k]
  BY <1>1, PurgedFields, Zenon DEF TokenLedger
<1>3. \A k \in Key : IsAccount(l, k) => Purged(l)[k] = l[k]
  BY PurgedKeeps, Zenon
<1>4. OwnWallets \subseteq Key /\ Authority \in Key
  BY TokenAssumption, Level4Assumption, Zenon DEF OwnWallets, TokenAccounts
<1>5. \A w \in OwnWallets : InCustody(l[w]) => InCustody(Purged(l)[w])
  BY <1>3, <1>4, Zenon DEF InCustody, IsAccount
<1>6. DefaultAccount.owner = System
  BY Zenon DEF DefaultAccount
<1>7. \A w \in OwnWallets : Purged(l)[w].owner # System => InCustody(Purged(l)[w])
  BY <1>2, <1>4, <1>6, Zenon DEF Custody
<1>8. Purged(l)[Authority].owner = System
  BY <1>2, <1>4, <1>6, Zenon DEF Custody
<1> QED
  BY <1>5, <1>7, <1>8, Zenon DEF Custody

(* Loading the accounts changes no wallet. *)
LEMMA LoadedCustody ==
    ASSUME TokenInv, Custody(accounts), NEW p \in Payers, FeePayerOk(p)
    PROVE  /\ LedgerInv(Loaded(p)) /\ Custody(Loaded(p))
           /\ \A w \in OwnWallets : InCustody(accounts[w]) => InCustody(Loaded(p)[w])
<1>1. /\ LedgerInv(Loaded(p))
      /\ \A k \in Key : /\ Loaded(p)[k].data = accounts[k].data
                        /\ Loaded(p)[k].owner = accounts[k].owner
  BY LoadedKeeps, Zenon DEF TokenInv
<1>2. OwnWallets \subseteq Key /\ Authority \in Key
  BY TokenAssumption, Level4Assumption, Zenon DEF OwnWallets, TokenAccounts
<1> QED
  BY <1>1, <1>2, Zenon DEF Custody, InCustody

(* Every step of the wallet program, of other programs and of the bank. *)
LEMMA Level4NextKeeps ==
    ASSUME Level4Inv, [Level4Next]_level4Vars
    PROVE  Level4Keeps
<1>1. /\ TokenInv /\ Custody(accounts) /\ Custody(work) /\ signers \subseteq Users
      /\ LedgerInv(accounts) /\ LedgerInv(work)
      /\ \A w \in OwnWallets : InCustody(accounts[w]) => InCustody(work[w])
      /\ steps \in Nat
  BY BankAssumption DEF Level4Inv, TokenInv, BankInv, BankTypeOK
<1>2. ASSUME NEW u \in Payers, Begin(u), signers' \in {{u}, Users}
      PROVE  Level4Keeps
  <2>1. /\ payer = NoPayer /\ FeePayerOk(u) /\ work' = Loaded(u)
        /\ accounts' = accounts /\ steps' = steps
    BY <1>2, Zenon DEF Begin
  <2>2. StepKeeps /\ TokenInv'
    BY <1>1, <1>2, BeginKeeps, Zenon DEF StepKeeps
  <2>3. /\ Custody(Loaded(u))
        /\ \A w \in OwnWallets : InCustody(accounts[w]) => InCustody(Loaded(u)[w])
    BY <1>1, <2>1, LoadedCustody, Zenon
  <2>4. signers' \subseteq Users
    BY <1>2, BankAssumption, Zenon
  <2>5. Level4Inv'
    BY <1>1, <2>1, <2>2, <2>3, <2>4, Zenon DEF Level4Inv, Custody, InCustody
  <2> QED
    BY <1>1, <2>1, <2>2, <2>5 DEF Level4Keeps
<1>3. ASSUME WalletStep \/ OtherStep \/ EntrustedStep, UNCHANGED signers
      PROVE  Level4Keeps
  <2>1. GoodInstruction /\ WalletsSafe
    BY <1>3, Level4Instruction, Zenon
  <2>2. StepKeeps /\ TokenInv'
    BY <1>1, <2>1, InstructionKeeps, Zenon DEF StepKeeps
  <2>3. accounts' = accounts
    BY <2>1, Zenon DEF GoodInstruction, Instruction
  <2>4. Level4Inv'
    BY <1>1, <1>3, <2>1, <2>2, <2>3, Zenon DEF Level4Inv, WalletsSafe, Custody, InCustody
  <2> QED
    BY <1>1, <2>1, <2>2, <2>3, <2>4, Zenon DEF Level4Keeps, WalletsSafe
<1>4. ASSUME NEW l, LedgerInv(l), Custody(l), End(l), signers' = {}, StepKeeps,
             \A w \in OwnWallets : InCustody(accounts[w]) => InCustody(l[w])
      PROVE  Level4Keeps
  <2>1. accounts' = Purged(l) /\ work' = Purged(l) /\ steps' = 0
    BY <1>4, Zenon DEF End
  <2>2. /\ Custody(Purged(l))
        /\ \A w \in OwnWallets : InCustody(l[w]) => InCustody(Purged(l)[w])
    BY <1>4, PurgedCustody, Zenon
  <2>3. Level4Inv'
    BY <1>4, <2>1, <2>2, Zenon DEF Level4Inv, StepKeeps, Custody, InCustody
  <2>4. ~(steps' > steps)
    BY <1>1, <2>1
  <2> QED
    BY <1>4, <2>1, <2>2, <2>3, <2>4, Zenon DEF Level4Keeps
<1>5. ASSUME Commit, signers' = {}
      PROVE  Level4Keeps
  <2>1. StepKeeps /\ End(work)
    BY <1>1, <1>5, CommitFailKeeps, Zenon DEF Commit
  <2> QED
    BY <1>1, <1>4, <1>5, <2>1, Zenon
<1>6. ASSUME Fail, signers' = {}
      PROVE  Level4Keeps
  <2>1. StepKeeps /\ End(Loaded(payer))
    BY <1>1, <1>6, CommitFailKeeps, Zenon DEF Fail
  <2>2. payer \in Payers /\ FeePayerOk(payer)
    BY <1>1, <1>6, Zenon DEF TokenInv, BankInv, BankTypeOK, OpenPayerOk, Fail
  <2>3. /\ LedgerInv(Loaded(payer)) /\ Custody(Loaded(payer))
        /\ \A w \in OwnWallets : InCustody(accounts[w]) => InCustody(Loaded(payer)[w])
    BY <1>1, <2>2, LoadedCustody, Zenon
  <2> QED
    BY <1>4, <1>6, <2>1, <2>3, Zenon
<1>7. ASSUME UNCHANGED level4Vars
      PROVE  Level4Keeps
  <2>1. UNCHANGED bankVars /\ signers' = signers
    BY <1>7, Zenon DEF level4Vars
  <2>2. accounts' = accounts /\ work' = work /\ steps' = steps
    BY <2>1, Zenon DEF bankVars
  <2>3. StepKeeps /\ TokenInv'
    BY <1>1, <2>1, StutterKeeps, Zenon DEF StepKeeps
  <2>4. Level4Inv'
    BY <1>1, <2>1, <2>2, <2>3, Zenon DEF Level4Inv, Custody, InCustody
  <2> QED
    BY <1>1, <2>2, <2>3, <2>4 DEF Level4Keeps
<1> QED
  BY <1>2, <1>3, <1>5, <1>6, <1>7, Zenon DEF Level4Next

(* Every account is a system account at genesis. *)
LEMMA Level4InvInit ==
    ASSUME Level4Init
    PROVE  Level4Inv
<1>1. accounts = Genesis /\ work = Genesis /\ signers = {} /\ TokenInv
  BY TokenInvInit, Zenon DEF Level4Init, BankInit
<1>2. \A k \in Key : Genesis[k].owner = System
  <2> TAKE k \in Key
  <2> DEFINE g == Genesis[k]
  <2>1. g \in [lamports : U64, owner : {System}, space : {0}, data : {Zeroed}]
    BY GenesisAssumption, Zenon
  <2> HIDE DEF g
  <2>2. g.owner = System
    BY <2>1, Zenon
  <2> QED
    BY <2>2, Zenon DEF g
<1>3. OwnWallets \subseteq Key /\ Authority \in Key
  BY TokenAssumption, Level4Assumption, Zenon DEF OwnWallets, TokenAccounts
<1>4. Custody(Genesis)
  BY <1>2, <1>3, Zenon DEF Custody
<1> QED
  BY <1>1, <1>4, Zenon DEF Level4Inv

(* The inductive invariant of the wallet program. *)
LEMMA Level4Invariant == Level4Spec => []Level4Inv
<1>1. Level4Init => Level4Inv
  BY Level4InvInit, Zenon
<1>2. Level4Inv /\ [Level4Next]_level4Vars => Level4Inv'
  BY Level4NextKeeps, Zenon DEF Level4Keeps
<1> QED
  BY <1>1, <1>2, PTL DEF Level4Spec

(* The token program keeps its promises when the wallet program calls it,  *)
(* within a transaction of any number of instructions.                     *)
THEOREM WalletsKeepSupply == Level4Spec => []Supply
<1>1. Level4Inv => Supply
  BY TokenInvImplies, Zenon DEF Level4Inv
<1> QED
  BY <1>1, Level4Invariant, PTL

(* Delegations are bounded when the wallet program calls the token program *)
(* too (process_approve, process_transfer).                                *)
THEOREM WalletsBoundDelegation == Level4Spec => []DelegationBound
<1>1. Level4Inv => DelegationBound
  BY TokenInvImplies, Zenon DEF Level4Inv
<1> QED
  BY <1>1, Level4Invariant, PTL

(* No transaction of the wallet program reopens a mint without authority   *)
(* (process_set_authority, process_mint_to).                               *)
THEOREM WalletsKeepSupplyFixed == Level4Spec => FixedSupply
<1>1. Level4Inv /\ [Level4Next]_level4Vars => [SupplyKept(accounts, accounts')]_bankVars
  BY Level4NextKeeps, Zenon DEF Level4Keeps, StepKeeps
<1> QED
  BY <1>1, Level4Invariant, PTL DEF Level4Spec, FixedSupply

(* No instruction of the wallet program touches a frozen account           *)
(* (process_transfer).                                                     *)
THEOREM WalletsLeaveFrozen == Level4Spec => FrozenUntouched
<1>1. Level4Inv /\ [Level4Next]_level4Vars =>
          [payer' # NoPayer => FrozenKept(work, work')]_bankVars
  BY Level4NextKeeps, Zenon DEF Level4Keeps, StepKeeps
<1> QED
  BY <1>1, Level4Invariant, PTL DEF Level4Spec, FrozenUntouched

(* A wallet that was never handed to another program belongs to the        *)
(* wallet program's authority, without a delegate or another close         *)
(* authority, and stays for good (initialize, validate_owner), although    *)
(* withdraw calls whatever program it is given with that authority's       *)
(* signature on other accounts.                                            *)
THEOREM CustodyIsKept == Level4Spec => WalletsInCustody
<1> DEFINE Step == \A w \in OwnWallets :
               /\ accounts'[w].owner # System => InCustody(accounts'[w])
               /\ accounts[w].owner # System => accounts'[w].owner = Program
<1>1. ASSUME Level4Inv, [Level4Next]_level4Vars
      PROVE  Step
  <2>1. /\ Level4Inv'
        /\ \A w \in OwnWallets : InCustody(accounts[w]) => InCustody(accounts'[w])
    BY <1>1, Level4NextKeeps, Zenon DEF Level4Keeps
  <2>2. Custody(accounts) /\ Custody(accounts)'
    BY <1>1, <2>1, Zenon DEF Level4Inv
  <2>3. LedgerInv(accounts)'
    BY <2>1, Zenon DEF Level4Inv, TokenInv
  <2>4. accounts' \in TokenLedger /\ AllSound(accounts') /\ OwnWallets \subseteq Key
    BY <2>3, TokenAssumption, Level4Assumption, Zenon
       DEF LedgerInv, AllSound, OwnWallets, TokenAccounts
  <2>5. ASSUME NEW w \in OwnWallets, InCustody(accounts'[w])
        PROVE  accounts'[w].owner = Program
    BY <2>4, <2>5, OwnedByProgram, Zenon DEF InCustody, IsAccount
  <2>6. \A w \in OwnWallets : accounts'[w].owner # System => InCustody(accounts'[w])
    BY <2>2, Zenon DEF Custody, InCustody
  <2> QED
    BY <2>1, <2>2, <2>5, <2>6, Zenon DEF Custody
<1>2. Level4Inv /\ [Level4Next]_level4Vars => [Step]_level4Vars
  BY <1>1, Zenon
<1> QED
  BY <1>2, Level4Invariant, PTL DEF Level4Spec, WalletsInCustody

(* No instruction takes tokens out of a wallet that was never handed to    *)
(* another program unless its owner has signed the transaction (withdraw). *)
THEOREM SavingsNeedTheOwner == Level4Spec => SavingsLeaveByOwner
<1> DEFINE Step == \A o \in Users : LET w == get_wallet_address(o) IN
               steps' > steps /\ w \in OwnWallets /\ IsAccount(work, w) =>
                   \/ o \in signers
                   \/ IsAccount(work', w) /\ work'[w].data.amount >= work[w].data.amount
<1>1. Level4Inv /\ [Level4Next]_level4Vars => [Step]_level4Vars
  BY Level4NextKeeps, Zenon DEF Level4Keeps
<1> QED
  BY <1>1, Level4Invariant, PTL DEF Level4Spec, SavingsLeaveByOwner

(* The balance of the destination and the amount withdrawn are both part   *)
(* of a supply that fits in a u64, so the transfer cannot overflow; the    *)
(* authority is a plain account, so its signature is enough.               *)
LEMMA WithdrawalPasses ==
    ASSUME NEW l, LedgerInv(l), Custody(l), NEW o \in Users, NEW dest \in Key,
           get_wallet_address(o) \in OwnWallets,
           IsAccount(l, get_wallet_address(o)),
           l[get_wallet_address(o)].data.mint \in Mints,
           IsAccount(l, dest),
           l[dest].data.mint = l[get_wallet_address(o)].data.mint,
           ~l[get_wallet_address(o)].data.frozen, ~l[dest].data.frozen,
           NEW x \in Nat, x <= l[get_wallet_address(o)].data.amount
    PROVE  WithdrawOk(l, o, dest, l[get_wallet_address(o)].data.mint, x)
<1> DEFINE w == get_wallet_address(o)
           d == l[w].data
           e == l[dest].data
<1>1. /\ l \in TokenLedger /\ AllSound(l) /\ MintsExist(l) /\ SupplyIs(l)
      /\ w \in Key /\ w \in Wallets /\ Authority \in Key
      /\ d.mint \in Key /\ d.mint # NativeMint
  BY TokenAssumption, Level4Assumption, Zenon DEF LedgerInv, Wallets, TokenAccounts
<1>2. /\ d \in TokenRecord /\ e \in TokenRecord
      /\ d.amount \in Nat /\ e.amount \in Nat
  BY <1>1, LedgerFields, TokenFields, Zenon
<1>3. ~IsNative(d)
  BY <1>1, Zenon DEF AllSound, Sound, TokenOk, IsAccount
<1>4. IsMint(l, d.mint)
  BY <1>1, <1>3, Zenon DEF MintsExist
<1>5. InCustody(l[w])
  BY <1>1, OwnedByProgram, ProgramsDiffer, Zenon DEF Custody
<1>6. MaySpend(l, w, Authority, {Authority}, x)
  <2>1. Authority # None /\ l[Authority].owner # Program
    BY <1>1, TokenAssumption, ProgramsDiffer, Zenon DEF Custody
  <2>2. ValidOwner(l, d.owner, Authority, {Authority}) /\ d.delegate # Authority
    BY <1>5, <2>1, Zenon DEF InCustody, ValidOwner
  <2> QED
    BY <2>2, Zenon DEF MaySpend
<1>7. w # dest => e.amount + x <= U64Max
  <2> HAVE w # dest
  <2> DEFINE m == d.mint
  <2>1. Held(l, m, w) = d.amount /\ Held(l, m, dest) = e.amount
    BY Zenon DEF Held
  <2>2. Held(l, m, w) + Held(l, m, dest) <= Balances(l, m) /\ Balances(l, m) \in Nat
    BY <1>1, BalancesBound, Zenon
  <2>3. l[m].data.supply = Balances(l, m)
    BY <1>1, <1>4, Zenon DEF SupplyIs
  <2>4. l[m].data.supply <= U64Max
    BY <1>1, <1>4, LedgerFields, RentAssumption DEF MintRecord, U64
  <2> HIDE DEF d, e, m
  <2> QED
    BY <1>2, <2>1, <2>2, <2>3, <2>4, RentAssumption DEF d
<1> QED
  BY <1>3, <1>4, <1>6, <1>7, Zenon DEF WithdrawOk, TransferCheckedOk, ProcessTransferOk

(* Whatever has been minted, transferred and deposited, the owner of a     *)
(* wallet that was never handed to another program can withdraw any amount *)
(* up to its balance to any account of the mint that is not frozen         *)
(* (withdraw, process_transfer).                                           *)
THEOREM AlwaysWithdrawable == Level4Spec => []Withdrawable
<1>1. ASSUME Level4Inv
      PROVE  Withdrawable
  <2>1. /\ LedgerInv(accounts) /\ Custody(accounts)
        /\ TokenAccounts \subseteq Key /\ Amounts \subseteq Nat
    BY <1>1, TokenAssumption, RentAssumption DEF Level4Inv, TokenInv, U64
  <2> SUFFICES ASSUME NEW o \in Users, get_wallet_address(o) \in OwnWallets,
                      IsAccount(accounts, get_wallet_address(o)),
                      accounts[get_wallet_address(o)].data.mint \in Mints,
                      NEW dest \in TokenAccounts, NEW x \in Amounts,
                      IsAccount(accounts, dest),
                      accounts[dest].data.mint = accounts[get_wallet_address(o)].data.mint,
                      ~accounts[get_wallet_address(o)].data.frozen,
                      ~accounts[dest].data.frozen,
                      x <= accounts[get_wallet_address(o)].data.amount
               PROVE  WithdrawOk(accounts, o, dest,
                                 accounts[get_wallet_address(o)].data.mint, x)
    BY Zenon DEF Withdrawable
  <2>2. dest \in Key /\ x \in Nat
    BY <2>1, Zenon
  <2> QED
    BY <2>1, <2>2, WithdrawalPasses, Zenon
<1> QED
  BY <1>1, Level4Invariant, PTL

-----------------------------------------------------------------------------
(* Lamports *)

(* initialize pays for the wallet's account, and deposit and withdraw are  *)
(* transfers of the token program.                                         *)
LEMMA WalletBalanced ==
    ASSUME TokenInv, WalletStep
    PROVE  BalancedInstruction
<1>1. /\ work \in TokenLedger /\ LedgerInv(work) /\ Zeroed \in TokenDatum
      /\ TokenAccounts \subseteq Key /\ Users \subseteq Key /\ Amounts \subseteq U64
      /\ \A o \in Users : get_wallet_address(o) \in Key
  BY BankAssumption, TokenAssumption, Level4Assumption, Zenon
     DEF TokenInv, LedgerInv, Wallets, TokenAccounts, TokenDatum
<1>2. ASSUME NEW o \in Users, NEW m \in AccountMints, Initialize(o, m)
      PROVE  BalancedInstruction
  <2> DEFINE w == get_wallet_address(o)
             x == MinimumBalance(ACCOUNT_LEN)
             c == Allocated(work, o, Program)
             d == IF m = NativeMint
                  THEN TokenData(m, Authority, c[w].lamports - x, x)
                  ELSE TokenData(m, Authority, 0, None)
  <2>1. /\ CreateAccountOk(work, o, w, x) /\ Instruction(SetData(c, w, d))
        /\ c = AccountCreated(work, o, w, x, ACCOUNT_LEN, Program)
    BY <1>2, Zenon DEF Initialize, InitializeOk, AllocateOk, InitializePost,
                        InitializeAccountPost, Allocated
  <2>2. o \in Key /\ w \in Key /\ ACCOUNT_LEN \in Nat /\ x \in U64
    <3>1. o \in Key /\ w \in Key
      BY <1>1, Zenon
    <3> QED
      BY <1>1, <2>1, <3>1, CreationFits
  <2>3. work \in [Key -> AccountWith(TokenDatum)]
    BY <1>1, Zenon DEF TokenLedger
  <2> HIDE DEF c, d, w, x
  <2>4. TotalLamports(c) = TotalLamports(work)
    BY <1>1, <2>1, <2>2, <2>3, TotalAccountCreated, SMTT(30)
  <2>5. c \in [Key -> AccountWith(TokenDatum)]
    <3>1. LedgerInv(AccountCreated(work, o, w, x, ACCOUNT_LEN, Program))
      BY <1>1, <2>1, <2>2, AccountCreatedKeeps, SMTT(30)
    <3> QED
      BY <2>1, <3>1, Zenon DEF LedgerInv, TokenLedger
  <2>6. TotalLamports(SetData(c, w, d)) = TotalLamports(c)
    BY <2>2, <2>5, TotalSetData, SMTT(30)
  <2> QED
    BY <2>1, <2>4, <2>6, Zenon DEF BalancedInstruction
<1>3. ASSUME NEW from \in Key, NEW to \in Key, NEW auth, NEW S, NEW x \in U64,
             ProcessTransferOk(work, from, to, auth, S, x),
             TokenInstruction(ProcessTransferPost(work, from, to, auth, x))
      PROVE  BalancedInstruction
  <2>1. TotalLamports(ProcessTransferPost(work, from, to, auth, x)) = TotalLamports(work)
    BY <1>1, <1>3, TransferTotal, SMTT(30)
  <2> QED
    BY <1>3, <2>1, Zenon DEF TokenInstruction, BalancedInstruction
<1>4. ASSUME NEW o \in Users, NEW auth \in Users, NEW source \in TokenAccounts,
             NEW m, NEW x \in Amounts, Deposit(o, source, auth, m, x)
      PROVE  BalancedInstruction
  <2> DEFINE w == get_wallet_address(o)
  <2>1. source \in Key /\ w \in Key /\ x \in U64
    BY <1>1, Zenon
  <2>2. /\ ProcessTransferOk(work, source, w, auth, signers, x)
        /\ TokenInstruction(ProcessTransferPost(work, source, w, auth, x))
    BY <1>4, Zenon DEF Deposit, TransferCheckedOk
  <2> QED
    BY <1>3, <2>1, <2>2, Zenon
<1>5. ASSUME NEW o \in Users, NEW dest \in TokenAccounts, NEW m, NEW x \in Amounts,
             Withdraw(o, dest, m, x)
      PROVE  BalancedInstruction
  <2> DEFINE w == get_wallet_address(o)
  <2>1. dest \in Key /\ w \in Key /\ x \in U64
    BY <1>1, Zenon
  <2>2. /\ ProcessTransferOk(work, w, dest, Authority, {Authority}, x)
        /\ TokenInstruction(ProcessTransferPost(work, w, dest, Authority, x))
    BY <1>5, Zenon DEF Withdraw, WithdrawOk, TransferCheckedOk
  <2> QED
    BY <1>3, <2>1, <2>2, Zenon
<1> QED
  BY <1>2, <1>4, <1>5, Zenon DEF WalletStep

(* Another program moves lamports or makes the token program move them. *)
LEMMA EntrustedBalanced ==
    ASSUME TokenInv, EntrustedStep
    PROVE  BalancedInstruction
<1>1. /\ LedgerInv(work) /\ work \in TokenLedger /\ AllSound(work) /\ Zeroed \in TokenDatum
      /\ Users \subseteq Key /\ TokenAccounts \subseteq Key /\ Wallets \subseteq Key
      /\ Funds \subseteq U64
      /\ \A o \in Users : get_wallet_address(o) \in Key
  BY BankAssumption, TokenAssumption, Level4Assumption, Zenon
     DEF TokenInv, LedgerInv, Wallets, TokenAccounts, TokenDatum
<1>2. ASSUME NEW o \in Users, NEW p \in Others, InitializeFor(o, p)
      PROVE  BalancedInstruction
  <2> DEFINE w == get_wallet_address(o)
             x == MinimumBalance(ACCOUNT_LEN)
  <2>1. /\ CreateAccountOk(work, o, w, x)
        /\ Instruction(AccountCreated(work, o, w, x, ACCOUNT_LEN, p))
        /\ o \in Key /\ w \in Key /\ p \in Programs
        /\ work \in [Key -> AccountWith(TokenDatum)]
    BY <1>1, <1>2, Zenon DEF InitializeFor, AllocateOk, Allocated, Others, TokenLedger
  <2>2. ACCOUNT_LEN \in Nat /\ x \in U64
    BY <1>1, <2>1, CreationFits
  <2> HIDE DEF w, x
  <2>3. TotalLamports(AccountCreated(work, o, w, x, ACCOUNT_LEN, p)) = TotalLamports(work)
    BY <1>1, <2>1, <2>2, TotalCreatedFor, SMTT(30)
  <2> QED
    BY <2>1, <2>3, Zenon DEF BalancedInstruction
<1>3. ASSUME NEW o \in Users, NEW dest \in Entrusted, WithdrawThrough(o, dest)
      PROVE  BalancedInstruction
  BY <1>3, AuthorityBalanced, Zenon DEF WithdrawThrough
<1>4. ASSUME NEW k \in Wallets, Dispose(k)
      PROVE  BalancedInstruction
  <2>1. k \in Key /\ work[k].owner # Program
    BY <1>1, <1>4, Zenon DEF Dispose, Others
  <2>2. work[k].data = Zeroed
    BY <1>1, <2>1, Zenon DEF AllSound, Sound
  <2>3. ASSUME NEW to \in (Users \cup TokenAccounts) \ {k}, NEW x \in Funds,
               x <= work[k].lamports, work[to].lamports + x <= U64Max,
               Instruction(MoveLamports(work, k, to, x))
        PROVE  BalancedInstruction
    <3> DEFINE n == MoveLamports(work, k, to, x)
    <3>1. to \in Key /\ x \in U64 /\ k # to
      BY <1>1, <2>3, Zenon
    <3>2. LedgerInv(n) /\ Balanced(work, n, k, to)
      BY <1>1, <2>1, <2>3, <3>1, TakenKeeps, SMTT(30)
    <3>3. work \in [Key -> AccountWith(TokenDatum)]
      BY <1>1, Zenon DEF TokenLedger
    <3>4. TotalLamports(n) = TotalLamports(work)
      BY <2>1, <3>1, <3>2, <3>3, TotalBalanced, SMTT(30)
    <3> QED
      BY <2>3, <3>4, Zenon DEF BalancedInstruction
  <2>4. ASSUME NEW p \in Programs, Instruction(Assigned(work, k, p))
        PROVE  BalancedInstruction
    <3> DEFINE n == Assigned(work, k, p)
    <3>1. LedgerInv(n) /\ \A j \in Key : n[j].lamports = work[j].lamports
      BY <1>1, <2>1, <2>2, <2>4, AssignedKeeps, SMTT(30)
    <3>2. n \in TokenLedger
      BY <3>1, Zenon DEF LedgerInv
    <3> HIDE DEF n
    <3>3. TotalLamports(n) = TotalLamports(work)
      BY <1>1, <3>1, <3>2, TotalSame, Zenon DEF TokenLedger
    <3> QED
      BY <2>4, <3>3, Zenon DEF BalancedInstruction, n
  <2> QED
    BY <1>4, <2>3, <2>4, Zenon DEF Dispose
<1> QED
  BY <1>2, <1>3, <1>4, Zenon DEF EntrustedStep

(* Every step accounts for all the lamports. *)
LEMMA Level4Accounted ==
    ASSUME Level4Inv, Accounted, [Level4Next]_level4Vars
    PROVE  Accounted'
<1>1. TokenInv /\ signers \subseteq Users
  BY Zenon DEF Level4Inv
<1>2. ASSUME BalancedInstruction
      PROVE  Accounted'
  BY <1>2, AccountedInstruction, Zenon DEF BalancedInstruction
<1>3. ASSUME WalletStep
      PROVE  Accounted'
  BY <1>1, <1>2, <1>3, WalletBalanced, Zenon
<1>4. ASSUME OtherStep
      PROVE  Accounted'
  BY <1>1, <1>2, <1>4, SystemBalanced, UnsignedBalanced, AuthorityBalanced, Zenon DEF OtherStep
<1>5. ASSUME EntrustedStep
      PROVE  Accounted'
  BY <1>1, <1>2, <1>5, EntrustedBalanced, Zenon
<1>6. UNCHANGED level4Vars => UNCHANGED bankVars
  BY Zenon DEF level4Vars
<1> QED
  BY <1>1, <1>3, <1>4, <1>5, <1>6, TransactionAccounted, Zenon DEF Level4Next

(* The wallet program of level4 and the two programs it calls neither      *)
(* create nor destroy lamports (initialize, deposit, withdraw), nor do the *)
(* instructions sent to those programs directly.                           *)
THEOREM WalletsConserveLamports == Level4Spec => []Conservation
<1>1. Level4Init => Accounted
  BY AccountedInit, Zenon DEF Level4Init
<1>2. Level4Inv /\ Accounted /\ [Level4Next]_level4Vars => Accounted'
  BY Level4Accounted, Zenon
<1>3. Accounted => Conservation
  BY Zenon DEF Accounted
<1> QED
  BY <1>1, <1>2, <1>3, Level4Invariant, PTL DEF Level4Spec

=============================================================================
