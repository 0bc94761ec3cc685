# A TLA+ verification of the workshop contracts and their runtime

The repository holds five small Solana programs (`src/neodyme-workshop/contracts`,
`level0` to `level4`), the framework their callers run on
(`src/neodyme-workshop/pocs/solana-poc-framework`, on top of the Solana 1.11.2
runtime and of spl-token 3.3.0, both vendored), and scripts that set the programs
up on a local node (`src/local-node`).

This directory models the programs, the token program, and the part of the
runtime that decides what becomes of a transaction: how an instruction may change
accounts, how a leader puts transactions into blocks, how a validator keeps
transactions from running twice on its forks, and what a client learns about its
call. TLC checks the models; TLAPS proves the central results for every value of
the constants.

## 1. Inventory

| Part | State | Operations | Hard behaviours |
|---|---|---|---|
| `level0` wallet | wallet account (authority, vault), vault account | initialize, deposit, withdraw | two accounts made by two calls; the vault is dropped by the runtime when emptied |
| `level1` wallet | one account with data and lamports | initialize, deposit, withdraw | a wallet can be emptied, closed and initialised again, also within one transaction |
| `level2` wallet | as `level1` | as `level1`, withdraw keeps the minimum | boundary at the rent-exempt minimum; an unchecked u64 sum that may wrap |
| `level3` tips | vaults, pools (authority, value, vault) | initialize, create_pool, tip, withdraw | many pools share one vault; a pool account is created and claimed in two transactions; a vault can be read as a pool |
| `level4` token wallet | wallet token accounts of one authority | initialize, deposit, withdraw | three programs share the state; users may go round the wallet program, or have it call another program |
| token program | mints, token accounts, multisignature accounts | all instructions of spl-token 3.3.0 | u64 limits, self-transfers, delegations that outlive their owner, wrapped lamports |
| account rules, system program | rent, owner, size, data of every account | verification after an instruction, rent-state check, storing; create_account, transfer | wrapping arithmetic in programs against the sum check of the runtime |
| transaction execution | stored accounts, loaded copy, fee payer | load, run instructions, commit, fail | a failed transaction is undone except for its fee |
| banking stage, cost tracker, PoH recorder | buffers, batches, account locks, block costs, entries, banks | receive, select, lock, check, execute, record, store, unlock, settle; last tick, freeze, next leader bank | threads interleave at every step; the slot ends between execution and recording |
| bank forks, blockhash queue, status cache | banks, ancestors, roots, statuses | new bank, execute, freeze, set root, purge a duplicate slot | no bank knows its whole history; old statuses are purged |
| RPC client and server, send-transaction service, `RemoteEnvironment` | calls, retry queue, packets, commitments | airdrop, execute_transaction, preflight, retries, polling | lost and repeated packets, forks that are abandoned, timeouts |
| `LocalEnvironment` | tick height, blockhash queue, status cache | build, advance_blockhash, execute_transaction | one block boundary per slot; every transaction has the same blockhash |
| `deploy_program` | program account on a shared cluster | create, write chunks, finalize | callers overlap, stop between transactions and start again, and may send identical transactions |
| scripts and clients | – | fund, deploy, initialise, deposit | a sequence of transactions without rollback |

What makes the system correct: lamports and tokens are neither made nor lost; a
vault covers its pools; what is deposited can be withdrawn, by its owner; accounts
are complete or absent; terms, once set, stay; no account is left to be charged
rent; what a leader records can be replayed; a transaction runs at most once on a
fork; a call that reports success tells the truth, and every call returns;
deployments end in a complete program.

## 2. Modules

    Accounts            account rules and the system program (no variables)
      Bank              one transaction at a time: Begin, Instruction, Commit, Fail
        Level0          wallet + vault
        WalletProgram   common part of Level1 and Level2
          Level1, Level2
        SavingsWallets  whichever of Level0, Level1 and Level2 is deployed
        Level3          vaults and tip pools
        SplToken        the token program
          Level4        token wallet, composed with the token program
        BankProofs      lemmas on the operators, invariant of Bank (with SumTheorems)
          WalletProofs  inductive invariants and theorems of Level0, Level1, Level2
                        and SavingsWallets
          Level3Proofs  inductive invariant and theorems of Level3
          SplTokenProofs  the same of SplToken
            Level4Proofs  the same of Level4
    Entries             transactions, their locks and results (no variables)
      BlockLedger       what a block promises (abstract specification)
      BankingStage      threads, locks, costs, PoH, banks; implements BlockLedger
        BankingStageProofs      inductive invariants, refinement, costs (with SumTheorems)
    BankForks           forks, blockhashes, roots, status cache
      RemoteEnvironment client, RPC, retries and network on top of the forks
        BankForksProofs inductive invariants and theorems of BankForks,
                        RemoteEnvironment, and of the next two
    LocalEnvironment    ticks, blockhashes, status cache of one bank
    DeployProgram       concurrent, restartable deployment
    SumTheorems         sums over finite sets
    MC*                 instances for TLC

**Accounts.** A ledger is a function from addresses to accounts
`[lamports, owner, space, data]`; an account that does not exist is the default
account, as the loader makes it. `data` is what the program can deserialise, or
`Zeroed`; the owner is one of `Programs`. `XOk(l, ...)` says when an operation succeeds on ledger `l`, `XPost`
(or `Transferred`, `AccountCreated`) what it leaves. Programs add and subtract
lamports with wrapping u64 operations; `Verified` is what the runtime checks
afterwards (owner, size and data changed only by the owner, debits only by the
owner, unchanged sum). `Purged` is what storing does: an account without
lamports becomes the default account.

**Bank.** `accounts` is what is stored, `work` the copy that the open
transaction works on. `Begin` validates and charges the fee payer,
`Instruction` applies one handler to `work`, `Commit` stores `work` if the
rent-state check passes and `Fail` stores only the charged payer. `Fail` is
enabled at any point of an open transaction: any instruction may be one that
does not succeed. Rent collection is not an action, because `RentExempt` shows
that there is never an account it would apply to.

**Level0 to Level3.** One action per handler, each a guard from its checks and
the runtime's and an effect from its writes. Program addresses are written as
the tuple of their seeds. Signers are the ones that the builders in each `lib.rs`
(and the script clients) mark, and in `Level0` to `Level2` the accounts are the ones
these derive from the authority; the properties are no statement about instructions
put together otherwise.

In `Level2` amounts are arbitrary u64 values, the ones with which
`min_balance + amount` wraps included. Such an amount is a debit of the destination,
which the runtime lets pass only if the destination is another wallet of the program.
`MinimumKept` says what remains true of all of them.

`Level3` takes any account of the program (`Holders`) as vault and as pool, because
the handlers compare owners and keys only, and deserialising a pool reads the first 72
bytes of whatever it is given. A vault has a key, eight bytes and a key there too, so
its creator, fee and fee recipient are read as the authority, value and vault of a
pool; its data is written with the names a reader of pools gives to these bytes. An
account that some vault has as its fee recipient (`FeeRecipients`) can therefore be
charged for a fee that nobody has tipped, and be emptied. `Solvency` and `Payable`
are about the accounts that are nobody's fee recipient, and `PoolTermsFixed` allows the
others to disappear, as a whole. The seed of a vault is never read and is left out.

**SavingsWallets.** A bank on which one of `Level0`, `Level1` and `Level2` is
deployed (`contract`, chosen in the initial state): what the three have in common is
stated once. They share the users and one set of addresses; to `level1` and `level2`
the address of a `level0` vault is one more address to send lamports to.

**SplToken.** Every instruction of the token program as a guard (its early
returns) and the ledger it leaves; `S` is the set of keys that sign. The
`Checked` variants only compare decimals. `granted`, `drawn` and `approver` of a
token account are history, for `DelegationBound`; the program has no such fields.
`TokenInstruction` leaves out the runtime's comparison of sums after an instruction;
`TokenLamportsConserved` proves that it would never fail.

**Level4.** The wallet program owns no account: `initialize` is a creation by the
system program and an initialisation by the token program, `deposit` and
`withdraw` are token transfers. The wallet's actions therefore compose those of
`SplToken`, and next to them every signer may send any instruction to the token
program (`OtherStep`). The program to call is an account of the instruction: `lib.rs`
passes the token program, and the handlers call whichever they are given.
`EntrustedStep` is what another program can do when it is passed instead.
`InitializeFor` leaves it an account at the wallet's address, `WithdrawThrough` lends
it the authority's signature for the two writable accounts of the call, and `Dispose`
is what it may do with an account of its own. `Entrusted` are the accounts handed to
such a program; custody, savings and withdrawals are stated for the wallets that are
not among them (`OwnWallets`). Over a wallet in `Entrusted` the wallet program keeps
no hold. `deposit` through another program is left out: that program gets the
signature of the depositor, who can call it directly just as well.

**Entries, BlockLedger.** A transaction is the accounts it locks (`Writable`,
`Readonly`), whether it loads, and an arbitrary result computed from the accounts
it loads and the blockhash (`Loads` and `Outcome` are constants of the models). The
age of a transaction is that of the blockhash it names; every slot adds one.
`BlockLedger` is what replay does with a block, one entry after the other: an
entry is a set of transactions without lock conflicts, not processed before, all
of which load from the accounts the entries before left.

**BankingStage.** A thread takes a batch through `SelectTransactions` (cost
limits), `LockAccounts`, `CheckTransactions`, `LoadAndExecute`, `FreezeLock`,
`RecordTransactions`, `StoreAccounts`, `UpdateStatuses`, `ReleaseFreezeLock`,
`UnlockAccounts` and `SettleCosts`. The cost tracker has its totals (`Block`, `Vote`,
`Data`) and one count per written account, with all the limits of
`would_fit_internal`; a transaction for which no account data is left at all is given
up (`refused`), any other that does not fit is retried. The buffer of a thread has a
capacity and drops the packet of the lowest priority. What is retried must be young
enough for the next leader (`RetryAge`). Each step touches one lock-protected
structure; between two of them everything else may happen, in particular
`LastTick` (PoH completes the slot), `Freeze` and `StartLeader` (replay stage).
A thread holds the freeze lock exactly between `FreezeLock` and
`ReleaseFreezeLock`, so the lock is its position. Where the code goes through a
batch in order, the model takes any maximal subset that fits (the order of a
buffer is not significant); only the last tick of a slot is a step. The refinement
maps the accounts of the abstract ledger to those of the newest bank with the
results of batches that are recorded and not yet stored: an entry takes effect
when it is recorded.

**BankForks.** `bank` maps slots to banks with their ancestors, height,
blockhash queue and the transactions executed; `lineage` is the whole history of
a fork, which the code does not keep, and `ancestors` what a bank knows of it.
`SetRoot` makes the path roots of the status cache, purges the oldest roots and
prunes other forks; `PurgeSlot` removes a duplicate slot with its descendants,
after which another version of the slot may be replayed.

**RemoteEnvironment.** Extends the forks by votes and commitments (consensus is
external: it decides what is voted for and confirmed, and a confirmed bank is
never abandoned), the service that sends a transaction and sends it again until
it is rooted, too old or failed, a network that loses and repeats packets, and the
client: balance check, blockhash, preflight, polling for a status at `processed`
and then at `confirmed`. The framework's clients use commitment `confirmed`, no
initial timeout and no limit on retries. The retry queue is shared with callers
outside the model, whose transactions may fill it at any time (`SendBatch`). Purged slots are not part of this model.

**LocalEnvironment.** A blockhash is its number. The tick height only matters by
its comparison with `max_tick_height`, so heights beyond it alternate between
two values; this keeps the endless loop visible as a loop. A transaction is its
blockhash and body, which is what the status cache tells apart. One that does not load
(`execute_not_loaded`) leaves no status and may be tried again; `executions` counts
how often a body was executed, for `OneExecution`.

**DeployProgram.** Each caller goes through `GetAccount`, `CreateAccount`,
`WriteChunk` and `Finalize`, a transaction each; `Stop` ends its process at any
point and `Restart` begins again. The account survives. A transaction is its payer,
blockhash and instruction: callers who share a payer and got the same blockhash send
the same one, which is executed once (`Lands`) and reported to all of them as a
success (`Repeated`).

Operators named `Definition_Suffix` are faulty variants of the definition that
follows them (a dropped guard, an off-by-one, a missing write). They are used by
no specification; replacing the definition by the variant makes TLC report the
property listed for it in `PROJECT.json`, which shows that the property is able
to fail.

## 3. Runs

| Run | Instance | Distinct states | Shows |
|---|---|---|---|
| `wallets` | `level0`, `level1` or `level2` with 2 users, 2 instructions per transaction, an amount with which the sum of `level2` wraps | 1 890 180 | `WalletStructure`, `AddressLifecycle`, `EmptiedVaultIsClosed`, `Withdrawable`, `MinimumKept` inside every transaction, `Conservation` |
| `level3` | 2 users, 2 vaults, one of them a fee recipient, 2 pools, 2 instructions, fee 250 | 807 540 | `Solvency`, `Payable`, `PoolTermsFixed`, `RentExempt`, `Conservation` |
| `spl_token` | 2 accounts of wrapped lamports, a multisignature account, 2 instructions | 576 484 | `NativeBacked`, `Conservation` |
| `level4` | 2 users with wallets, a mint, a token account, a delegate, another program in the place of the token program, amounts up to the limit of u64 | 897 344 | `WalletsInCustody`, `SavingsLeaveByOwner`, `Withdrawable`; of the token program `Supply`, `DelegationBound`, `FixedSupply`, `FrozenUntouched` |
| `banking_stage` | 2 threads, 3 transactions received in three ways (one of them twice), 2 slots, buffers of 2, tight cost limits of every kind, aging blockhashes | 286 214 | `BlocksReplay` (refinement of `BlockLedger`), `LocksHeld`, `CostExact`, `FrozenIsFinal`, `NoTransactionLost`, `SlotEnds` |
| `bank_forks` | 4 slots, 2 versions of a slot, 2 transactions, limits 1 | 897 744 | `ProcessedOnce`, `LookupExact`, `DeltasCached` |
| `remote_environment` | 4 slots, a call, a retry queue others may fill | 1 059 599 | `OkIsConfirmed`, `DroppedIsSettled`, `CallReturns` |
| `remote_environment_up_to` | one airdrop to an account that already holds something | – | **violated**: `AirdropUpTo` |
| `local_environment` | 4 ticks per slot, 3 transactions | 261 | `OneExecution`, `BuildReturns` |
| `local_environment_advance` | same | – | **violated**: `AdvanceReturns` |
| `deploy_program` | 3 callers with 2 payers, 2 blockhashes, 3 chunks | 46 147 | `ExecutableComplete`, `OnePayerWrites`, `CallEnds` |
| `deploy_program_return` | same | – | **violated**: `DeployedOnReturn` |

*Bounds.* In the runs on accounts the rent rate is one lamport per byte, so the
rent-exempt minimum of an empty account is 128. Amounts are of the same order:
they reach every case the handlers tell apart (nothing left, exactly the minimum
left, less than the minimum left, a destination that does and does not come into
existence) without the many balances that small amounts would produce. Genesis
gives one user enough for every account and a little to spare, the other enough
for one. `U64Max` is above the sum of all balances, as 2^64 is above the total
supply; subtractions that wrap are still told from ones that do not. Token
amounts on the other hand do reach `U64Max`: two of the larger amounts overflow.
One user pays for transactions (`Payers`); who pays only matters through the fee.
`Officers` and `SignerLists` bound who is named as an authority of a mint or an
account and as a signer; the signer lists contain one that can never reach its
number of signatures. Vaults, pools, token accounts and transactions are
interchangeable where the configuration makes them symmetry sets; the properties
name none of them.

`wallets` chooses the contract in the initial state: the three state spaces are
disjoint and each is explored in full. `WalletAmounts`, the amounts of `level1` and
`level2`, are the minimum of a wallet (160) and a little more, so that a withdrawal
can leave a wallet empty, at its minimum or below it; and 992, which added to the
minimum wraps to 0 and moves 160 lamports the other way.

In `level3` one of the two vaults may be the fee recipient of both, with a fee near
the limit of u64, so that reading a vault as a pool, tipping it to an overflow and
emptying the recipient all occur; a recipient outside the program's accounts could not
be named as a vault. In `level4` the wallet of one user, the token account and the mint
may be handed to another program, the wallet of the other user may not.

In `banking_stage` the transactions are chosen so that two of them conflict with
the third, one is not loadable any more after another has run in the second
block, and results name everything they were computed from. The block limit does not
hold all three, the vote limit not both votes, the account data of the first block not
both allocations, and in the second block nothing is left for one of them; one estimate
is too high and one too low. One thread receives more than its buffer holds. One
transaction is too old for a retry after the first slot and too old to be executed
after the second. In
`bank_forks` the limits of 300 cached roots and 150 blocks of age are both 1, in
`remote_environment` 1 and 0: with four slots, statuses are then purged and
blockhashes expire while forks are still open. `BankForksProofs` does not depend on the values.

*Deadlock* is checked in `spl_token`, `level4`, `local_environment` and
`deploy_program`. In `wallets` and `level3` the payer may spend everything and no
transaction can begin any more; in `banking_stage`, `bank_forks` and
`remote_environment` slots and transactions are bounded and run out.

*Fairness.* Most properties are safety properties and need none.
`LocalEnvironment` is fair to the loop inside `build` and `advance_blockhash`:
it is straight-line code of one thread. `DeployProgram` is weakly fair to each
caller's next step (calls are blocking, with no lock between callers); stopping
and restarting are not fair. `BankingStage` is weakly fair to every thread (a
thread in a batch never waits for anything but the steps of others that the model
shows), to PoH, whose ticks come by time, and to the replay stage; packets need
not arrive. `RemoteEnvironment` is weakly fair to the polling client and strongly
fair to the timeout of its second loop, which is measured on a clock and is
due although a poll may be in progress whenever one looks; nothing is assumed of
the network, the service or the cluster.

### What the properties say about use

- `level2` keeps the minimum in the program's wallets, but a wrapped sum lets it pass
  from one wallet to another (`MinimumKept`); the emptied wallet closes
  (`AddressLifecycle`).
- A program address that receives lamports before `initialize` can never be
  initialised and keeps them (`AddressLifecycle`).
- A `level0` vault that is emptied never belongs to the program again; what is
  deposited afterwards stays there (`EmptiedVaultIsClosed`).
- A tip pool can always be paid out, unless the amount is too small to bring the
  account of the authority into existence (`Payable`) or its vault is the fee
  recipient of some vault. An account of the program must therefore not be made a fee
  recipient.
- Token savings are safe in a wallet that was not handed to a program other than the
  token program (`WalletsInCustody`, `SavingsLeaveByOwner`), and can be withdrawn
  unless the mint's freeze authority has frozen one of the two accounts
  (`Withdrawable` of `Level4`).
- Repeating a call of a `LocalEnvironment` with the same arguments repeats the
  same message, which is refused once it was executed, also if it failed
  (`OneExecution`).
- Callers of `deploy_program` with different payers never write to one account; with
  the same payer they may, the same bytes (`OnePayerWrites`).
- A packet leaves the buffer of the leader without being in a block only for one of
  the reasons `NoTransactionLost` lists.
- A call of a `RemoteEnvironment` that reports success is final
  (`OkIsConfirmed`). One that reports that the transaction expired is not: the
  client judges by the fork it sees, and the transaction may land on another.
- A call returns once its blockhash has become too old for the validator's
  processed bank, and not necessarily before: there is no other limit
  (`CallReturns`).
- What the retry service drops as rooted or as expired cannot land any more
  (`DroppedIsSettled`). It also drops a transaction that failed on the working bank
  (`send_transaction_service.rs:663`) or used up its retries (`:624`), and one it has
  no room for; these may still land, on another fork or from an earlier packet. Airdrops are excepted: they have no preflight, and a
  blockhash unknown to the bank counts as expired at once (`unwrap_or(0)`,
  `rpc.rs:3547`).

### Divergences from the documentation

- `advance_blockhash`, "Advance the bank to the next blockhash." (`lib.rs:368`):
  with all features active a slot has one block boundary, which `build()` has
  passed; a later call never returns.
- `deploy_program`, "Executes a transaction deploying a program from a file if it
  does not already exist." (`lib.rs:303`): an account that another caller, or an
  earlier attempt that stopped, has created but not finalised is taken for the
  program.
- `airdrop`, "Airdrop lamports up to the given balance to the account."
  (`lib.rs:822`): it requests the whole amount rather than what is missing.

Two comments in the vendored code are stronger than what the code does, without
consequence for the properties above. `register_tick` (`bank.rs:3842`) asks for
all updates of the slot to be committed before the last tick; a recorded batch
may still be stored after it, and it is the freeze lock that makes the freeze
wait (`FrozenIsFinal`). `confirm_transaction_with_spinner`
(`nonblocking/rpc_client.rs:1209`) says that failed transactions are eliminated before its
second loop; a transaction that succeeded on an abandoned fork may have failed on
the confirmed one, which is why `OkIsConfirmed` speaks of being processed and not
of success.

## 4. Proofs

| Module | Theorems | Statement |
|---|---|---|
| `WalletProofs` (`level1`) | `Level1Structure`, `Level1Conserves` | `[]WalletStructure`, `[]Conservation` |
| | `Level1Lifecycle` | `AddressLifecycle` |
| `WalletProofs` (`level2`) | `Level2Structure`, `Level2Conserves`, `Level2Withdrawable` | `[]WalletStructure`, `[]Conservation`, `[]Withdrawable` |
| | `Level2KeepsMinimum`, `Level2Lifecycle` | `MinimumKept`, `AddressLifecycle` |
| `WalletProofs` (`level0`) | `Level0Structure`, `Level0Conserves`, `Level0Withdrawable` | `[]VaultStructure`, `[]Conservation`, `[]VaultWithdrawable` |
| | `Level0Lifecycle`, `Level0VaultStaysClosed` | every step satisfies `AddressesKept`, `ClosedVaultStays` |
| `WalletProofs` (`SavingsWallets`) | `WalletsStructured`, `WalletsConserve`, `WalletsWithdrawable` | `[]WalletStructure`, `[]Conservation`, `[]Withdrawable` |
| | `WalletsVaultClosed` | `EmptiedVaultIsClosed` |
| | `WalletsKeepMinimum`, `WalletsLifecycle` | `MinimumKept`, `AddressLifecycle` |
| `Level3Proofs` | `Solvent`, `AlwaysPayable`, `AlwaysRentExempt`, `LamportsConserved` | `[]Solvency`, `[]Payable`, `[]RentExempt`, `[]Conservation` |
| | `TermsFixed` | `PoolTermsFixed` |
| | `VaultsExist`, `TypeCorrect` | `[]PoolsHaveVaults`, `[]TypeOK` |
| `SplTokenProofs` | `WrappedLamportsBacked`, `SupplyIsSum`, `DelegationsBounded` | `[]NativeBacked`, `[]Supply`, `[]DelegationBound` |
| | `SupplyStaysFixed`, `FrozenStayUntouched` | `FixedSupply`, `FrozenUntouched` |
| | `TokenLamportsConserved` | `[]Conservation` |
| `Level4Proofs` | `CustodyIsKept`, `SavingsNeedTheOwner`, `AlwaysWithdrawable` | `WalletsInCustody`, `SavingsLeaveByOwner`, `[]Withdrawable` |
| | `WalletsKeepSupply`, `WalletsBoundDelegation`, `WalletsKeepSupplyFixed`, `WalletsLeaveFrozen` | `[]Supply`, `[]DelegationBound`, `FixedSupply`, `FrozenUntouched`, of the token program called by the wallet program |
| | `WalletsConserveLamports` | `[]Conservation` |
| `BankingStageProofs` | `LocksAlwaysHeld`, `CostsAlwaysExact` | `[]LocksHeld`, `[]CostExact` |
| | `FrozenStaysFinal`, `NothingIsLost` | `FrozenIsFinal`, `NoTransactionLost` |
| | `BlocksAlwaysReplay` | `BlocksReplay`, the refinement of `BlockLedger` |
| `BankForksProofs` (forks) | `AlwaysProcessedOnce`, `AlwaysLookupExact`, `DeltasAlwaysCached` | `[]ProcessedOnce`, `[]LookupExact`, `[]DeltasCached` |
| `BankForksProofs` (`RemoteEnvironment`) | `OkStaysConfirmed`, `DroppedStaysSettled` | `[]OkIsConfirmed`, `DroppedIsSettled` |
| `BankForksProofs` (`DeployProgram`) | `ExecutableIsComplete`, `WritersSharePayer` | `[]ExecutableComplete`, `[]OnePayerWrites` |
| `BankForksProofs` (`LocalEnvironment`) | `AtMostOneExecution` | `[]OneExecution` |

Each is of the form `Spec => ...` for the specification the runs use. The
`wallets` run uses `WalletsSpec`; the theorems on single contracts, of which those on
`WalletsSpec` are put together, are about the contracts' own specifications.

Assumptions are the named `ASSUME`s of the modules, which TLC evaluates in the
runs. Accounts: addresses of users, of program accounts and of key-pair accounts
are disjoint; the keys are finitely many; genesis holds plain system accounts that
are not short of rent, and their sum, the capitalization of the bank, fits a u64 (for
`level2`, together with the minimum of one wallet: `SupplyAssumption`).
The program's accounts may have any fee recipients, and any accounts may be entrusted.
Blocks: threads and transactions are finitely many. Forks:
`MAX_PROCESSING_AGE <= MAX_RECENT_BLOCKHASHES`. Everything else is arbitrary:
users, amounts, fees, rent rate, the width of u64; officers, delegates and signer
lists; what transactions lock, compute, allocate and cost, their priorities and ages,
cost limits, sizes of batches and buffers; the limits
on ages and roots, the number of slots, calls, callers and chunks.

**Sums.** Lamports, token supplies and block costs are sums over finite sets
(`SumFunctionOnSet` of the community modules). `SumTheorems` proves what is needed
of them: a sum is a natural number, depends only on the values on its set, and
changes with one or two of them in the obvious way; sums over disjoint sets add up.
The definition is recursive, and the library's induction theorems cannot be
instantiated here; `SumTheorems` uses well-foundedness instead, in a form without
operator parameters (a set of numbers that contains 0 and is closed under successor
contains every number), on the set of sizes for which a statement holds.

**The bank.** `BankProofs` deals with `Begin`, `Commit` and `Fail` once, for every
program. `BankInv`: types, the payer of an open transaction passed
`validate_fee_payer`, no stored account is rent-paying. `Accounted`: the stored
balances and collected fees are those of genesis, and so are the balances of the
working copy with the fee of the open transaction. The runtime compares sums over
the accounts of one instruction (`Balanced`); that the sum over all keys stays
follows from the theorems on sums, purging of empty accounts included.

**The wallets.** Levels 1 and 2 are first shown to take steps of one form,
`WalletStep(keep)`, where `keep` says whether a withdrawal compares with the minimum.
`SavingsInv` adds to `BankInv` that every account, stored or loaded, is plain
or a complete wallet of its address (`Shaped`), that stored wallets hold their
minimum (`MinimumIn`), and that the loaded copy
still agrees with what is stored about wallets and early deposits (`Follows`), which
is what a commit needs. `PairInv` is the same for level 0 with its vaults
(`Paired`, `StaysClosed`). `WalletsInv` is, of the three invariants, the one of the
deployed program with `Accounted`; since the program does not change, a step keeps
it because it is a step of that program. For `MinimumKept` a withdrawal is one of two:
if the sum does not wrap, the minimum stays; if it wraps, the amount is so large
(`SupplyAssumption`: larger than all lamports there are) that adding it to the
destination wraps too, the destination is debited, and the verification of accounts
allows this only to the program that owns it, so it is a wallet, and what it loses the
first wallet receives.

**The tip program.** What the pools of a vault are owed is written as the number
of elements of a set of unit claims, `Claims(l, v)`, rather than as a recursive
sum; a tip adds an interval of claims and a withdrawal removes one, and the
theorems on finite sets give the change of the cardinality. `Solvency` is not
inductive alone. The inductive invariant `IInv` adds

- `BankInv`: types, the payer of an open transaction passed `validate_fee_payer`,
  no stored account is rent-paying (needed for `Commit` and for the fee);
- `LedgerInv` of both the stored accounts and the working copy: users are plain
  (`UsersPlain`), an address of the program is plain or an account of the program
  (`HoldersShaped`), a vault that is named and nobody's fee recipient exists
  (`NamesOwned`), and solvency. That an account of the program is not plain is what
  makes a transfer from it, or its second creation, fail;
- `AllTermsKept(accounts, work)`: the open transaction has not changed the keys in
  a stored pool or vault, so that committing it does not either.

Each instruction has a lemma that it keeps `LedgerInv` and the terms on a single
ledger; `Begin`, `Commit` and `Fail` are dealt with once, in `BankProofs`, for
any program. Purging does not touch an account that is nobody's fee recipient because
solvency and rent exemption keep its balance positive.
`Payable` needs `Accounted` besides: the lamports a withdrawal adds to the
authority's account do not overflow, because they are part of the capitalization.

**The token program and the token wallet.** Every instruction has lemmas on the
ledger it finds and the ledger it leaves. `TokenInv` has `LedgerInv` of the stored and
the loaded accounts: types, `Sound` (accounts of other programs are plain;
initialised ones hold their rent-exempt minimum, native ones their reserve and the
tokens, and are never frozen; a delegation was given by the present owner, and what
was drawn and what is left are what was granted), `MintsExist` (the mint of an
account exists) and the supply. The minimum is why an initialised account is not
dropped with its tokens when a transaction is committed. `Level4Inv` adds `Custody`:
wallets outside `Entrusted` that are token accounts belong to `Authority`, without
delegate or close authority, and `Authority` itself is no multisignature account. From
it follows what no instruction of a user to the token program can do (`Undisturbed`):
`Authority` signs only for the wallet program and the programs that it calls, and these
change no account they were not handed. The properties of the token program itself
(`Supply` and the others) survive other programs too, because each of their calls is
one of its own instructions. `AlwaysWithdrawable` then needs the supply: a balance
added to another of the same mint is at most the supply, which is a u64.

`TokenLamportsConserved` needs no more than the types of `TokenInv`: most instructions
write data alone, `process_transfer` and `process_close_account` move lamports whose
sum is checked for overflow, and the system program's two instructions were dealt with
in `BankProofs` (`BalancedInstruction`). `Accounted` does the rest.

**The banking stage.** The invariant says where a thread may be and what it then
holds: `Chain` (the banks form a chain with one newest), `Stages` (a thread's
sets are nested as its position demands, and one that is between recording and
noting works for a bank that is not frozen), `LocksHeld`, `Noted` (what
is recorded in a block is in the status cache, but for batches on their way), `Fresh`
(what a thread has checked and not yet recorded has not been processed by anyone
else, because the locks kept everyone else away), `Young` (it was young enough when the
bank was open) and `UpToDate` (what it loaded is still what
the abstract ledger holds for the accounts it has locked, if its bank is still the
open one). `UpToDate` is the heart: it makes the result computed before the
recording equal to the result of replaying the entry at its place in the block.
With it, a successful `RecordTransactions` is a step `AppendEntry` of
`BlockLedger`, the last tick is `Seal`, `StartLeader` is `NextBlock`, and all
other steps leave the abstract ledger as it is; storing is invisible because the
mapping already counts recorded results.

`CostExact` speaks of two sums: the actual costs of what has been recorded and
settled, and the estimates of the batches on their way. `CostInv` adds `Commits`: what
a thread has committed and not settled is in the block of its bank, belongs to it
alone, and is nothing before it has recorded. `SelectTransactions` adds a batch to
the second sum, `RecordTransactions` moves its transactions into the block, unsettled,
and `SettleCosts` replaces the estimate by the actual cost of what was committed and
removes the rest; on every other step both sums stay (`CostQuiet`). That the
transactions a thread commits are not in the block already is `Fresh`, from the first
invariant. The counters are subtracted with saturation in the code; `CostExact` shows
that it never saturates. `NothingIsLost` follows from `Commits` and `Noted`; for a full
buffer it needs no more than the definition of what is dropped.

**The forks.** A bank that checks a transaction looks among its ancestors since
the root it was made under and among the roots that are still cached. The
invariant relates heights to histories: `Heights` (block heights grow along a
fork, so they bound the number of banks between two banks), `Hashes` (a
transaction names a blockhash registered before it was executed), `Kept` and
`Covered` (the newest roots include every bank on the path to the root that is
less than that many blocks below it, and its statuses are cached), `Statuses`
(nothing is cached that was not executed). A transaction that is young enough to
be accepted was thus executed either above the root, among the ancestors, or near
it, among the cached roots: the lookup is exact, and nothing is processed twice.
This is the place where `MAX_PROCESSING_AGE <= MAX_RECENT_BLOCKHASHES` is used.

**Calls on the forks.** `RemoteInv` adds to the invariant of the forks that banks
know their history (`Histories`: a blockhash in some queue was registered by a bank
that is still there), that what the service holds has been signed and carries the
last block height of its blockhash (`Dated`), and that what it has given up is over
(`Over`: on the rooted chain, or beyond that height at the root). Every ledger step
of this model only adds to the history (`Grows`), so `Over` stays; and a bank above
the root neither accepts a blockhash that is too old at the root nor a transaction
among the rooted ones. `OkStaysConfirmed` needs that a confirmed bank is frozen and
never abandoned.

**Deployment and the local environment.** `DeployInv`: the create transactions that
have landed have one payer; who writes has sent one of them and every chunk before its
next one is written; a repeated write is one of a chunk that is there. `LocalInv`: the
only blockhash transactions are built on is the one of the first block boundary, which
the tick height has passed, and a body was executed once if its transaction has a
status, else never.

*Only model-checked:* the liveness properties `SlotEnds`, `CallReturns`,
`BuildReturns` and `CallEnds` (fairness is out of the prover's reach). Every safety
property of the passing runs is proved. The three violated properties are shown by
TLC's counterexamples.

## 5. What is not modelled

The vendored Solana tree is more than 400 000 lines, of which the programs and
the framework touch a small part. The models cover that part and what it rests
on; the share of the whole tree they cover is about two in a hundred lines, and
mapping more of it would mean modelling subsystems that nothing here depends on.

- *Transaction execution:* stakes, votes and rewards, sysvars other than the
  blockhash, the account changes made by freezing a bank (rent and fees), durable
  nonces, address lookup tables, loading and running BPF code (the handlers are
  modelled instead), executable and read-only accounts.
- *Banking stage:* forwarding, packets that do not convert to transactions, the exit of
  a validator, ticks before the last of a slot.
- *Forks:* fork choice, tower and repair decide which of the modelled steps is
  taken; every choice is allowed. Snapshots, and a restart from one.
- *Clients:* RPC methods the framework does not call, history lookups, subscriptions;
  purged duplicate slots as seen by a client; two airdrops to one account at a time.
- *Framework:* printing and encoding of results; helpers that only build
  transactions of the modelled programs.
- *Scripts:* the set-up scripts are straight sequences of modelled calls, run by hand
  against a fresh node; the balances below which they ask for an airdrop are left
  out. Scripts and binaries that demonstrate attacks are out
  of scope.
- *Refinements not attempted:* replay of a block in parallel (entries without
  conflicts at once), which would implement `BlockLedger` too; the block with several
  transactions as an implementation of `Bank`, which would need the programs' results
  in place of the arbitrary `Outcome`.
