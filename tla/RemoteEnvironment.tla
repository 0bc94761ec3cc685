------------------------- MODULE RemoteEnvironment -------------------------
(***************************************************************************)
(* The poc framework's RemoteEnvironment (solana-poc-framework/src/lib.rs) *)
(* and what stands between one of its calls and the ledger:                *)
(*                                                                         *)
(*   - the RPC client that sends a transaction and polls for its status    *)
(*     (client/src/nonblocking/rpc_client.rs);                             *)
(*   - the RPC handlers of the validator (rpc/src/rpc.rs), which answer    *)
(*     from the bank it last voted on and from the confirmed bank;         *)
(*   - the service that sends the transaction to the leaders and sends it  *)
(*     again until it is rooted or too old (send_transaction_service.rs);  *)
(*   - a network that loses and repeats packets, and the forks of          *)
(*     BankForks, on which a transaction may land, be abandoned, and land  *)
(*     again with another outcome.                                         *)
(*                                                                         *)
(* The framework's clients read at commitment `confirmed' (lib.rs,         *)
(* devnet_client and its siblings).  Consensus is outside: it decides what *)
(* is voted for and confirmed, and a confirmed bank is never abandoned.    *)
(***************************************************************************)
EXTENDS BankForks

CONSTANTS
    Start,                            \* balance of the account before them
    Lamports,                         \* the argument of airdrop()
    MAX_TRANSACTION_QUEUE_SIZE,       \* 10000: retry queue of the service
    MAX_TRANSACTION_FORWARDING_DELAY  \* 6: ages a preflight leaves unused

ASSUME RemoteAssumption == MAX_TRANSACTION_FORWARDING_DELAY \in Nat

VARIABLES
    voted,      \* slot of the validator's last vote
    heaviest,   \* BlockCommitmentCache: the slot read at `processed'
    confirmed,  \* OptimisticallyConfirmedBank: the slot read at `confirmed'
    airdrops,   \* the transactions of airdrop(); execute_transaction sends the
                \* others
    call,       \* transaction -> where the client's call about it stands
    batch,      \* received by the service, not sent yet
    retry,      \* the service's retry_transactions
    lastValid,  \* transaction -> last_valid_block_height of its entry
    packets,    \* sent to leaders, not lost: in flight or in their buffers
    settled     \* history: dropped from `retry' as rooted or expired

consensusVars == <<voted, heaviest, confirmed>>
serviceVars == <<batch, retry, lastValid, packets, settled>>
remoteVars == <<consensusVars, airdrops, call, serviceVars>>
vars == <<forkVars, remoteVars>>

\* The states of a call: airdrop() starts in "idle" with the balance check.
InCall == {"hashing", "signed", "polling", "seen", "seenErr", "unseen",
           "landed", "landedSeen"}
Returned == {"ok", "failed", "expired", "error"}

(***************************************************************************)
(* The validator                                                           *)
(***************************************************************************)

\* handle_votable_bank: votes are for ever later slots.
Vote(s) ==
    /\ s \in forks
    /\ s > voted
    /\ bank[s].frozen
    /\ voted' = s

\* The vote roots nothing ...
VoteOnly(s) ==
    /\ Vote(s)
    /\ UNCHANGED <<forkVars, airdrops, heaviest, confirmed, call, serviceVars>>

\* ... or roots a bank of its fork, never one that abandons a confirmed bank.
VoteAndRoot(s, r) ==
    /\ Vote(s)
    /\ r \in bank[s].lineage
    /\ confirmed \in bank[r].lineage \/ r \in bank[confirmed].lineage
    /\ SetRoot(r)
    /\ UNCHANGED <<airdrops, heaviest, confirmed, call, serviceVars>>

\* AggregateCommitmentService takes up the latest vote.
UpdateCommitmentCache ==
    /\ heaviest # voted
    /\ heaviest' = voted
    /\ UNCHANGED <<forkVars, airdrops, voted, confirmed, call, serviceVars>>

\* process_notification: OptimisticallyConfirmed, and Root
Confirm(s) ==
    /\ s \in forks
    /\ s > confirmed
    /\ bank[s].frozen
    /\ confirmed \in bank[s].lineage
    /\ confirmed' = s
    /\ UNCHANGED <<forkVars, airdrops, voted, heaviest, call, serviceVars>>

\* JsonRpcRequestProcessor::bank at `processed'
ProcessedBank == IF heaviest \in forks THEN heaviest ELSE root

(***************************************************************************)
(* The send-transaction service                                            *)
(***************************************************************************)

\* receive_txn_thread: send the batch, keep for retry what there is room for.
\* The queue is shared with other callers, whose transactions may fill it.
SendBatch ==
    /\ batch # {}
    /\ packets' = packets \cup batch
    /\ \E kept \in SUBSET batch :
          /\ Cardinality(retry \cup kept) <= MAX_TRANSACTION_QUEUE_SIZE
          /\ retry' = retry \cup kept
    /\ batch' = {}
    /\ UNCHANGED <<forkVars, airdrops, consensusVars, call, lastValid,
                   settled>>

Rooted(t) == Status(root, t) # {}

\* Variant: an entry is too old as soon as the working bank has passed it.
Expired_AtWorkingBank(t) == lastValid[t] <= bank[Max(forks)].block_height

Expired(t) == lastValid[t] < bank[root].block_height

\* process_transactions: one pass of the retry thread; `again' are the
\* unknown transactions whose retry interval has passed.
RetryPass ==
    /\ retry # {}
    /\ LET working == Max(forks)
           over    == {t \in retry : Rooted(t) \/ Expired(t)}
           unknown == {t \in retry \ over : Status(working, t) = {}}
           failed  == {t \in retry \ over :
                          \E f \in Status(working, t) : t \in bank[f].failed}
       IN  /\ retry' = retry \ (over \cup failed)
           /\ settled' = settled \cup over
           /\ \E again \in SUBSET unknown : packets' = packets \cup again
    /\ <<retry, packets>>' # <<retry, packets>>
    /\ UNCHANGED <<forkVars, airdrops, consensusVars, call, batch, lastValid>>

Lose(t) ==
    /\ t \in packets
    /\ packets' = packets \ {t}
    /\ UNCHANGED <<forkVars, airdrops, consensusVars, call, batch, retry,
                   lastValid, settled>>

(***************************************************************************)
(* The client                                                              *)
(***************************************************************************)

Goto(t, from, to) ==
    /\ call[t] = from
    /\ call' = [call EXCEPT ![t] = to]

\* Lamports the account has on the fork of a bank.
Balance(s) ==
    Start + Lamports * Cardinality({t \in airdrops :
        \E a \in bank[s].lineage : t \in bank[a].done \ bank[a].failed})

\* airdrop(): nothing is asked for when the confirmed balance is enough.
CheckBalance(t) ==
    /\ t \in airdrops
    /\ Goto(t, "idle", IF Balance(confirmed) < Lamports THEN "hashing"
                                                        ELSE "ok")
    /\ UNCHANGED <<forkVars, airdrops, consensusVars, serviceVars>>

GetLatestBlockhash(t) ==
    /\ Goto(t, IF t \in airdrops THEN "hashing" ELSE "idle", "signed")
    /\ Sign(t, confirmed)
    /\ UNCHANGED <<airdrops, consensusVars, serviceVars>>

\* sendTransaction: the preflight runs on the confirmed bank.
Preflight(t) ==
    /\ IsHashValidForAge(confirmed, recent[t],
           MAX_PROCESSING_AGE - MAX_TRANSACTION_FORWARDING_DELAY)
    /\ Status(confirmed, t) = {}

\* sendTransaction after its preflight, requestAirdrop without one
Send(t) ==
    /\ Goto(t, "signed", "polling")
    /\ t \in airdrops \/ Preflight(t)
    /\ batch' = batch \cup {t}
    /\ lastValid' = [lastValid EXCEPT ![t] =
                        LastValidBlockHeight(confirmed, recent[t])]
    /\ UNCHANGED <<forkVars, airdrops, consensusVars, retry, packets, settled>>

Refused(t) ==
    /\ Goto(t, "signed", "error")
    /\ t \notin airdrops
    /\ ~Preflight(t)
    /\ UNCHANGED <<forkVars, airdrops, consensusVars, serviceVars>>

\* getSignatureStatuses looks on the processed bank first.  A status found
\* there ends the first loop of confirm_transaction_with_spinner (airdrops).
GetStatus(t) ==
    /\ call[t] \in {"polling", "landed"}
    /\ LET found == Status(ProcessedBank, t)
       IN  \/ /\ found = {}
              /\ \/ Goto(t, "polling", "unseen")
                 \/ Goto(t, "landed", "landed")
           \/ \E f \in found :
                 LET err == t \in bank[f].failed
                 IN  \/ /\ t \notin airdrops
                        /\ Goto(t, "polling",
                                IF err THEN "seenErr" ELSE "seen")
                     \/ /\ t \in airdrops
                        /\ Goto(t, "polling",
                                IF err THEN "failed" ELSE "landed")
                     \/ Goto(t, "landed", "landedSeen")
    /\ UNCHANGED <<forkVars, airdrops, consensusVars, serviceVars>>

\* Variant: a status on the processed bank is taken for a confirmed one.
KnownConfirmed_Always(t) == TRUE

KnownConfirmed(t) == Status(confirmed, t) # {}

\* ... and then whether the confirmed bank knows the signature.
GetConfirmation(t) ==
    /\ call[t] \in {"seen", "seenErr", "landedSeen"}
    /\ \/ /\ KnownConfirmed(t)
          /\ \/ Goto(t, "seen", "ok")
             \/ Goto(t, "seenErr", "failed")
             \/ Goto(t, "landedSeen", "ok")
       \/ /\ ~KnownConfirmed(t)
          /\ \/ Goto(t, "seen", "unseen")
             \/ Goto(t, "seenErr", "unseen")
             \/ Goto(t, "landedSeen", "landed")
    /\ UNCHANGED <<forkVars, airdrops, consensusVars, serviceVars>>

\* Variant: the poll is repeated whatever became of the blockhash.
CheckBlockhash_Forever(t) ==
    /\ Goto(t, "unseen", "polling")
    /\ UNCHANGED <<forkVars, airdrops, consensusVars, serviceVars>>

\* No status at the wanted commitment: poll on while the processed bank still
\* knows the blockhash.
CheckBlockhash(t) ==
    /\ Goto(t, "unseen", IF IsBlockhashValid(ProcessedBank, recent[t])
                         THEN "polling" ELSE "expired")
    /\ UNCHANGED <<forkVars, airdrops, consensusVars, serviceVars>>

\* The second loop of confirm_transaction_with_spinner gives up after
\* MAX_HASH_AGE_IN_SECONDS.
NotFinalized(t) ==
    /\ Goto(t, "landed", "error")
    /\ UNCHANGED <<forkVars, airdrops, consensusVars, serviceVars>>

\* A request fails (transport, an unhealthy node, a simulation that fails).
RpcError(t) ==
    /\ call[t] \in InCall
    /\ Goto(t, call[t], "error")
    /\ UNCHANGED <<forkVars, airdrops, consensusVars, serviceVars>>

ClientStep(t) ==
    \/ CheckBalance(t)
    \/ GetLatestBlockhash(t)
    \/ Send(t)
    \/ Refused(t)
    \/ GetStatus(t)
    \/ GetConfirmation(t)
    \/ CheckBlockhash(t)

(***************************************************************************)
(* The specification                                                       *)
(***************************************************************************)

Init ==
    /\ ForksInit
    /\ voted = 0
    /\ heaviest = 0
    /\ confirmed = 0
    /\ airdrops \in SUBSET Txs
    /\ call = [t \in Txs |-> "idle"]
    /\ batch = {}
    /\ retry = {}
    /\ lastValid = [t \in Txs |-> 0]
    /\ packets = {}
    /\ settled = {}

LedgerStep ==
    \/ \E p \in forks, s \in Slots : NewBank(p, s)
    \/ \E s \in forks, t \in packets, o \in Outcomes : Execute(s, t, o)
    \/ \E s \in forks : Freeze(s)

Next ==
    \/ LedgerStep /\ UNCHANGED remoteVars
    \/ \E s \in forks : VoteOnly(s)
    \/ \E s, r \in forks : VoteAndRoot(s, r)
    \/ UpdateCommitmentCache
    \/ \E s \in forks : Confirm(s)
    \/ SendBatch
    \/ RetryPass
    \/ \E t \in Txs : Lose(t)
    \/ \E t \in Txs : ClientStep(t) \/ NotFinalized(t) \/ RpcError(t)

Spec == Init /\ [][Next]_vars

\* The client keeps polling, and time runs out in the loop that is timed.
\* What a step of the client changes always includes its call.
FairSpec ==
    /\ Spec
    /\ \A t \in Txs : WF_call(ClientStep(t)) /\ SF_call(NotFinalized(t))

(***************************************************************************)
(* Properties                                                              *)
(***************************************************************************)

\* When a call returns success, the transaction has been processed with the
\* commitment asked for, and stays so (send_and_confirm_transaction): it is
\* part of the confirmed fork whatever forks were abandoned meanwhile.
OkIsConfirmed ==
    \A t \in Txs :
        call[t] = "ok" /\ recent[t] # None
            => ExecutedIn(confirmed, t) \cup ExecutedIn(root, t) # {}

\* Once the service drops a transaction that passed its preflight as rooted or
\* expired, no bank the validator keeps executes it any more
\* (process_transactions).  These two drops abandon nothing that could still
\* land; a transaction dropped as failed on the working bank, or after its
\* maximum of retries, may still land.
DroppedIsSettled ==
    [][\A t \in settled \ airdrops : \A s \in forks \cap DOMAIN bank' :
           t \in bank'[s].done => t \in bank[s].done]_vars

\* A call whose blockhash the processed bank has left behind for good comes to
\* an end (send_and_confirm_transaction, confirm_transaction_with_spinner),
\* also when every packet was lost.
CallReturns ==
    \A t \in Txs :
        <>[](recent[t] # None /\ ~IsBlockhashValid(ProcessedBank, recent[t]))
            => <>[](call[t] \in Returned)

\* lib.rs, airdrop: "Airdrop lamports up to the given balance to the account."
AirdropUpTo == Balance(confirmed) <= Max({Start, Lamports})

=============================================================================
