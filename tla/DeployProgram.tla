--------------------------- MODULE DeployProgram ----------------------------
(***************************************************************************)
(* deploy_program of the poc-framework, on a cluster that several callers  *)
(* share.  The address of the program is derived from the contents of the  *)
(* file, so that callers who deploy the same file work on the same         *)
(* account: each looks for the account and, if there is none, creates it,  *)
(* writes the file into it chunk by chunk and finalises it, one            *)
(* transaction each.                                                       *)
(*                                                                         *)
(* A transaction is its payer, its blockhash and its instruction: callers  *)
(* with the same payer who got the same blockhash build and sign the same  *)
(* transaction.  The cluster executes it once, and                         *)
(* send_and_confirm_transaction, which asks for the status of the          *)
(* signature, tells both that it succeeded.  (The second caller may also   *)
(* be refused before that, AlreadyProcessed: it then panics, as Stop.)     *)
(*                                                                         *)
(* The cluster keeps the account when a caller stops.  A caller stops when *)
(* one of its transactions fails (assert_success, and the panic of the     *)
(* RemoteEnvironment) or because its process ends, after a transaction or  *)
(* before the next; it may be started again from the beginning.            *)
(***************************************************************************)
EXTENDS Integers

CONSTANTS Callers,      \* processes that deploy the same file
          PayerOf,      \* the payer of each caller's environment
          Blockhashes,  \* what get_latest_blockhash may answer
          Chunks        \* chunks of 900 bytes the file has

ASSUME ChunksAssumption == Chunks \in Nat

VARIABLES exists,      \* the program account is there, owned by the loader
          written,     \* the chunks it holds; the others are still zero
          executable,  \* the account is final
          landed,      \* transactions that were executed and succeeded
          pc,          \* where each caller is in deploy_program
          next         \* the chunk each caller writes next (offset / 900)

deployVars == <<exists, written, executable, landed, pc, next>>

DeployInit ==
    /\ exists = FALSE
    /\ written = {}
    /\ executable = FALSE
    /\ landed = {}
    /\ pc = [c \in Callers |-> "start"]
    /\ next = [c \in Callers |-> 0]

Reach(c, label) == pc' = [pc EXCEPT ![c] = label]

-----------------------------------------------------------------------------
(* The transaction of caller c with blockhash h and instruction ix: the    *)
(* number of a chunk to write, -1 to create the account, Chunks to         *)
(* finalise it.                                                            *)
Transaction(c, h, ix) == [payer |-> PayerOf[c], blockhash |-> h, instruction |-> ix]

Create == -1

(* The transaction is executed now, and succeeds. *)
Lands(tx) ==
    /\ tx \notin landed
    /\ landed' = landed \cup {tx}

(* It is one that was executed before: Ok, and nothing happens. *)
Repeated(tx) ==
    /\ tx \in landed
    /\ UNCHANGED <<exists, written, executable, landed>>

(* It is executed now and fails: the caller panics. *)
Rejected(c, tx) ==
    /\ tx \notin landed
    /\ Reach(c, "panicked")
    /\ UNCHANGED <<exists, written, executable, landed, next>>

-----------------------------------------------------------------------------
(* get_account: the answer is used in later steps. *)
GetAccount(c) ==
    /\ pc[c] = "start"
    /\ Reach(c, IF exists THEN "returned" ELSE "create")
    /\ UNCHANGED <<exists, written, executable, landed, next>>

(* The loop is entered. *)
StartWriting(c) ==
    /\ next' = [next EXCEPT ![c] = 0]
    /\ Reach(c, "write")

CreateAccount_InUse(c, h) ==
    /\ pc[c] = "create"
    /\ exists' = TRUE
    /\ Lands(Transaction(c, h, Create))
    /\ UNCHANGED <<written, executable>>
    /\ StartWriting(c)

(* The create_account transaction fails when the account is in use. *)
CreateAccount(c, h) ==
    LET tx == Transaction(c, h, Create) IN
    /\ pc[c] = "create"
    /\ \/ /\ ~exists
          /\ exists' = TRUE
          /\ Lands(tx)
          /\ UNCHANGED <<written, executable>>
          /\ StartWriting(c)
       \/ Repeated(tx) /\ StartWriting(c)
       \/ exists /\ Rejected(c, tx)

NextChunk(c) ==
    /\ next' = [next EXCEPT ![c] = @ + 1]
    /\ UNCHANGED pc

WriteChunk_SameOffset(c, h) ==
    /\ pc[c] = "write"
    /\ next[c] < Chunks
    /\ ~executable
    /\ written' = written \cup {next[c]}
    /\ UNCHANGED <<exists, executable, landed, pc, next>>

(* One turn of the write loop; a final account refuses the write           *)
(* (ExecutableDataModified).                                               *)
WriteChunk(c, h) ==
    LET tx == Transaction(c, h, next[c]) IN
    /\ pc[c] = "write"
    /\ next[c] < Chunks
    /\ \/ /\ ~executable
          /\ written' = written \cup {next[c]}
          /\ Lands(tx)
          /\ UNCHANGED <<exists, executable>>
          /\ NextChunk(c)
       \/ Repeated(tx) /\ NextChunk(c)
       \/ executable /\ Rejected(c, tx)

Finalize_LastChunk(c, h) ==
    /\ pc[c] = "write"
    /\ next[c] >= Chunks - 1
    /\ executable' = TRUE
    /\ Reach(c, "returned")
    /\ UNCHANGED <<exists, written, landed, next>>

(* After the loop; finalising a final account again changes nothing. *)
Finalize(c, h) ==
    LET tx == Transaction(c, h, Chunks) IN
    /\ pc[c] = "write"
    /\ next[c] = Chunks
    /\ \/ executable' = TRUE /\ Lands(tx) /\ UNCHANGED <<exists, written>>
       \/ Repeated(tx)
    /\ Reach(c, "returned")
    /\ UNCHANGED next

(* The process ends; transactions it has sent stay. *)
Stop(c) ==
    /\ pc[c] \notin {"returned", "panicked"}
    /\ Reach(c, "panicked")
    /\ UNCHANGED <<exists, written, executable, landed, next>>

(* The process is started again, or calls deploy_program again. *)
Restart(c) ==
    /\ pc[c] \in {"returned", "panicked"}
    /\ Reach(c, "start")
    /\ UNCHANGED <<exists, written, executable, landed, next>>

Sends(c, h) == CreateAccount(c, h) \/ WriteChunk(c, h) \/ Finalize(c, h)

CallerStep(c) == GetAccount(c) \/ \E h \in Blockhashes : Sends(c, h)

DeployNext == \E c \in Callers : CallerStep(c) \/ Stop(c) \/ Restart(c)

(* A caller inside deploy_program keeps running or stops. *)
DeploySpec ==
    /\ DeployInit
    /\ [][DeployNext]_deployVars
    /\ \A c \in Callers : WF_deployVars(CallerStep(c))

-----------------------------------------------------------------------------
(* Nothing unfinished is executable (create_account_with_data, then        *)
(* finalize): however callers overlap, stop and start again, an executable *)
(* account holds the whole file.                                           *)
ExecutableComplete == executable => written = 0..(Chunks - 1)

(* One payer writes (create_account fails on an account in use): however   *)
(* many callers found no account, those that go on to write sent the one   *)
(* create_account transaction that was executed, so that they all have the *)
(* same payer; callers with other payers have panicked.                    *)
OnePayerWrites ==
    \A c, d \in Callers : pc[c] = "write" /\ pc[d] = "write" => PayerOf[c] = PayerOf[d]

(* deploy_program ends: a caller inside it returns or panics, whatever the *)
(* other callers do.                                                       *)
CallEnds ==
    \A c \in Callers :
        (pc[c] \in {"create", "write"}) ~> (pc[c] \in {"returned", "panicked"})

(* "Executes a transaction deploying a program from a file if it does not  *)
(* already exist" (the documentation of deploy_program): when it has       *)
(* returned, the program is there to be called.                            *)
DeployedOnReturn == \A c \in Callers : pc[c] = "returned" => executable

=============================================================================
