----------------------------- MODULE InputGates -----------------------------
(***************************************************************************)
(* How a user's input reaches the plan that waits for it: the uploads of a *)
(* data set, a document or an image (control-runtime.ts) and the           *)
(* confirmation that binds an upload to the active plan (TaskWorkflow),    *)
(* with the reservations in control_commands both take first.              *)
(*                                                                         *)
(* A request is an HTTP call in some server process.  Each of its steps is *)
(* one transaction or one read, other requests come in between, and the    *)
(* process may die.  An upload that succeeds seals one Artifact, named     *)
(* after the request; the plan waits for one input role, which a           *)
(* confirmation fills with one uploaded Artifact.                          *)
(***************************************************************************)
EXTENDS Naturals, FiniteSets

CONSTANTS
    Uploads,      \* upload requests; each may seal the Artifact of its name
    Confirms,     \* confirmation requests
    UploadKeys,   \* Idempotency-Key values of uploads
    ConfirmKeys,  \* Idempotency-Key values of confirmations
    Files,        \* contents of uploads
    MaxVersion,   \* bound: the task is revised below this version
    NoOne         \* no Artifact, no token, no answer

ASSUME InputAssumption ==
    /\ Uploads \cap Confirms = {} /\ UploadKeys \cap ConfirmKeys = {}
    /\ NoOne \notin Uploads \cup Confirms \cup Files
    /\ MaxVersion \in Nat \ {0}

Requests == Uploads \cup Confirms
Keys     == UploadKeys \cup ConfirmKeys
Evidence == Uploads
Versions == 0 .. MaxVersion + 1
Plans    == 1 .. MaxVersion + 1

VARIABLES
    taskState, version, activePlan,  \* the task row
    command,      \* command[k]: the control_commands row of key k
    gate,         \* gate[p]: evidence_ref of the input gate recorded for plan p
    evidence,     \* evidence[e]: state of the Artifact e ...
    boundTo,      \* ... and the plan it was uploaded for
    req           \* req[r]: local state of request r

rowVars == <<taskState, version, activePlan>>
vars    == <<rowVars, command, gate, evidence, boundTo, req>>

\* The request that reserved a command stands for its reservation token: a
\* request reserves at most once.
NoCommand == [status |-> "none", hash |-> NoOne, token |-> NoOne, live |-> FALSE,
              answer |-> NoOne]
NoRequest == [pc |-> "idle", key |-> NoOne, hash |-> NoOne, version |-> 0,
              plan |-> 1, bound |-> FALSE, answer |-> NoOne]

InFlight == {"replay", "read", "prepare", "reserve", "wait", "work", "complete",
             "release", "lookup", "list", "invalidate"}
Over     == {"answered", "refused", "crashed"}

Init ==
    /\ taskState = "awaiting_confirmation" /\ version = 0 /\ activePlan = 1
    /\ command = [k \in Keys |-> NoCommand]
    /\ gate = [p \in Plans |-> NoOne]
    /\ evidence = [e \in Evidence |-> "none"]
    /\ boundTo = [e \in Evidence |-> 1]
    /\ req = [r \in Requests |-> NoRequest]

-----------------------------------------------------------------------------
Go(r, pc)       == req' = [req EXCEPT ![r].pc = pc]
Answer(r, a)    == req' = [req EXCEPT ![r].pc = "answered", ![r].answer = a]
OwnCommand(r)   == command[req[r].key]

\* The task still awaits confirmation of the plan and version r was sent for.
TaskFence(r) ==
    /\ taskState = "awaiting_confirmation"
    /\ version = req[r].version /\ activePlan = req[r].plan

\* The pending reservation is the one r took.
OwnReservation(r) ==
    /\ OwnCommand(r).status = "pending" /\ OwnCommand(r).token = r
    /\ OwnCommand(r).hash = req[r].hash

Same(r) == OwnCommand(r).hash = req[r].hash

\* What a confirmation answers: the gate it records and the version it makes.
Evid(r)     == IF r \in Uploads THEN r ELSE req[r].hash.input
AnswerOf(r) == IF r \in Uploads THEN r ELSE req[r].hash

\* Mutant of Sealed: the plan that the upload was made for is not compared.
SealedAnywhere(r) == evidence[Evid(r)] = "sealed"

\* The upload that r names is still SEALED, and bound to r's plan.
Sealed(r) == evidence[Evid(r)] = "sealed" /\ boundTo[Evid(r)] = req[r].plan

-----------------------------------------------------------------------------
(* Starting a request.                                                     *)

StartUpload(r, k, f) ==
    /\ req[r].pc = "idle" /\ taskState = "awaiting_confirmation"
    /\ req' = [req EXCEPT ![r] = [NoRequest EXCEPT !.pc = "reserve", !.key = k,
                 !.hash = [input |-> f, version |-> 0, plan |-> activePlan],
                 !.version = version, !.plan = activePlan]]
    /\ UNCHANGED <<rowVars, command, gate, evidence, boundTo>>

\* The client names an upload it was answered, and the plan and version it sees.
StartConfirm(r, k, e) ==
    /\ req[r].pc = "idle"
    /\ \E u \in Uploads : req[u].pc = "answered" /\ req[u].answer = e
    /\ req' = [req EXCEPT ![r] = [NoRequest EXCEPT !.pc = "replay", !.key = k,
                 !.hash = [input |-> e, version |-> version, plan |-> activePlan],
                 !.version = version, !.plan = activePlan, !.bound = TRUE]]
    /\ UNCHANGED <<rowVars, command, gate, evidence, boundTo>>

\* replay: a completed command is answered again, another request under the
\* same key is refused, and a pending one has no answer yet.
Replay(r) ==
    /\ req[r].pc = "replay"
    /\ CASE OwnCommand(r).status = "none" -> Go(r, "read")
         [] OwnCommand(r).status # "none" /\ ~Same(r) -> Go(r, "refused")
         [] OwnCommand(r).status = "completed" /\ Same(r) -> Answer(r, OwnCommand(r).answer)
         [] OwnCommand(r).status = "pending" /\ Same(r) -> Go(r, "read")
    /\ UNCHANGED <<rowVars, command, gate, evidence, boundTo>>

\* The task is read without a lock, and its plan must be the active one.  When
\* it no longer waits, a confirmation that committed in between is looked for once
\* more.
ReadTask(r) ==
    /\ req[r].pc = "read"
    /\ CASE activePlan # req[r].plan -> Go(r, "refused")
         [] activePlan = req[r].plan ->
              IF taskState = "awaiting_confirmation" /\ version = req[r].version
              THEN Go(r, "prepare")
              ELSE IF OwnCommand(r).status = "completed" /\ Same(r)
                   THEN Answer(r, OwnCommand(r).answer)
                   ELSE Go(r, "refused")
    /\ UNCHANGED <<rowVars, command, gate, evidence, boundTo>>

\* prepareBinding only reads: the upload is verified, nothing is written.
PrepareBinding(r) ==
    /\ req[r].pc = "prepare"
    /\ Go(r, IF Sealed(r) THEN "reserve" ELSE "refused")
    /\ UNCHANGED <<rowVars, command, gate, evidence, boundTo>>

-----------------------------------------------------------------------------
(* Reservations.                                                           *)

Blocks(r, k) ==
    /\ r \in Confirms /\ k \in ConfirmKeys \ {req[r].key}
    /\ command[k].status = "pending"

\* Another confirmation is under way.
Competing(r) == \E k \in Keys : Blocks(r, k) /\ command[k].live

ReserveOutcome(r) ==
    LET c == OwnCommand(r)
    IN CASE c.status # "none" /\ ~Same(r)       -> "refused"
         [] c.status = "completed" /\ Same(r)   -> "replayed"
         [] c.status = "pending" /\ Same(r) /\ c.live -> "pending"
         [] OTHER -> IF TaskFence(r) /\ ~Competing(r) THEN "reserved" ELSE "refused"

Reserve(r) ==
    /\ req[r].pc = "reserve"
    /\ CASE ReserveOutcome(r) = "refused"  -> Go(r, "refused") /\ UNCHANGED command
         [] ReserveOutcome(r) = "replayed" -> Answer(r, OwnCommand(r).answer) /\ UNCHANGED command
         [] ReserveOutcome(r) = "pending"  -> Go(r, "wait") /\ UNCHANGED command
         [] ReserveOutcome(r) = "reserved" ->
              /\ Go(r, "work")
              /\ command' = [k \in Keys |->
                   IF k = req[r].key
                   THEN [status |-> "pending", hash |-> req[r].hash, token |-> r,
                         live |-> TRUE, answer |-> NoOne]
                   ELSE IF Blocks(r, k) /\ ~command[k].live THEN NoCommand ELSE command[k]]
    /\ UNCHANGED <<rowVars, gate, evidence, boundTo>>

\* Mutant of WaitForCommand: only an answer or a release ends the wait.
WaitForAnswer(r) ==
    /\ req[r].pc = "wait"
    /\ \/ OwnCommand(r).status = "completed" /\ Same(r) /\ Answer(r, OwnCommand(r).answer)
       \/ OwnCommand(r).status = "none" /\ Go(r, "reserve")
    /\ UNCHANGED <<rowVars, command, gate, evidence, boundTo>>

\* waitForCommand: until the command is gone or completed, or a timeout, after
\* which the reservation is tried again.
WaitForCommand(r) ==
    /\ req[r].pc = "wait"
    /\ IF OwnCommand(r).status = "completed" /\ Same(r) THEN Answer(r, OwnCommand(r).answer)
       ELSE Go(r, IF OwnCommand(r).status = "none" \/ Same(r) THEN "reserve" ELSE "refused")
    /\ UNCHANGED <<rowVars, command, gate, evidence, boundTo>>

\* Five minutes pass.
ExpireReservation(k) ==
    /\ command[k].status = "pending" /\ command[k].live
    /\ command' = [command EXCEPT ![k].live = FALSE]
    /\ UNCHANGED <<rowVars, gate, evidence, boundTo, req>>

-----------------------------------------------------------------------------
(* The work under a reservation.                                           *)

\* upload, then prepareBinding of what was uploaded.  An upload that fails
\* invalidates what it wrote itself; when only the verification fails the
\* Artifact stays sealed and the catch block has nothing to invalidate.
UploadFile(r) ==
    /\ r \in Uploads /\ req[r].pc = "work"
    /\ \/ /\ req' = [req EXCEPT ![r].pc = "complete", ![r].bound = TRUE]
          /\ evidence' = [evidence EXCEPT ![r] = "sealed"]
       \/ /\ Go(r, "release") /\ evidence' = [evidence EXCEPT ![r] = "sealed"]
       \/ /\ Go(r, "release") /\ evidence' = [evidence EXCEPT ![r] = "failed"]
    /\ boundTo' = [boundTo EXCEPT ![r] = req[r].plan]
    /\ UNCHANGED <<rowVars, command, gate>>

BuildGates(r) ==
    /\ r \in Confirms /\ req[r].pc = "work" /\ Go(r, "complete")
    /\ UNCHANGED <<rowVars, command, gate, evidence, boundTo>>

\* Mutant of MayComplete: the plan and version are not compared again.
MayCompleteOnOldPlan(r) ==
    /\ taskState = "awaiting_confirmation" /\ OwnReservation(r)
    /\ r \in Confirms => OwnCommand(r).live /\ gate[req[r].plan] = NoOne

\* completeDatasetUploadCommand and completeConfirmationCommand: the second
\* also wants the reservation unexpired, no gate yet for the plan, and the
\* evidence sealed for it.
MayComplete(r) ==
    /\ TaskFence(r) /\ OwnReservation(r)
    /\ r \in Confirms => OwnCommand(r).live /\ gate[req[r].plan] = NoOne /\ Sealed(r)

\* told is FALSE when the COMMIT goes through and its answer is lost.
Complete(r, told) ==
    /\ req[r].pc = "complete" /\ MayComplete(r)
    /\ command' = [command EXCEPT ![req[r].key] =
         [@ EXCEPT !.status = "completed", !.token = NoOne, !.live = FALSE,
                   !.answer = AnswerOf(r)]]
    /\ IF r \in Uploads THEN UNCHANGED <<rowVars, gate>>
       ELSE /\ taskState' = "confirmed" /\ version' = version + 1
            /\ gate' = [gate EXCEPT ![req[r].plan] = Evid(r)]
            /\ UNCHANGED activePlan
    /\ IF told THEN Answer(r, AnswerOf(r)) ELSE Go(r, "release")
    /\ UNCHANGED <<evidence, boundTo>>

\* The fence was lost, or the transaction failed for a reason of its own.
CompleteFails(r) ==
    /\ req[r].pc = "complete" /\ Go(r, "release")
    /\ UNCHANGED <<rowVars, command, gate, evidence, boundTo>>

-----------------------------------------------------------------------------
(* The catch block.                                                        *)

\* releaseCommand; an error of its own ends the request there.
Release(r) ==
    /\ req[r].pc = "release"
    /\ \/ /\ OwnReservation(r) /\ Go(r, "invalidate")
          /\ command' = [command EXCEPT ![req[r].key] = NoCommand]
       \/ ~OwnReservation(r) /\ Go(r, "lookup") /\ UNCHANGED command
       \/ Go(r, "refused") /\ UNCHANGED command
    /\ UNCHANGED <<rowVars, gate, evidence, boundTo>>

\* Mutant of Lookup: a reservation that is gone is taken for a failed command.
LookupNothing(r) ==
    /\ req[r].pc = "lookup" /\ Go(r, "invalidate")
    /\ UNCHANGED <<rowVars, command, gate, evidence, boundTo>>

\* getCommand: the command may have completed although its caller saw an error.
Lookup(r) ==
    /\ req[r].pc = "lookup"
    /\ IF OwnCommand(r).status = "completed" /\ Same(r)
       THEN IF r \in Uploads THEN Answer(r, OwnCommand(r).answer)
            ELSE req' = [req EXCEPT ![r].pc = "list", ![r].answer = OwnCommand(r).answer]
       ELSE Go(r, "invalidate")
    /\ UNCHANGED <<rowVars, command, gate, evidence, boundTo>>

\* listGateRecords: what the gates of the plan refer to is spared.
ListGateRecords(r) ==
    /\ req[r].pc = "list"
    /\ Go(r, IF gate[req[r].plan] = Evid(r) THEN "answered" ELSE "invalidate")
    /\ UNCHANGED <<rowVars, command, gate, evidence, boundTo>>

\* invalidateArtifactPublication of what the request bound, with no look at
\* who else refers to it; its failure is ignored by a confirmation.
Invalidate(r) ==
    /\ req[r].pc = "invalidate"
    /\ Go(r, IF req[r].answer = NoOne THEN "refused" ELSE "answered")
    /\ \/ /\ req[r].bound /\ evidence[Evid(r)] = "sealed"
          /\ evidence' = [evidence EXCEPT ![Evid(r)] = "failed"]
       \/ UNCHANGED evidence
    /\ UNCHANGED <<rowVars, command, gate, boundTo>>

-----------------------------------------------------------------------------
(* The rest of the system.                                                 *)

\* createPlanRevision: another plan waits for its input.
Revise ==
    /\ taskState \in {"awaiting_confirmation", "confirmed"} /\ version < MaxVersion
    /\ taskState' = "awaiting_confirmation"
    /\ version' = version + 1 /\ activePlan' = activePlan + 1
    /\ UNCHANGED <<command, gate, evidence, boundTo, req>>

\* The server process of r dies, or its client's connection is given up.
Crash(r) ==
    /\ req[r].pc \in InFlight /\ Go(r, "crashed")
    /\ UNCHANGED <<rowVars, command, gate, evidence, boundTo>>

Start(r) ==
    \/ r \in Uploads /\ \E k \in UploadKeys, f \in Files : StartUpload(r, k, f)
    \/ r \in Confirms /\ \E k \in ConfirmKeys, e \in Evidence : StartConfirm(r, k, e)

Step(r) ==
    \/ Replay(r) \/ ReadTask(r) \/ PrepareBinding(r) \/ Reserve(r) \/ WaitForCommand(r)
    \/ UploadFile(r) \/ BuildGates(r)
    \/ \E told \in BOOLEAN : Complete(r, told)
    \/ CompleteFails(r) \/ Release(r) \/ Lookup(r) \/ ListGateRecords(r) \/ Invalidate(r)

Next ==
    \/ \E r \in Requests : Start(r) \/ Step(r) \/ Crash(r)
    \/ \E k \in Keys : ExpireReservation(k)
    \/ Revise

Spec == Init /\ [][Next]_vars

\* A live server process takes its next step, and time passes.  Nothing is
\* assumed of clients, of the user's revisions, or of transactions succeeding.
Fairness ==
    /\ \A r \in Requests : WF_vars(Step(r))
    /\ \A k \in Keys : WF_vars(ExpireReservation(k))

FairSpec == Spec /\ Fairness

-----------------------------------------------------------------------------
Hashes == [input : Files \cup Evidence, version : Versions, plan : Plans]

Replies == Evidence \cup Hashes \cup {NoOne}
Row0    == [status : {"none", "pending", "completed"}, hash : Hashes \cup {NoOne},
            token : Requests \cup {NoOne}, live : BOOLEAN, answer : Replies]
Call    == [pc : {"idle"} \cup InFlight \cup Over, key : Keys \cup {NoOne},
            hash : Hashes \cup {NoOne}, version : Versions, plan : Plans, bound : BOOLEAN,
            answer : Replies]

TypeOK ==
    /\ taskState \in {"awaiting_confirmation", "confirmed"}
    /\ version \in Versions /\ activePlan \in Plans
    /\ command \in [Keys -> Row0]
    /\ gate \in [Plans -> Evidence \cup {NoOne}]
    /\ evidence \in [Evidence -> {"none", "sealed", "failed"}]
    /\ boundTo \in [Evidence -> Plans]
    /\ req \in [Requests -> Call]

\* A plan is confirmed by one command only, however many clients confirm it
\* under their own keys and whatever happens between their reads and their
\* commits: a confirmed task has the gate of its active plan, which holds what
\* that command named (completeConfirmationCommand and the reservations).
ConfirmedByOneCommand ==
    LET Done(p) == {k \in ConfirmKeys : command[k].status = "completed"
                                         /\ command[k].hash.plan = p}
    IN /\ \A p \in Plans : /\ Cardinality(Done(p)) <= 1
                           /\ \A k \in Done(p) : gate[p] = command[k].hash.input
       /\ taskState = "confirmed" => Done(activePlan) # {}

\* Whatever a gate records was uploaded for the very plan it is a gate of,
\* through every revision between upload, confirmation and commit.
EvidenceBelongsToPlan ==
    \A p \in Plans : gate[p] # NoOne => boundTo[gate[p]] = p

\* What was answered stays true.  A confirmation that was told "yes", first hand
\* or by replay, is in force: its plan's gate holds the upload the client named.
\* The catch block of an upload never takes back the Artifact that the completed
\* command goes on answering: when one is failed, a confirmation that had bound
\* it did it (release and lookup in uploadDataset).
AnswersAreTrue ==
    /\ \A r \in Confirms : req[r].pc = "answered" => gate[req[r].plan] = Evid(r)
    /\ \A k \in UploadKeys :
         command[k].status = "completed" /\ evidence[command[k].answer] # "sealed"
             => \E r \in Confirms : req[r].bound /\ Evid(r) = command[k].answer

\* The gate of a confirmed plan refers to a SEALED Artifact: what the resolve
\* of each gate store asserts when the plan is executed.
ConfirmedEvidenceSealed ==
    taskState = "confirmed" => evidence[gate[activePlan]] = "sealed"

\* Every request ends, also when the one that holds its reservation is dead:
\* the wait in confirm and in the uploads has no bound of its own.
EveryRequestEnds == \A r \in Requests : req[r].pc \in InFlight ~> req[r].pc \in Over

=============================================================================
