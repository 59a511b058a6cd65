---------------------------- MODULE TaskCommands ----------------------------
(***************************************************************************)
(* The commands of TaskWorkflowService that act on a confirmed plan:       *)
(* approve, execute, resume, cancel, with their idempotency records        *)
(* (control_commands) and the approval gates (control_gate_records).       *)
(*                                                                         *)
(* A request is one HTTP call.  Its reads and its transactions are         *)
(* separate steps; the process that serves it may die between any two.     *)
(* What the transactions do to attempts, steps and Artifacts is the        *)
(* subject of ControlPlane: here an attempt has only a state.              *)
(***************************************************************************)
EXTENDS Naturals, FiniteSets

CONSTANTS
    Requests,     \* HTTP calls
    Keys,         \* Idempotency-Key values
    Kinds,        \* the commands that clients send
    GateKeys,     \* keys of the approvals that plans require
    MaxVersion,   \* bound: no client sends a command above this version
    MaxAttempts,  \* bound on execution attempts
    None          \* no gate key, no choice, no request

ASSUME CommandAssumption ==
    /\ Kinds \subseteq {"approve", "execute", "resume", "cancel"}
    /\ MaxVersion \in Nat \ {0} /\ MaxAttempts \in Nat \ {0}
    /\ None \notin GateKeys \cup Keys

Versions == Nat
Plans    == 1 .. MaxVersion + 1
Attempts == 0 .. MaxAttempts          \* 0: no attempt

TaskStates == {"awaiting_confirmation", "awaiting_approval", "rejected", "ready",
               "executing", "paused", "completed", "cancelled"}

Inputs == {i \in [kind : Kinds, gate : GateKeys \cup {None},
                  choice : {"approved", "rejected", "retry", "skip", "abort", None}] :
             CASE i.kind = "approve" -> i.gate # None /\ i.choice \in {"approved", "rejected"}
               [] i.kind = "resume"  -> i.gate = None /\ i.choice \in {"retry", "skip", "abort"}
               [] OTHER              -> i.gate = None /\ i.choice = None}

Hashes  == [input : Inputs, version : Versions, plan : Plans]
Answers == [state : TaskStates, version : Versions, attempt : Attempts,
            status : {"completed", "paused", None}]   \* status: only of execute

VARIABLES
    taskState, version, plan, current,  \* the task row
    attempt,    \* attempt[a]: state of the a-th attempt
    gates,      \* the approval rows of control_gate_records
    command,    \* command[kind][k]: the answered command
    claims,     \* claims[k]: the execution_claim row of key k
    hasDriver,  \* an execution driver is configured
    required,   \* the keys of requiredApprovals, the same for each plan of the task
    req         \* req[r]: local state of request r

rowVars == <<taskState, version, plan, current, attempt>>
config  == <<hasDriver, required>>
vars    == <<rowVars, gates, command, claims, config, req>>

NoAnswer  == [state |-> "ready", version |-> 0, attempt |-> 0, status |-> None]
NoRow     == [status |-> "none"]
NoRequest == [pc |-> "idle"]

InFlight == {"replay", "read", "gate", "list", "transition", "claim", "drive",
             "recover", "pause", "resume", "cancel", "record", "again"}
Over     == {"answered", "refused", "crashed"}

Init ==
    /\ taskState = "awaiting_confirmation" /\ version = 0 /\ plan = 1 /\ current = 0
    /\ attempt = [a \in Attempts \ {0} |-> "none"]
    /\ gates = {}
    /\ command = [kind \in Kinds |-> [k \in Keys |-> NoRow]]
    /\ claims = [k \in Keys |-> NoRow]
    /\ hasDriver \in BOOLEAN /\ required \in {{}, GateKeys}
    /\ req = [r \in Requests |-> NoRequest]

-----------------------------------------------------------------------------
Kind(r)      == req[r].hash.input.kind
Row(r)       == command[Kind(r)][req[r].key]
Go(r, pc)    == req' = [req EXCEPT ![r].pc = pc]
Refuse(r)    == Go(r, "refused")
Reply(r, a)  == req' = [req EXCEPT ![r].pc = "answered", ![r].answer = a]
Then(r, a)   == req' = [req EXCEPT ![r].pc = "record", ![r].answer = a]
NewTask(a)   == [state |-> taskState', version |-> version', attempt |-> a, status |-> None]

\* The commands that the task's screen offers.
Offered(kind) ==
    CASE kind = "approve" -> taskState = "awaiting_approval"
      [] kind = "execute" -> taskState = "ready"
      [] kind = "resume"  -> taskState = "paused"
      [] kind = "cancel"  -> taskState \in {"executing", "paused"}

\* A client sends what it sees on its screen; the same key may be used again,
\* with the same request or, wrongly, with another one.
Send(r, k, i) ==
    /\ req[r].pc = "idle" /\ version <= MaxVersion /\ Offered(i.kind)
    /\ req' = [req EXCEPT ![r] = [pc |-> "replay", key |-> k,
                 hash |-> [input |-> i, version |-> version, plan |-> plan],
                 seen |-> current, answer |-> NoAnswer]]
    /\ UNCHANGED <<rowVars, gates, command, claims, config>>

\* A retry of an earlier call, word for word.
Resend(r, s) ==
    /\ req[r].pc = "idle" /\ req[s].pc # "idle"
    /\ req' = [req EXCEPT ![r] = [req[s] EXCEPT !.pc = "replay", !.seen = current,
                                               !.answer = NoAnswer]]
    /\ UNCHANGED <<rowVars, gates, command, claims, config>>

Replay(r) ==
    /\ req[r].pc = "replay"
    /\ IF Row(r).status = "none" THEN Go(r, "read")
       ELSE IF Row(r).hash = req[r].hash THEN Reply(r, Row(r).answer) ELSE Refuse(r)
    /\ UNCHANGED <<rowVars, gates, command, claims, config>>

ResumedState(choice) ==
    CASE choice = "retry" -> "ready"
      [] choice = "skip"  -> "awaiting_confirmation"
      [] choice = "abort" -> "cancelled"

\* resume finds the state its action leads to already reached.
AlreadyResumed(r) ==
    LET choice == req[r].hash.input.choice
    IN /\ taskState = ResumedState(choice)
       /\ current # 0
       /\ attempt[current] = IF choice = "abort" THEN "cancelled" ELSE "paused"

\* The task as it was read, without a lock, and the early returns that follow;
\* what a resume may do depends on the failed steps as well (ControlPlane).
ReadTask(r) ==
    /\ req[r].pc = "read"
    /\ LET fresh == version = req[r].hash.version
           active == plan = req[r].hash.plan
           go(pc) == req' = [req EXCEPT ![r].pc = pc, ![r].seen = current]
       IN CASE Kind(r) = "approve" ->
                 go(IF active /\ fresh /\ taskState = "awaiting_approval"
                         /\ req[r].hash.input.gate \in required THEN "gate" ELSE "refused")
            [] Kind(r) = "execute" -> go(IF active THEN "claim" ELSE "refused")
            [] Kind(r) = "cancel" ->
                 go(IF current # 0 /\ fresh /\ taskState \in {"executing", "paused"}
                    THEN "cancel" ELSE "refused")
            [] Kind(r) = "resume" ->
                 IF fresh /\ taskState = "paused" THEN go("resume")
                 ELSE IF AlreadyResumed(r)
                      THEN req' = [req EXCEPT ![r].pc = "record", ![r].seen = current,
                             ![r].answer = [NoAnswer EXCEPT !.state = taskState,
                                              !.version = version, !.attempt = current]]
                      ELSE go("refused")
    /\ UNCHANGED <<rowVars, gates, command, claims, config>>

\* The failed steps do not allow the action of a resume.
NotAllowed(r) ==
    /\ req[r].pc \in {"read", "resume"} /\ Kind(r) = "resume" /\ Refuse(r)
    /\ UNCHANGED <<rowVars, gates, command, claims, config>>

-----------------------------------------------------------------------------
(* approve.                                                                *)

\* The gate row is unique per plan, gate key and idempotency key.
RecordGate(r) ==
    LET g == [plan |-> req[r].hash.plan, gate |-> req[r].hash.input.gate,
              choice |-> req[r].hash.input.choice, key |-> req[r].key]
        taken == \E h \in gates : h.plan = g.plan /\ h.gate = g.gate /\ h.key = g.key
    IN /\ req[r].pc = "gate"
       /\ IF taken THEN Refuse(r) /\ UNCHANGED gates
          ELSE Go(r, "list") /\ gates' = gates \cup {g}
       /\ UNCHANGED <<rowVars, command, claims, config>>

\* Mutant of Approved: the gates of the task's other plans count as well.
ApprovedOnAnyPlan(p) ==
    \A k \in required : \E g \in gates : g.gate = k /\ g.choice = "approved"

Approved(p) ==
    \A k \in required : \E g \in gates : g.plan = p /\ g.gate = k /\ g.choice = "approved"

NextState(r) ==
    IF req[r].hash.input.choice = "rejected" THEN "rejected"
    ELSE IF Approved(req[r].hash.plan) THEN "ready" ELSE "awaiting_approval"

\* What the gates say decides the next state before the task is locked.
ListGates(r) ==
    /\ req[r].pc = "list"
    /\ req' = [req EXCEPT ![r].pc = "transition", ![r].answer.state = NextState(r)]
    /\ UNCHANGED <<rowVars, gates, command, claims, config>>

\* Mutant of MayTransition: the state alone is compared.
MayTransitionAnyVersion(r) == taskState = "awaiting_approval" /\ r \in Requests

MayTransition(r) == taskState = "awaiting_approval" /\ version = req[r].hash.version

Transition(r) ==
    /\ req[r].pc = "transition"
    /\ IF MayTransition(r)
       THEN /\ taskState' = req[r].answer.state /\ version' = version + 1
            /\ Then(r, NewTask(0))
            /\ UNCHANGED <<plan, current, attempt>>
       ELSE Refuse(r) /\ UNCHANGED rowVars
    /\ UNCHANGED <<gates, command, claims, config>>

-----------------------------------------------------------------------------
(* execute.                                                                *)

LastAttempt == Cardinality({a \in Attempts \ {0} : attempt[a] # "none"})

\* Mutant of ClaimAgain: the replayed flag is not looked at.
ClaimAgainAndDrive(r) == req' = [req EXCEPT ![r].pc = "drive", ![r].seen = claims[req[r].key].attempt]

\* The key has claimed before: what it claimed is answered, not driven.
ClaimAgain(r) ==
    req' = [req EXCEPT ![r].pc = IF hasDriver THEN "recover" ELSE "pause",
                       ![r].seen = claims[req[r].key].attempt]

\* claimExecution, with its execution_claim row in the same transaction.
ClaimExecution(r) ==
    LET row == claims[req[r].key]
        a   == LastAttempt + 1
    IN /\ req[r].pc = "claim"
       /\ \/ /\ row.status # "none" /\ row.hash = req[r].hash
             /\ ClaimAgain(r) /\ UNCHANGED <<rowVars, claims>>
          \/ /\ row.status = "none" /\ a \in Attempts
             /\ taskState = "ready" /\ version = req[r].hash.version
             /\ taskState' = "executing" /\ version' = version + 1 /\ current' = a
             /\ plan' = req[r].hash.plan
             /\ attempt' = [attempt EXCEPT ![a] = "active"]
             /\ claims' = [claims EXCEPT ![req[r].key] =
                             [status |-> "done", hash |-> req[r].hash, attempt |-> a]]
             /\ req' = [req EXCEPT ![r].pc = IF hasDriver THEN "drive" ELSE "pause",
                                   ![r].seen = a]
          \/ /\ \/ row.status # "none" /\ row.hash # req[r].hash
                \/ row.status = "none" /\ ~(taskState = "ready" /\ version = req[r].hash.version)
             /\ Refuse(r) /\ UNCHANGED <<rowVars, claims>>
       /\ UNCHANGED <<gates, command, config>>

Execution(a, status) ==
    [state |-> taskState, version |-> version, attempt |-> a, status |-> status]

\* The driver has returned and the task is read once more, without a lock; a
\* driver that lost its lease throws.
DriverReturns(r) ==
    /\ req[r].pc = "drive"
    /\ \/ /\ attempt[req[r].seen] \in {"completed", "paused"}
          /\ Then(r, Execution(req[r].seen, attempt[req[r].seen]))
       \/ Refuse(r)
    /\ UNCHANGED <<rowVars, gates, command, claims, config>>

\* Mutant of Finished: it is not compared whose end the task shows.
FinishedByAnyone(a) == taskState \in {"completed", "paused"} /\ attempt[a] # "none"

Finished(a) == taskState \in {"completed", "paused"} /\ current = a

\* A repeated execute rebuilds the answer of one that got past its claim.
Recover(r) ==
    /\ req[r].pc = "recover"
    /\ IF Finished(req[r].seen) THEN Then(r, Execution(req[r].seen, taskState))
       ELSE Refuse(r)
    /\ UNCHANGED <<rowVars, gates, command, claims, config>>

\* pauseExecution, when no driver is configured; the version it expects is the
\* one that the claim made.
PauseExecution(r) ==
    /\ req[r].pc = "pause"
    /\ IF taskState = "executing" /\ current = req[r].seen /\ version = req[r].hash.version + 1
       THEN /\ taskState' = "paused" /\ version' = version + 1
            /\ attempt' = [attempt EXCEPT ![current] = "paused"]
            /\ Then(r, [NewTask(current) EXCEPT !.status = "paused"])
            /\ UNCHANGED <<plan, current>>
       ELSE Refuse(r) /\ UNCHANGED rowVars
    /\ UNCHANGED <<gates, command, claims, config>>

-----------------------------------------------------------------------------
(* resume and cancel.                                                      *)

\* retryPausedExecution, createPlanRevision or cancelPausedExecution.
Resume(r) ==
    LET choice == req[r].hash.input.choice
    IN /\ req[r].pc = "resume"
       /\ IF taskState = "paused" /\ version = req[r].hash.version /\ current = req[r].seen
          THEN /\ choice = "skip" => plan + 1 \in Plans
               /\ taskState' = ResumedState(choice) /\ version' = version + 1
               /\ plan' = IF choice = "skip" THEN plan + 1 ELSE plan
               /\ attempt' = [attempt EXCEPT ![current] =
                                IF choice = "abort" THEN "cancelled" ELSE @]
               /\ Then(r, NewTask(current))
               /\ UNCHANGED current
          ELSE Refuse(r) /\ UNCHANGED rowVars
       /\ UNCHANGED <<gates, command, claims, config>>

\* cancelExecution writes the command in its own transaction; when that fails
\* the command is looked up once more.
Cancel(r) ==
    /\ req[r].pc = "cancel"
    /\ IF /\ taskState \in {"executing", "paused"} /\ version = req[r].hash.version
          /\ current = req[r].seen /\ Row(r).status = "none"
       THEN /\ taskState' = "cancelled" /\ version' = version + 1
            /\ attempt' = [attempt EXCEPT ![current] = "cancelled"]
            /\ Reply(r, NewTask(current))
            /\ command' = [command EXCEPT !["cancel"][req[r].key] =
                 [status |-> "done", hash |-> req[r].hash, answer |-> NewTask(current)]]
            /\ UNCHANGED <<plan, current>>
       ELSE Go(r, "again") /\ UNCHANGED <<rowVars, command>>
    /\ UNCHANGED <<gates, claims, config>>

\* recordCommand; a duplicate is an error, after which a recovered answer (of
\* execute or resume) looks the command up once more.
Record(r) ==
    /\ req[r].pc = "record"
    /\ IF Row(r).status = "none"
       THEN /\ Reply(r, req[r].answer)
            /\ command' = [command EXCEPT ![Kind(r)][req[r].key] =
                             [status |-> "done", hash |-> req[r].hash, answer |-> req[r].answer]]
       ELSE (Go(r, "again") \/ Refuse(r)) /\ UNCHANGED command
    /\ UNCHANGED <<rowVars, gates, claims, config>>

ReplayAgain(r) ==
    /\ req[r].pc = "again"
    /\ IF Row(r).status # "none" /\ Row(r).hash = req[r].hash THEN Reply(r, Row(r).answer)
       ELSE Refuse(r)
    /\ UNCHANGED <<rowVars, gates, command, claims, config>>

-----------------------------------------------------------------------------
(* The rest of the system.                                                 *)

\* confirm: straight to ready when nothing needs an approval.
Confirm ==
    /\ taskState = "awaiting_confirmation"
    /\ taskState' = IF required = {} THEN "ready" ELSE "awaiting_approval"
    /\ version' = version + 1
    /\ UNCHANGED <<plan, current, attempt, gates, command, claims, config, req>>

\* createPlanRevision: a new plan, to be confirmed and approved anew; from
\* paused it forgets the attempt.
Revise ==
    /\ taskState \in {"awaiting_approval", "ready", "paused"} /\ version <= MaxVersion
    /\ plan + 1 \in Plans
    /\ taskState' = "awaiting_confirmation" /\ version' = version + 1 /\ plan' = plan + 1
    /\ current' = IF taskState = "paused" THEN 0 ELSE current
    /\ UNCHANGED <<attempt, gates, command, claims, config, req>>

\* The engine ends the attempt, or recovery pauses it when its lease expired.
EngineEnds(a) ==
    /\ taskState = "executing" /\ current = a /\ attempt[a] = "active"
    /\ \E s \in {"completed", "paused"} :
         taskState' = s /\ attempt' = [attempt EXCEPT ![a] = s]
    /\ version' = version + 1
    /\ UNCHANGED <<plan, current, gates, command, claims, config, req>>

Crash(r) ==
    /\ req[r].pc \in InFlight /\ Go(r, "crashed")
    /\ UNCHANGED <<rowVars, gates, command, claims, config>>

Serve(r) ==
    \/ Replay(r) \/ ReadTask(r) \/ NotAllowed(r)
    \/ RecordGate(r) \/ ListGates(r) \/ Transition(r)
    \/ ClaimExecution(r) \/ DriverReturns(r) \/ Recover(r) \/ PauseExecution(r)
    \/ Resume(r) \/ Cancel(r) \/ Record(r) \/ ReplayAgain(r)

Next ==
    \/ \E r \in Requests :
         \/ \E k \in Keys, i \in Inputs : Send(r, k, i)
         \/ \E s \in Requests : Resend(r, s)
         \/ Serve(r) \/ Crash(r)
    \/ Confirm \/ Revise
    \/ \E a \in Attempts \ {0} : EngineEnds(a)

Spec == Init /\ [][Next]_vars

-----------------------------------------------------------------------------
Row0   == {NoRow} \cup [status : {"done"}, hash : Hashes, answer : Answers]
Claim0 == {NoRow} \cup [status : {"done"}, hash : Hashes, attempt : Attempts \ {0}]
Call   == [pc : InFlight \cup Over, key : Keys, hash : Hashes, seen : Attempts,
           answer : Answers]

TypeOK ==
    /\ taskState \in TaskStates /\ version \in Versions /\ plan \in Plans
    /\ current \in Attempts
    /\ attempt \in [Attempts \ {0} -> {"none", "active", "paused", "completed", "cancelled"}]
    /\ gates \subseteq [plan : Plans, gate : GateKeys, choice : {"approved", "rejected"}, key : Keys]
    /\ command \in [Kinds -> [Keys -> Row0]]
    /\ claims \in [Keys -> Claim0]
    /\ hasDriver \in BOOLEAN /\ required \subseteq GateKeys
    /\ req \in [Requests -> {NoRequest} \cup Call]

\* Nothing runs on a plan unless somebody of each required authority approved
\* that very plan, whatever revisions and other approvals came in between the
\* read of the gates and the transition (approve).
ReadyIsApproved ==
    taskState \in {"ready", "executing", "paused", "completed"} =>
        \A k \in required : \E g \in gates :
            g.plan = plan /\ g.gate = k /\ g.choice = "approved"

\* No two approvals advance the task from the same version, however they
\* interleave: each answered approval made the version after its own.
ApprovalsAdvanceOnce ==
    \A r \in Requests : req[r].pc = "answered" /\ Kind(r) = "approve" =>
        /\ req[r].answer.version = req[r].hash.version + 1
        /\ \A s \in Requests :
             /\ req[s].pc = "answered" /\ Kind(s) = "approve"
             /\ req[s].answer.version = req[r].answer.version
             => req[s].key = req[r].key

\* The external driver works on an attempt for one request only, also when
\* the call that claimed it is repeated while it runs (execute).
OneDriver ==
    \A r, s \in Requests : req[r].pc = "drive" /\ req[s].pc = "drive" /\ r # s =>
        req[r].seen # req[s].seen

\* Every answer is the recorded one, which any later call with this key gets
\* (replay, recordCommand, cancelExecution), and the status that an execution
\* answers, at first hand or rebuilt by a later call, is the outcome of the very
\* attempt that it names, however often the task was resumed and executed again.
AnswersStandAndAreTrue ==
    \A r \in Requests : req[r].pc = "answered" =>
        LET a == req[r].answer
        IN /\ Row(r).status = "done" /\ Row(r).hash = req[r].hash /\ Row(r).answer = a
           /\ Kind(r) = "execute" =>
             /\ claims[req[r].key].attempt = a.attempt
             /\ \/ attempt[a.attempt] = a.status
                \/ a.status = "paused" /\ attempt[a.attempt] = "cancelled"

\* docs/development/research-orchestration-migration-guide.md: any rejection
\* leads to rejected, so a plan with one never runs.
RejectionStops ==
    taskState \in {"ready", "executing", "paused", "completed"} =>
        \A g \in gates : g.plan = plan => g.choice # "rejected"

\* The same diagram: once everything is approved the task is ready.  When every
\* approval has been answered, and no process died, it does not wait for one
\* that, the decision being recorded, no screen offers (canApprove).
ApprovedIsReady ==
    taskState = "awaiting_approval" /\ Approved(plan) =>
        \E r \in Requests : req[r].pc \in InFlight \cup {"crashed"}

=============================================================================
