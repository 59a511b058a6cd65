---------------------------- MODULE ControlPlane ----------------------------
(***************************************************************************)
(* The execution ledger of one control task: the rows of control_tasks,    *)
(* control_plan_versions, control_execution_attempts,                      *)
(* control_execution_steps and control_artifacts, and the transactions of  *)
(* ControlPlaneRepository that change them.                                *)
(*                                                                         *)
(* Every method locks the task row (or the attempt row) and runs in one    *)
(* PostgreSQL transaction, so one action is one transaction.  Callers are  *)
(* left unconstrained: whoever ever held the lease token of an attempt may *)
(* still call any method with it.  ExecutionEngine adds the callers.       *)
(*                                                                         *)
(* A step row and the Artifact that the step seals share a number, a slot: *)
(* slots 1..NumSteps are the plan's steps, Manifest and Report the         *)
(* Evidence Manifest and the report root.  A failed row is represented by  *)
(* what later transactions can tell apart in its failure_json.             *)
(***************************************************************************)
EXTENDS Naturals, FiniteSets

CONSTANTS
    NumSteps,     \* steps of the execution plan
    MaxAttempts,  \* bound: execution attempts of the task
    MaxPlans,     \* bound: plan versions of the task
    MaxVersion,   \* bound: approvals that leave others open are given below this version
    Native        \* TRUE: steps seal skill_result and the root is final_report;
                  \* FALSE: steps seal skill_output and the root is report_package

ASSUME LedgerAssumption ==
    /\ NumSteps \in Nat \ {0}
    /\ MaxAttempts \in Nat \ {0}
    /\ MaxPlans \in Nat \ {0}
    /\ MaxVersion \in Nat
    /\ Native \in BOOLEAN

Attempts == 1 .. MaxAttempts
Plans    == 1 .. MaxPlans
None     == 0                     \* SQL NULL of current_attempt_id and retry_of
Steps    == 1 .. NumSteps
Manifest == NumSteps + 1
Report   == NumSteps + 2
Slots    == 1 .. Report
Rows     == 1 .. Report + 1       \* recovery may append one after the last

ExecStates  == {"executing", "reviewing", "composing_report"}
TaskStates  == ExecStates \cup {"awaiting_confirmation", "awaiting_approval",
                 "ready", "paused", "completed", "cancelled", "rejected"}
\* Mutant of Revisable: a plan may be replaced under a running execution.
RevisableWhileRunning == TaskStates \ {"completed", "cancelled", "rejected"}

Revisable   == {"awaiting_confirmation", "awaiting_approval", "ready", "paused"}

\* failure_json of a failed row, up to what is read back: its kind, whether
\* allowedActions holds 'retry', and whether it carries the
\* artifactInvalidationPromotion marker of a deferred cleanup.
Retryable   == {"worker_loss", "expired", "lease_lost", "retryable"}
Marked      == {"marked_lease_lost", "marked_retryable", "marked_fatal"}
Unretryable == {"lease_lost_final", "fatal", "artifact_invalidation"} \cup Marked
FailedRows  == Retryable \cup Unretryable
LeaseLost   == {"lease_lost", "lease_lost_final", "marked_lease_lost"}
RowStates   == {"none", "running", "succeeded", "skipped"} \cup FailedRows

\* A control_artifacts row together with its file: staging has no file yet,
\* written has one; pending is FAILED with the quarantine-pending marker, and
\* pending_written the same after a late writer created the file.
Live        == {"staging", "written", "sealed"}
Invalid     == {"failed", "pending", "pending_written"}
ArtStates   == {"none"} \cup Live \cup Invalid

FailureKinds == {"none", "worker_loss", "artifact_invalidation", "other"}

VARIABLES
    taskState, version, activePlan, currentAttempt, planCount,
    attemptState, attemptPlan, retryOf, failureKind, leaseLive,
    row,          \* row[a][n]: step row n of attempt a, n in Rows
    art           \* art[a][n]: Artifact n of attempt a, n in Slots

taskVars    == <<taskState, version, activePlan, currentAttempt, planCount>>
attemptVars == <<attemptState, attemptPlan, retryOf, failureKind, leaseLive>>
ledgerVars  == <<taskVars, attemptVars, row, art>>

Init ==
    /\ taskState = "awaiting_confirmation" /\ version = 0
    /\ planCount = 1 /\ activePlan = 1 /\ currentAttempt = None
    /\ attemptState = [a \in Attempts |-> "none"]
    /\ attemptPlan  = [a \in Attempts |-> None]
    /\ retryOf      = [a \in Attempts |-> None]
    /\ failureKind  = [a \in Attempts |-> "none"]
    /\ leaseLive    = [a \in Attempts |-> FALSE]
    /\ row = [a \in Attempts |-> [n \in Rows |-> "none"]]
    /\ art = [a \in Attempts |-> [n \in Slots |-> "none"]]

-----------------------------------------------------------------------------
(* Predicates the transactions share.                                      *)

\* The task still runs attempt a, which is still active.
Runs(a) ==
    /\ taskState \in ExecStates /\ currentAttempt = a
    /\ attemptState[a] = "active" /\ attemptPlan[a] = activePlan

HoldsLease(a)   == Runs(a) /\ leaseLive[a]
LeaseExpired(a) == Runs(a) /\ ~leaseLive[a]

\* The task waits, paused, on attempt a.
PausedOn(a) ==
    /\ taskState = "paused" /\ currentAttempt = a
    /\ attemptState[a] = "paused" /\ attemptPlan[a] = activePlan

\* The rows of a once the steps that were under way are failed as worker loss.
Interrupted(a) ==
    [n \in Rows |-> IF row[a][n] = "running" THEN "worker_loss" ELSE row[a][n]]

Failed(a) == {n \in Rows : row[a][n] \in FailedRows}

Authority(r) ==
    IF r \in {"artifact_invalidation"} \cup Marked THEN 2
    ELSE IF r \in {"worker_loss", "expired"} THEN 1 ELSE 0

\* selectAuthoritativeFailedStep: most authority; lowest step number among
\* Artifact invalidations, highest among the others.
IsAuthoritative(a, n) ==
    \A m \in Failed(a) :
        \/ Authority(row[a][m]) < Authority(row[a][n])
        \/ /\ Authority(row[a][m]) = Authority(row[a][n])
           /\ IF Authority(row[a][n]) = 2 THEN n <= m ELSE m <= n

RetryAllowed(a) ==
    \A n \in Failed(a) : IsAuthoritative(a, n) => row[a][n] \in Retryable

\* The kinds that recovery's scan and the retry check look for when SEALED.
ListedTerminal == IF Native THEN {Manifest} ELSE {Manifest, Report}
ListedOutputs  == IF Native THEN {} ELSE Steps

Residue(a) ==
    \E n \in Slots :
        \/ art[a][n] \in {"staging", "written", "pending", "pending_written"}
        \/ art[a][n] = "sealed" /\ n \in ListedTerminal
        \/ art[a][n] = "sealed" /\ n \in ListedOutputs /\ row[a][n] # "succeeded"

-----------------------------------------------------------------------------
(* Planning, confirmation and approval.                                    *)

CompleteConfirmation(to) ==
    /\ taskState = "awaiting_confirmation" /\ to \in {"awaiting_approval", "ready"}
    /\ taskState' = to /\ version' = version + 1
    /\ UNCHANGED <<activePlan, currentAttempt, planCount, attemptVars, row, art>>

\* transitionTask: a compare-and-set on state and version, with no lease check.
TransitionTask(v, from, to) ==
    /\ taskState = from /\ version = v
    /\ taskState' = to /\ version' = version + 1
    /\ UNCHANGED <<activePlan, currentAttempt, planCount, attemptVars, row, art>>

\* approve: the last approval makes the task ready, any other one leaves the
\* state and still bumps the version; a single rejection closes the task.
Approve(to) ==
    /\ to \in {"awaiting_approval", "ready", "rejected"}
    /\ to = "awaiting_approval" => version < MaxVersion
    /\ TransitionTask(version, "awaiting_approval", to)

CreatePlanRevision ==
    /\ taskState \in Revisable /\ planCount < MaxPlans
    /\ taskState' = "awaiting_confirmation" /\ version' = version + 1
    /\ planCount' = planCount + 1 /\ activePlan' = planCount + 1
    /\ currentAttempt' = IF taskState = "paused" THEN None ELSE currentAttempt
    /\ UNCHANGED <<attemptVars, row, art>>

-----------------------------------------------------------------------------
(* Leases and attempts.                                                    *)

\* Mutant of ClaimExecution: a paused attempt is claimed once more.
ReclaimExecution(a, p) ==
    /\ taskState = "ready" /\ p \in 1 .. planCount
    /\ attemptState[a] \in {"none", "paused"}
    /\ taskState' = "executing" /\ version' = version + 1
    /\ activePlan' = p /\ currentAttempt' = a
    /\ attemptState' = [attemptState EXCEPT ![a] = "active"]
    /\ attemptPlan'  = [attemptPlan EXCEPT ![a] = p]
    /\ retryOf'      = [retryOf EXCEPT ![a] = currentAttempt]
    /\ leaseLive'    = [leaseLive EXCEPT ![a] = TRUE]
    /\ UNCHANGED <<planCount, failureKind, row, art>>

\* The plan named by the caller only has to belong to the task.
ClaimExecution(a, p) ==
    /\ taskState = "ready" /\ p \in 1 .. planCount
    /\ attemptState[a] = "none" /\ \A b \in 1 .. a - 1 : attemptState[b] # "none"
    /\ taskState' = "executing" /\ version' = version + 1
    /\ activePlan' = p /\ currentAttempt' = a
    /\ attemptState' = [attemptState EXCEPT ![a] = "active"]
    /\ attemptPlan'  = [attemptPlan EXCEPT ![a] = p]
    /\ retryOf'      = [retryOf EXCEPT ![a] = currentAttempt]
    /\ leaseLive'    = [leaseLive EXCEPT ![a] = TRUE]
    /\ UNCHANGED <<planCount, failureKind, row, art>>

\* The clock passes lease_expires_at.
LeaseRunsOut(a) ==
    /\ attemptState[a] = "active" /\ leaseLive[a]
    /\ leaseLive' = [leaseLive EXCEPT ![a] = FALSE]
    /\ UNCHANGED <<taskVars, attemptState, attemptPlan, retryOf, failureKind, row, art>>

\* The part of pauseExpiredExecutionLease outside the step rows.
PauseForWorkerLoss(a) ==
    /\ LeaseExpired(a)
    /\ taskState' = "paused" /\ version' = version + 1
    /\ attemptState' = [attemptState EXCEPT ![a] = "paused"]
    /\ failureKind'  = [failureKind EXCEPT ![a] =
          IF \E n \in Rows : row[a][n] = "artifact_invalidation"
          THEN "artifact_invalidation" ELSE "worker_loss"]
    /\ UNCHANGED <<activePlan, currentAttempt, planCount, attemptPlan, retryOf, leaseLive>>

PauseExpired(a) ==
    /\ PauseForWorkerLoss(a)
    /\ row' = [row EXCEPT ![a] = Interrupted(a)]
    /\ UNCHANGED art

\* requireActiveLease, heartbeatExecutionLease, recordExecutionStep and
\* completeExecution without a live lease: the caller gets a conflict, and an
\* expired lease is turned into a worker loss on the way.
Refused(a) ==
    /\ ~HoldsLease(a)
    /\ IF LeaseExpired(a) THEN PauseExpired(a) ELSE UNCHANGED ledgerVars

\* Recovery's entry: pauses like PauseExpired and, when no row tells of the
\* loss, appends the row 'worker lease expired' after the last one.
Represented(a) ==
    \E n \in Rows : Interrupted(a)[n] \in
        {"worker_loss", "expired", "artifact_invalidation"} \cup Marked

AfterLast(a) ==
    {n \in Rows : /\ \A m \in Rows : m >= n => row[a][m] = "none"
                  /\ n > 1 => row[a][n - 1] # "none"}

ExpireExecutionLease(a) ==
    /\ PauseForWorkerLoss(a)
    /\ row' = [row EXCEPT ![a] = [n \in Rows |->
            IF n \in AfterLast(a) /\ ~Represented(a) THEN "expired" ELSE Interrupted(a)[n]]]
    /\ UNCHANGED art

MayPause(a, v) ==
    /\ taskState \in ExecStates /\ version = v /\ currentAttempt = a
    /\ attemptState[a] = "active"

PauseExecution(a, v, kind) ==
    /\ MayPause(a, v)
    /\ taskState' = "paused" /\ version' = version + 1
    /\ attemptState' = [attemptState EXCEPT ![a] = "paused"]
    /\ failureKind'  = [failureKind EXCEPT ![a] = kind]
    /\ UNCHANGED <<activePlan, currentAttempt, planCount, attemptPlan, retryOf,
                   leaseLive, row, art>>

\* Mutant of CancelExecution: only the task row is written.
CancelTaskOnly(a) ==
    /\ taskState \in ExecStates \cup {"paused"} /\ currentAttempt = a
    /\ attemptState[a] \in {"active", "paused"}
    /\ taskState' = "cancelled" /\ version' = version + 1
    /\ UNCHANGED <<activePlan, currentAttempt, planCount, attemptVars, row, art>>

CancelExecution(a) ==
    /\ taskState \in ExecStates \cup {"paused"} /\ currentAttempt = a
    /\ attemptState[a] \in {"active", "paused"}
    /\ taskState' = "cancelled" /\ version' = version + 1
    /\ attemptState' = [attemptState EXCEPT ![a] = "cancelled"]
    /\ leaseLive'    = [leaseLive EXCEPT ![a] = FALSE]
    /\ UNCHANGED <<activePlan, currentAttempt, planCount, attemptPlan, retryOf,
                   failureKind, row, art>>

CancelPausedExecution(a) ==
    /\ taskState = "paused" /\ currentAttempt = a /\ attemptState[a] = "paused"
    /\ taskState' = "cancelled" /\ version' = version + 1
    /\ attemptState' = [attemptState EXCEPT ![a] = "cancelled"]
    /\ UNCHANGED <<activePlan, currentAttempt, planCount, attemptPlan, retryOf,
                   failureKind, leaseLive, row, art>>

\* Mutant of RetryPausedExecution: quarantine that is pending does not count.
RetryWhilePending(a) ==
    /\ PausedOn(a) /\ RetryAllowed(a)
    /\ failureKind[a] = "worker_loss" =>
          \A n \in Slots : art[a][n] \notin {"staging", "written", "sealed"}
    /\ taskState' = "ready" /\ version' = version + 1
    /\ UNCHANGED <<activePlan, currentAttempt, planCount, attemptVars, row, art>>

RetryPausedExecution(a) ==
    /\ PausedOn(a) /\ RetryAllowed(a)
    /\ failureKind[a] = "worker_loss" => ~Residue(a)
    /\ taskState' = "ready" /\ version' = version + 1
    /\ UNCHANGED <<activePlan, currentAttempt, planCount, attemptVars, row, art>>

CompleteExecution(a) ==
    /\ HoldsLease(a) /\ art[a][Report] = "sealed"
    /\ \A n \in Rows : row[a][n] # "running"
    /\ taskState' = "completed" /\ version' = version + 1
    /\ attemptState' = [attemptState EXCEPT ![a] = "completed"]
    /\ UNCHANGED <<activePlan, currentAttempt, planCount, attemptPlan, retryOf,
                   failureKind, leaseLive, row, art>>

-----------------------------------------------------------------------------
(* Step rows.                                                              *)

CanBecome(old, new) ==
    \/ old = "none"
    \/ old = "running" /\ new # "running"
    \/ old = new /\ old # "running"

RecordStep(a, n, r) ==
    /\ HoldsLease(a) /\ CanBecome(row[a][n], r)
    /\ row' = [row EXCEPT ![a][n] = r]
    /\ UNCHANGED <<taskVars, attemptVars, art>>

\* Mutant of MayRecordLoss: the task need not wait on the attempt any more.
MayRecordLossLater(a, n, r) ==
    /\ attemptState[a] = "paused" /\ failureKind[a] = "worker_loss" /\ r \in LeaseLost
    /\ row[a][n] \in {"none", "running", "worker_loss", "expired", r}

\* A worker whose lease was lost leaves the real failure in its row.
MayRecordLoss(a, n, r) ==
    /\ PausedOn(a) /\ failureKind[a] = "worker_loss" /\ r \in LeaseLost
    /\ row[a][n] \in {"none", "running", "worker_loss", "expired", r}

RecordLeaseLostStep(a, n, r) ==
    /\ MayRecordLoss(a, n, r)
    /\ row' = [row EXCEPT ![a][n] = r]
    /\ UNCHANGED <<taskVars, attemptVars, art>>

Unmark(r) == CASE r = "marked_lease_lost" -> "lease_lost"
               [] r = "marked_retryable"  -> "retryable"
               [] OTHER                   -> "fatal"

MayClear(a, n) ==
    /\ \/ HoldsLease(a)
       \/ PausedOn(a) /\ failureKind[a] \in {"worker_loss", "artifact_invalidation"}
    /\ row[a][n] \in Marked /\ art[a][n] \in Invalid

ClearPromotion(a, n) ==
    /\ MayClear(a, n)
    /\ row' = [row EXCEPT ![a][n] = Unmark(row[a][n])]
    /\ UNCHANGED <<taskVars, attemptVars, art>>

\* promoteExecutionStepArtifactInvalidation.  An expired lease is paused first,
\* in the same transaction, and the pause commits even when nothing is promoted.
Promotable(a, n) ==
    LET rows == IF LeaseExpired(a) THEN Interrupted(a) ELSE row[a]
        kind == IF ~LeaseExpired(a) THEN failureKind[a]
                ELSE IF \E m \in Rows : row[a][m] = "artifact_invalidation"
                THEN "artifact_invalidation" ELSE "worker_loss"
    IN  /\ art[a][n] \in Live
        /\ \/ HoldsLease(a) /\ rows[n] \in Marked
           \/ /\ PausedOn(a) \/ LeaseExpired(a)
              /\ kind = "worker_loss" /\ rows[n] \in Marked \cup {"worker_loss"}

PromoteInvalidation(a, n) ==
    /\ Promotable(a, n)
    /\ row' = [row EXCEPT ![a] =
          [(IF LeaseExpired(a) THEN Interrupted(a) ELSE row[a])
               EXCEPT ![n] = "artifact_invalidation"]]
    /\ failureKind' = IF HoldsLease(a) THEN failureKind
                      ELSE [failureKind EXCEPT ![a] = "artifact_invalidation"]
    /\ IF LeaseExpired(a)
       THEN /\ taskState' = "paused" /\ version' = version + 1
            /\ attemptState' = [attemptState EXCEPT ![a] = "paused"]
            /\ UNCHANGED <<activePlan, currentAttempt, planCount>>
       ELSE UNCHANGED <<taskVars, attemptState>>
    /\ UNCHANGED <<attemptPlan, retryOf, leaseLive, art>>

PromotionRefused(a, n) ==
    /\ ~Promotable(a, n)
    /\ IF LeaseExpired(a) THEN PauseExpired(a) ELSE UNCHANGED ledgerVars

-----------------------------------------------------------------------------
(* Artifacts.                                                              *)

SetArtifact(a, n, s) ==
    /\ art' = [art EXCEPT ![a][n] = s]
    /\ UNCHANGED <<taskVars, attemptVars, row>>

\* Mutant of CreateStagingArtifact: lease_expires_at is not looked at.
CreateStagingLate(a, n) ==
    /\ Runs(a) /\ art[a][n] = "none" /\ SetArtifact(a, n, "staging")

CreateStagingArtifact(a, n) ==
    /\ HoldsLease(a) /\ art[a][n] = "none" /\ SetArtifact(a, n, "staging")

\* The file appears on disk: no database check guards it.
WriteFile(a, n) ==
    \/ art[a][n] = "staging" /\ SetArtifact(a, n, "written")
    \/ art[a][n] = "pending" /\ SetArtifact(a, n, "pending_written")
    \/ art[a][n] = "failed"  /\ UNCHANGED ledgerVars

SealArtifact(a, n) ==
    /\ HoldsLease(a) /\ art[a][n] = "written" /\ SetArtifact(a, n, "sealed")

\* Sealing without the lease fails the staged row and settles an expired lease.
SealRefused(a, n) ==
    \/ /\ ~HoldsLease(a) /\ art[a][n] \in {"staging", "written"}
       /\ art' = [art EXCEPT ![a][n] = "failed"]
       /\ IF LeaseExpired(a)
          THEN PauseForWorkerLoss(a) /\ row' = [row EXCEPT ![a] = Interrupted(a)]
          ELSE UNCHANGED <<taskVars, attemptVars, row>>
    \/ art[a][n] \notin {"staging", "written"} /\ UNCHANGED ledgerVars

Invalidated(a, ns) ==
    [art EXCEPT ![a] = [n \in Slots |->
        IF n \in ns /\ art[a][n] \in Live THEN "failed" ELSE art[a][n]]]

InvalidatePublication(a, n) ==
    /\ art' = Invalidated(a, {n}) /\ UNCHANGED <<taskVars, attemptVars, row>>

\* invalidateTerminalArtifacts lists more kinds than recovery does: among them
\* final_report and the skill_result of every step.
InvalidateTerminal(a) ==
    /\ art' = Invalidated(a, IF Native THEN Slots ELSE {Manifest, Report})
    /\ UNCHANGED <<taskVars, attemptVars, row>>

\* quarantineStagingArtifact: without a file there is nothing to move, and the
\* row is FAILED with the pending marker until a file shows up.
QuarantineStaging(a, n) ==
    \/ art[a][n] = "staging" /\ SetArtifact(a, n, "pending")
    \/ art[a][n] \in {"written", "pending_written"} /\ SetArtifact(a, n, "failed")
    \/ art[a][n] \in {"none", "sealed", "failed", "pending"} /\ UNCHANGED ledgerVars

-----------------------------------------------------------------------------
(* Any caller, in any order.                                               *)

TaskStep ==
    \/ \E to \in {"awaiting_approval", "ready"} : CompleteConfirmation(to)
    \/ \E to \in {"awaiting_approval", "ready", "rejected"} : Approve(to)
    \/ TransitionTask(version, "executing", "reviewing")
    \/ TransitionTask(version, "reviewing", "composing_report")
    \/ CreatePlanRevision

AttemptStep(a) ==
    \/ \E p \in Plans : ClaimExecution(a, p)
    \/ LeaseRunsOut(a)
    \/ Refused(a)
    \/ ExpireExecutionLease(a)
    \/ \E kind \in {"artifact_invalidation", "other"} : PauseExecution(a, version, kind)
    \/ CancelExecution(a)
    \/ CancelPausedExecution(a)
    \/ RetryPausedExecution(a)
    \/ CompleteExecution(a)
    \/ InvalidateTerminal(a)

SlotStep(a, n) ==
    \/ \E r \in RowStates \ {"none", "worker_loss", "expired"} : RecordStep(a, n, r)
    \/ \E r \in LeaseLost : RecordLeaseLostStep(a, n, r)
    \/ ClearPromotion(a, n)
    \/ PromoteInvalidation(a, n)
    \/ PromotionRefused(a, n)
    \/ CreateStagingArtifact(a, n)
    \/ WriteFile(a, n)
    \/ SealArtifact(a, n)
    \/ SealRefused(a, n)
    \/ InvalidatePublication(a, n)
    \/ QuarantineStaging(a, n)

Next == TaskStep \/ \E a \in Attempts : AttemptStep(a) \/ \E n \in Slots : SlotStep(a, n)

Spec == Init /\ [][Next]_ledgerVars

-----------------------------------------------------------------------------
(* Properties.                                                             *)

\* Every column holds a value of its type.
TypeOK ==
    /\ taskState \in TaskStates /\ version \in Nat
    /\ planCount \in Plans /\ activePlan \in Plans
    /\ currentAttempt \in Attempts \cup {None}
    /\ attemptState \in [Attempts -> {"none", "active", "paused", "cancelled", "completed"}]
    /\ attemptPlan \in [Attempts -> Plans \cup {None}]
    /\ retryOf \in [Attempts -> Attempts \cup {None}]
    /\ failureKind \in [Attempts -> FailureKinds]
    /\ leaseLive \in [Attempts -> BOOLEAN]
    /\ row \in [Attempts -> [Rows -> RowStates]]
    /\ art \in [Attempts -> [Slots -> ArtStates]]

\* An attempt is active exactly while the task executes that attempt under the
\* plan it was claimed for: no transaction, in any order of callers, leaves two
\* active attempts, or an executing task without one.
OneActiveAttempt ==
    \A a \in Attempts :
        attemptState[a] = "active" <=>
            /\ taskState \in ExecStates /\ currentAttempt = a
            /\ attemptPlan[a] = activePlan

\* An attempt that another one continues is over: it never runs, and is never the
\* task's current attempt, again.
SupersededIsOver ==
    /\ currentAttempt # None => attemptState[currentAttempt] # "none"
    /\ \A a, b \in Attempts : retryOf[b] = a =>
          currentAttempt # a /\ attemptState[a] \notin {"none", "active"}

\* The step publishes nothing in attempt a.
PublishesNothing(a) ==
    \A n \in Slots :
        /\ art'[a][n] = "sealed" => art[a][n] = "sealed"
        /\ art'[a][n] = "staging" => art[a][n] = "staging"
        /\ row'[a][n] = "succeeded" => row[a][n] = "succeeded"

\* A caller whose lease is gone publishes nothing: neither a new staging row,
\* nor a seal, nor a succeeded step appears in an attempt that was not active
\* under a live lease when the transaction began.
StaleCallersAreFenced ==
    [][\A a \in Attempts : ~HoldsLease(a) => PublishesNothing(a)]_ledgerVars

\* Attempt a was left behind for another execution: the task is ready to run
\* again after it, or a later attempt continues it.
ResumedFrom(a) ==
    \/ currentAttempt = a /\ taskState \in {"ready", "awaiting_confirmation", "awaiting_approval"}
    \/ \E b \in Attempts : retryOf[b] = a

\* A retry never outruns Artifact invalidation: an attempt with a step whose
\* Artifacts could not be invalidated, or whose cleanup is still undecided, is
\* never continued by another attempt.
NoRetryOverInvalidation ==
    \A a \in Attempts : ResumedFrom(a) =>
        \A n \in Rows : row[a][n] \notin {"artifact_invalidation"} \cup Marked

\* A retry of a lost worker starts clean: nothing that recovery looks for is
\* left in the attempt it continues, and stays so whatever the old worker does.
RetryStartsClean ==
    \A a \in Attempts : ResumedFrom(a) /\ failureKind[a] = "worker_loss" => ~Residue(a)

-----------------------------------------------------------------------------
(* The ledger implements ExecutionAuthority.                               *)

phase == CASE taskState \in ExecStates -> "held"
           [] taskState = "paused" -> "suspended"
           [] taskState \in {"completed", "cancelled", "rejected"} -> "closed"
           [] OTHER -> "open"

Authorized == INSTANCE ExecutionAuthority WITH
    holders <- {a \in Attempts : attemptState[a] = "active"},
    spent   <- {a \in Attempts : attemptState[a] # "none"}

\* Whatever callers do, and in whatever order their transactions commit, the
\* ledger hands authority to one fresh attempt at a time, takes it back for
\* good, and bumps state_version whenever the task row changes.
ImplementsAuthority == Authorized!Spec
=============================================================================
