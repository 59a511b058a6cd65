-------------------------- MODULE ExecutionEngine --------------------------
(***************************************************************************)
(* The callers of the ledger: one worker per attempt running               *)
(* LeaseExecutionEngine.execute, the recovery timer running                *)
(* ExecutionRecoveryService.recover, and the users' commands.  Transactions*)
(* of different callers interleave; a process crash stops every worker and *)
(* the recovery cycle between any two of their transactions.               *)
(*                                                                         *)
(* A worker is named by its attempt, whose lease token only it holds.  It  *)
(* drives one small machine per slot (pc[a][n]): the steps of a wave run   *)
(* concurrently, then the Evidence Manifest, then the report root.         *)
(* A fault is a failed query, a COMMIT whose answer is lost, or a failed   *)
(* invalidation; their number is bounded.                                  *)
(***************************************************************************)
EXTENDS ControlPlane

CONSTANTS
    WaveOf,         \* the scheduler's wave of each step
    ToolSteps,      \* steps run by a Tool: their failures allow a retry
    OptionalSteps,  \* optional contributors: their failures become a gap
    MaxFaults,      \* bound: faults in a behaviour
    MaxCrashes      \* bound: process crashes in a behaviour

ASSUME EngineAssumption ==
    /\ WaveOf \in [Steps -> Nat] /\ ToolSteps \subseteq Steps
    /\ OptionalSteps \subseteq Steps \ ToolSteps
    /\ MaxFaults \in Nat /\ MaxCrashes \in Nat

VARIABLES
    stage,     \* stage[a]: where execute() stands as a whole
    pc,        \* pc[a][n]: where the worker stands on slot n
    err,       \* err[a][n]: the failure it is about to record, or "none"
    known,     \* known[a]: the worker's copy of state_version (active.stateVersion)
    reuse,     \* reuse[a]: steps whose output is copied from the attempt retried
    cleanupFailed,  \* cleanupFailed[a]: cleanupRecoveryRequired
    recovery,  \* the cycle of the recovery timer
    faults, crashes

workerVars == <<stage, pc, err, known, reuse, cleanupFailed>>
budgetVars == <<faults, crashes>>
vars == <<ledgerVars, workerVars, recovery, budgetVars>>

\* The recovery timer between two cycles.  In a cycle, on is the execution it
\* handles, refs what listSucceededStepArtifactIds returned, todo what is left
\* to do about each Artifact listed.
Idle == [on |-> None, at |-> "idle", refs |-> {}, todo |-> [n \in Slots |-> "skip"]]

EngineInit ==
    /\ Init
    /\ stage = [a \in Attempts |-> "idle"]
    /\ pc    = [a \in Attempts |-> [n \in Slots |-> "todo"]]
    /\ err   = [a \in Attempts |-> [n \in Slots |-> "none"]]
    /\ known = [a \in Attempts |-> 0]
    /\ reuse = [a \in Attempts |-> {}]
    /\ cleanupFailed = [a \in Attempts |-> FALSE]
    /\ recovery = Idle /\ faults = 0 /\ crashes = 0

-----------------------------------------------------------------------------
(* Moving one slot of one worker.                                          *)

Rest == UNCHANGED <<stage, known, reuse, recovery, crashes>>

Goto(a, n, to) ==
    /\ pc' = [pc EXCEPT ![a][n] = to]
    /\ UNCHANGED <<err, cleanupFailed, faults>> /\ Rest

\* The same with the failure e to record.
Throw(a, n, to, e) ==
    /\ pc' = [pc EXCEPT ![a][n] = to] /\ err' = [err EXCEPT ![a][n] = e]
    /\ UNCHANGED <<cleanupFailed, faults>> /\ Rest

\* The same because of a fault.
FaultTo(a, n, to, e) ==
    /\ faults < MaxFaults /\ faults' = faults + 1
    /\ pc' = [pc EXCEPT ![a][n] = to] /\ err' = [err EXCEPT ![a][n] = e]
    /\ cleanupFailed' = [cleanupFailed EXCEPT ![a] = @ \/ e = "artifact_invalidation"]
    /\ Rest

At(a, n, where) == stage[a] = "running" /\ pc[a][n] = where

\* failureFrom of a conflict and of a failed query, per slot.
ConflictRow(n) == IF n = Manifest THEN "lease_lost_final" ELSE "lease_lost"
ErrorRow(n) == IF n \in ToolSteps \cup {Report} THEN "retryable" ELSE "fatal"
Mark(r) == CASE r = "lease_lost" -> "marked_lease_lost"
             [] r = "retryable"  -> "marked_retryable"
             [] OTHER            -> "marked_fatal"

\* The failures of an actor.  A Tool's may all be retried but those of safety;
\* any other step's of integrity or safety, "unsound", are fatal, which matters to
\* optional contributors alone.
ActorFailures(s) ==
    {"retryable", "fatal"} \cup (IF s \in OptionalSteps THEN {"unsound"} ELSE {})

\* The Artifact to copy is not sealed any more: a failure of integrity.
CopyFailure(s) ==
    IF s \in ToolSteps THEN "retryable" ELSE IF s \in OptionalSteps THEN "unsound" ELSE "fatal"

\* The row that a failure makes.
RowFor(e) == IF e = "unsound" THEN "fatal" ELSE e

\* Evidence and report failures are both recorded after the last step.
RowOf(n) == IF n = Report THEN Manifest ELSE n
Deferred(a, n) == err[a][n] \in Marked

-----------------------------------------------------------------------------
(* execute(): loading, and the steps of a wave.                            *)

\* The steps of the attempt retried whose output can be copied: succeeded,
\* still SEALED, under the same plan, after steps that are copied too.
Reusable(a, p) ==
    IF retryOf[a] = None \/ attemptPlan[retryOf[a]] # p THEN {}
    ELSE LET kept == {s \in Steps : /\ row[retryOf[a]][s] = "succeeded"
                                    /\ art[retryOf[a]][s] = "sealed"}
         IN  {s \in kept : \A t \in Steps : WaveOf[t] < WaveOf[s] => t \in kept}

Load(a) ==
    /\ stage[a] = "loading"
    /\ \/ /\ HoldsLease(a) /\ UNCHANGED ledgerVars
          /\ stage' = [stage EXCEPT ![a] = "running"]
          /\ known' = [known EXCEPT ![a] = version]
          /\ reuse' = [reuse EXCEPT ![a] = Reusable(a, activePlan)]
       \/ /\ Refused(a) /\ stage' = [stage EXCEPT ![a] = "ended"]
          /\ UNCHANGED <<known, reuse>>
    /\ UNCHANGED <<pc, err, cleanupFailed, recovery, budgetVars>>

InWave(a, s) ==
    \A t \in Steps : WaveOf[t] < WaveOf[s] => pc[a][t] \in {"done", "skipped"}

BeginStep(a, s) ==
    /\ At(a, s, "todo") /\ InWave(a, s) /\ s \notin reuse[a]
    /\ \/ RecordStep(a, s, "running") /\ Goto(a, s, "act")
       \/ Refused(a) /\ Throw(a, s, "fail", "lease_lost")

\* A reused step writes no running row: refreshLease, then the copy.
BeginReuse(a, s) ==
    /\ At(a, s, "todo") /\ InWave(a, s) /\ s \in reuse[a]
    /\ \/ /\ HoldsLease(a) /\ UNCHANGED ledgerVars
          /\ IF art[retryOf[a]][s] = "sealed"
             THEN Goto(a, s, "create") ELSE Throw(a, s, "fail", CopyFailure(s))
       \/ Refused(a) /\ Throw(a, s, "fail", "lease_lost")

\* The actor ran: it failed, or its result still needs the lease.
Act(a, s) ==
    /\ At(a, s, "act")
    /\ \/ \E e \in ActorFailures(s) : UNCHANGED ledgerVars /\ Throw(a, s, "fail", e)
       \/ HoldsLease(a) /\ UNCHANGED ledgerVars /\ Goto(a, s, "create")
       \/ Refused(a) /\ Throw(a, s, "fail", "lease_lost")

-----------------------------------------------------------------------------
(* ControlArtifactStore.writeBytes, for any slot.                          *)

\* Mutant of FailAt: a report that was sealed is not compensated.
FailAtOnce(n, e) == "fail"

\* Mutant of FailAt: the native report is compensated like the editorial one.
FailAtAlike(n, e) == IF n = Report THEN "undo" ELSE "fail"

\* Where a failure of slot n goes once its publication has begun: the editorial
\* report compensates its publication group, the native one withdraws the
\* terminal Artifacts after a conflict.
FailAt(n, e) == IF n # Report THEN "fail"
                ELSE IF ~Native THEN "undo"
                ELSE IF e = "lease_lost" THEN "withdraw" ELSE "fail"
AfterSeal(n) == IF n \in Steps THEN "record" ELSE IF n = Manifest THEN "check" ELSE "complete"

\* Any other error ends in a look at the row, in Tidy.
Create(a, n) ==
    /\ At(a, n, "create")
    /\ \/ CreateStagingArtifact(a, n) /\ Goto(a, n, "write")
       \/ /\ ~HoldsLease(a) /\ UNCHANGED ledgerVars
          /\ Throw(a, n, FailAt(n, ConflictRow(n)), ConflictRow(n))
       \/ /\ CreateStagingArtifact(a, n) \/ UNCHANGED ledgerVars
          /\ FaultTo(a, n, "tidy", ErrorRow(n))

Write(a, n) ==
    /\ At(a, n, "write")
    /\ \/ WriteFile(a, n) /\ Goto(a, n, "seal")
       \/ /\ WriteFile(a, n) \/ UNCHANGED ledgerVars
          /\ FaultTo(a, n, "tidy", ErrorRow(n))

\* Mutant of Seal: the row is sealed without a look at the lease.
SealUnfenced(a, n) ==
    /\ At(a, n, "seal") /\ art[a][n] = "written"
    /\ SetArtifact(a, n, "sealed") /\ Goto(a, n, AfterSeal(n))

Seal(a, n) ==
    /\ At(a, n, "seal")
    /\ \/ SealArtifact(a, n) /\ Goto(a, n, AfterSeal(n))
       \/ SealRefused(a, n) /\ Throw(a, n, "tidy", ConflictRow(n))
       \/ /\ SealArtifact(a, n) \/ UNCHANGED ledgerVars
          /\ FaultTo(a, n, "tidy", ErrorRow(n))

\* The writer reads the row back.  SEALED after all is a success; a live row is
\* invalidated, and a late file that recovery waits for moved into quarantine.
\* When that fails the publication is undecided: ArtifactInvalidationError.
Tidy(a, n) ==
    /\ At(a, n, "tidy")
    /\ \/ /\ art[a][n] = "sealed" /\ UNCHANGED ledgerVars
          /\ Throw(a, n, AfterSeal(n), "none")
       \/ /\ IF art[a][n] = "pending_written"
             THEN QuarantineStaging(a, n) ELSE InvalidatePublication(a, n)
          /\ art[a][n] # "sealed" /\ Throw(a, n, FailAt(n, err[a][n]), err[a][n])
       \/ /\ UNCHANGED ledgerVars
          /\ FaultTo(a, n, FailAt(n, "artifact_invalidation"), "artifact_invalidation")

-----------------------------------------------------------------------------
(* recordSucceededExecutionStep and the failure path of a step.            *)

\* Mutant of RecordSuccess: an error is taken to mean that nothing was written.
RecordSuccessOnce(a, s) ==
    /\ At(a, s, "record")
    /\ \/ RecordStep(a, s, "succeeded") /\ Goto(a, s, "done")
       \/ Refused(a) /\ Throw(a, s, "undo", "lease_lost")
       \/ /\ RecordStep(a, s, "succeeded") \/ UNCHANGED ledgerVars
          /\ FaultTo(a, s, "undo", ErrorRow(s))

\* Two tries; only a query error leads to the second one.
RecordSuccess(a, s) ==
    /\ At(a, s, "record")
    /\ \/ RecordStep(a, s, "succeeded") /\ Goto(a, s, "done")
       \/ Refused(a) /\ Throw(a, s, "undo", "lease_lost")
       \/ /\ RecordStep(a, s, "succeeded") \/ UNCHANGED ledgerVars
          /\ FaultTo(a, s, "record_again", "none")

RecordAgain(a, s) ==
    /\ At(a, s, "record_again")
    /\ \/ RecordStep(a, s, "succeeded") /\ Goto(a, s, "done")
       \/ Refused(a) /\ Throw(a, s, "read_back", "lease_lost")
       \/ /\ RecordStep(a, s, "succeeded") \/ UNCHANGED ledgerVars
          /\ FaultTo(a, s, "read_back", ErrorRow(s))

\* Only the persisted row tells whether the step succeeded.  If it does not,
\* or cannot be read, cleanup is deferred until the failure is recorded.
ReadBack(a, s) ==
    /\ At(a, s, "read_back") /\ UNCHANGED ledgerVars
    /\ \/ row[a][s] = "succeeded" /\ Throw(a, s, "done", "none")
       \/ row[a][s] # "succeeded" /\ Throw(a, s, "fail", Mark(err[a][s]))
       \/ FaultTo(a, s, "fail", Mark(err[a][s]))

\* Compensation of an Artifact that no row refers to: ArtifactPublicationGroup.
Undo(a, n) ==
    /\ At(a, n, "undo")
    /\ \/ InvalidatePublication(a, n) /\ Goto(a, n, "fail")
       \/ UNCHANGED ledgerVars /\ FaultTo(a, n, "fail", "artifact_invalidation")

\* An optional contributor's failure becomes a gap, unless it is one of integrity
\* or safety, its cleanup failed or its lease was lost.  A deferred cleanup is not
\* looked at here.
BecomesGap(a, n) ==
    /\ n \in OptionalSteps
    /\ err[a][n] \in {"retryable", "fatal", "marked_retryable", "marked_fatal"}

NextAfterRecord(a, n) == IF Deferred(a, n) THEN "cleanup" ELSE "paused"

RecordFailure(a, n) ==
    /\ At(a, n, "fail")
    /\ IF BecomesGap(a, n)
       THEN \/ RecordStep(a, n, "skipped") /\ Goto(a, n, "skipped")
            \/ HoldsLease(a) /\ ~CanBecome(row[a][n], "skipped")
               /\ UNCHANGED ledgerVars /\ Goto(a, n, "rejected")
            \/ Refused(a) /\ Goto(a, n, "rejected")
       ELSE \/ RecordStep(a, RowOf(n), RowFor(err[a][n])) /\ Goto(a, n, NextAfterRecord(a, n))
            \/ HoldsLease(a) /\ ~CanBecome(row[a][RowOf(n)], RowFor(err[a][n]))
               /\ UNCHANGED ledgerVars /\ Goto(a, n, "fail_late")
            \/ Refused(a) /\ Goto(a, n, "fail_late")
            \/ UNCHANGED ledgerVars /\ FaultTo(a, n, "rejected", err[a][n])

\* recordFailedExecutionStep after a conflict.
RecordFailureLate(a, n) ==
    /\ At(a, n, "fail_late")
    /\ \/ /\ err[a][n] \in LeaseLost
          /\ \/ RecordLeaseLostStep(a, RowOf(n), err[a][n]) /\ Goto(a, n, NextAfterRecord(a, n))
             \/ /\ ~MayRecordLoss(a, RowOf(n), err[a][n])
                /\ UNCHANGED ledgerVars /\ Goto(a, n, "rejected")
       \/ /\ err[a][n] = "artifact_invalidation"
          /\ \/ PromoteInvalidation(a, n) /\ Goto(a, n, "paused")
             \/ PromotionRefused(a, n) /\ Goto(a, n, "rejected")
       \/ /\ err[a][n] \notin LeaseLost \cup {"artifact_invalidation"}
          /\ UNCHANGED ledgerVars /\ Goto(a, n, "rejected")

\* Deferred cleanup: the failure is on record, so the Artifact goes.
Cleanup(a, s) ==
    /\ At(a, s, "cleanup")
    /\ \/ InvalidatePublication(a, s) /\ Goto(a, s, "clear")
       \/ UNCHANGED ledgerVars /\ FaultTo(a, s, "promote", "artifact_invalidation")

Clear(a, s) ==
    /\ At(a, s, "clear")
    /\ \/ ClearPromotion(a, s) /\ Throw(a, s, "paused", Unmark(err[a][s]))
       \/ ~MayClear(a, s) /\ UNCHANGED ledgerVars /\ Goto(a, s, "rejected")

Promote(a, s) ==
    /\ At(a, s, "promote")
    /\ \/ PromoteInvalidation(a, s) /\ Goto(a, s, "paused")
       \/ PromotionRefused(a, s) /\ Goto(a, s, "rejected")

-----------------------------------------------------------------------------
(* execute(): the Evidence Manifest and the report.                        *)

\* Mutant of BeginManifest: a failed step does not stop the execution.
BeginManifestAnyway(a) ==
    /\ At(a, Manifest, "todo") /\ UNCHANGED ledgerVars
    /\ \A s \in Steps : pc[a][s] \in {"done", "skipped", "paused"}
    /\ Goto(a, Manifest, "create")

BeginManifest(a) ==
    /\ At(a, Manifest, "todo") /\ UNCHANGED ledgerVars
    /\ \A s \in Steps : pc[a][s] \in {"done", "skipped"}
    /\ \/ Goto(a, Manifest, "create")
       \/ Throw(a, Manifest, "fail", "fatal")

\* ensureActive inside withLeaseHeartbeat, once the manifest is sealed.
CheckManifest(a) ==
    /\ At(a, Manifest, "check")
    /\ \/ HoldsLease(a) /\ UNCHANGED ledgerVars /\ Goto(a, Manifest, "done")
       \/ Refused(a) /\ Throw(a, Manifest, "fail", "lease_lost_final")

BeginReport(a) ==
    /\ At(a, Report, "todo") /\ pc[a][Manifest] = "done"
    /\ \/ /\ UNCHANGED ledgerVars
          /\ \/ Native /\ Goto(a, Report, "create")
             \/ \E e \in {"retryable", "fatal"} : Throw(a, Report, "fail", e)
       \/ ~Native /\ HoldsLease(a) /\ UNCHANGED ledgerVars /\ Goto(a, Report, "review")
       \/ ~Native /\ Refused(a) /\ Throw(a, Report, "withdraw", "lease_lost")

\* transitionTask under the worker's own copy of the version, or its conflict.
Transition(a, from, to, at, next) ==
    /\ At(a, Report, at)
    /\ \/ /\ TransitionTask(known[a], from, to)
          /\ known' = [known EXCEPT ![a] = @ + 1]
          /\ pc' = [pc EXCEPT ![a][Report] = next]
          /\ UNCHANGED <<stage, err, reuse, cleanupFailed, recovery, budgetVars>>
       \/ /\ taskState # from \/ version # known[a]
          /\ UNCHANGED ledgerVars /\ Throw(a, Report, "withdraw", "lease_lost")

Review(a)  == Transition(a, "executing", "reviewing", "review", "compose")
Compose(a) == Transition(a, "reviewing", "composing_report", "compose", "publish")

\* The reviewer's verdict pauses the execution; its row comes after the
\* report's, and no retry is offered.
ReviewPauses(a) ==
    /\ At(a, Report, "compose")
    /\ \/ RecordStep(a, Report, "fatal") /\ Goto(a, Report, "paused")
       \/ Refused(a) /\ Throw(a, Report, "withdraw", "lease_lost")

Publish(a) ==
    /\ At(a, Report, "publish")
    /\ \/ HoldsLease(a) /\ UNCHANGED ledgerVars /\ Goto(a, Report, "create")
       \/ Refused(a) /\ Throw(a, Report, "withdraw", "lease_lost")

\* A conflict before anything is tracked for compensation.
Withdraw(a) ==
    /\ At(a, Report, "withdraw")
    /\ \/ InvalidateTerminal(a) /\ Goto(a, Report, "fail")
       \/ UNCHANGED ledgerVars /\ FaultTo(a, Report, "rejected", "lease_lost")

-----------------------------------------------------------------------------
(* The end of execute().                                                   *)

\* Whatever the reason, what the worker had in memory is gone.
End(a) ==
    /\ stage' = [stage EXCEPT ![a] = "ended"]
    /\ pc'    = [pc EXCEPT ![a] = [n \in Slots |-> "todo"]]
    /\ err'   = [err EXCEPT ![a] = [n \in Slots |-> "none"]]
    /\ known' = [known EXCEPT ![a] = 0]
    /\ reuse' = [reuse EXCEPT ![a] = {}]
    /\ cleanupFailed' = [cleanupFailed EXCEPT ![a] = FALSE]
    /\ UNCHANGED <<recovery, crashes>>

\* completeExecution; its COMMIT may go through although the worker sees an error.
Complete(a) ==
    /\ At(a, Report, "complete")
    /\ \/ CompleteExecution(a) /\ End(a) /\ UNCHANGED faults
       \/ Refused(a) /\ Throw(a, Report, FailAt(Report, "lease_lost"), "lease_lost")
       \/ /\ CompleteExecution(a) \/ UNCHANGED ledgerVars
          /\ FaultTo(a, Report, FailAt(Report, "retryable"), "retryable")

\* Promise.allSettled over a wave, or the catch of the manifest or the report:
\* nothing is under way and something failed.
Settled(a) ==
    /\ stage[a] = "running"
    /\ \A n \in Slots : pc[a][n] \in {"todo", "done", "skipped", "paused", "rejected"}
    /\ \A s \in Steps : pc[a][s] = "todo" => ~InWave(a, s)
    /\ \E n \in Slots : pc[a][n] \in {"paused", "rejected"}

PauseReason(a) == IF cleanupFailed[a] THEN "artifact_invalidation" ELSE "other"

\* pauseExecution, whose conflict is swallowed, or the error is thrown on.
Settle(a) ==
    /\ Settled(a)
    /\ IF \E n \in Slots : pc[a][n] = "paused"
       THEN \/ PauseExecution(a, known[a], PauseReason(a)) /\ End(a) /\ UNCHANGED faults
            \/ ~MayPause(a, known[a]) /\ UNCHANGED ledgerVars /\ End(a) /\ UNCHANGED faults
            \/ /\ UNCHANGED ledgerVars /\ End(a)
               /\ faults < MaxFaults /\ faults' = faults + 1
       ELSE UNCHANGED ledgerVars /\ End(a) /\ UNCHANGED faults

\* The process dies: every worker and the recovery cycle with it.
Crash ==
    /\ crashes < MaxCrashes /\ crashes' = crashes + 1
    /\ \E a \in Attempts : stage[a] \in {"loading", "running"}
    /\ stage' = [a \in Attempts |-> IF stage[a] = "idle" THEN "idle" ELSE "ended"]
    /\ pc'    = [a \in Attempts |-> [n \in Slots |-> "todo"]]
    /\ err'   = [a \in Attempts |-> [n \in Slots |-> "none"]]
    /\ known' = [a \in Attempts |-> 0] /\ reuse' = [a \in Attempts |-> {}]
    /\ cleanupFailed' = [a \in Attempts |-> FALSE]
    /\ recovery' = Idle /\ UNCHANGED <<ledgerVars, faults>>

-----------------------------------------------------------------------------
(* ExecutionRecoveryService.recover, one execution per cycle.              *)

RecoveryStep(next) ==
    recovery' = next /\ UNCHANGED <<workerVars, crashes>>

\* The same because a query failed.
RecoveryFault(next) ==
    /\ faults < MaxFaults /\ faults' = faults + 1
    /\ RecoveryStep(next)

Recoverable(a) ==
    /\ attemptState[a] \in {"paused", "cancelled"}
    /\ failureKind[a] \in {"worker_loss", "artifact_invalidation"} /\ Residue(a)

\* Mutant of PickUp: only leases of executing tasks are scanned for expiry.
PickUpExecuting(a) ==
    /\ recovery = Idle
    /\ \/ taskState = "executing" /\ ExpireExecutionLease(a)
       \/ Recoverable(a) /\ UNCHANGED ledgerVars
    /\ UNCHANGED faults /\ RecoveryStep([Idle EXCEPT !.on = a, !.at = "refs"])

PickUp(a) ==
    /\ recovery = Idle
    /\ \/ ExpireExecutionLease(a)
       \/ Recoverable(a) /\ UNCHANGED ledgerVars
    /\ UNCHANGED faults /\ RecoveryStep([Idle EXCEPT !.on = a, !.at = "refs"])

\* Without the references, no step output counts as unpublished.
ListReferences ==
    LET on == recovery.on
        next(refs) == [recovery EXCEPT !.at = "list", !.refs = refs]
    IN  /\ recovery.at = "refs" /\ UNCHANGED ledgerVars
        /\ \/ UNCHANGED faults /\ RecoveryStep(next({s \in Steps : row[on][s] = "succeeded"}))
           \/ RecoveryFault(next(Steps))

\* Mutant of Recovery: an Artifact that is FAILED already is passed over.
RecoveryOfLive(n) ==
    LET state == art[recovery.on][n]
    IN  IF state \in {"staging", "written"} THEN "quarantine"
        ELSE IF state = "sealed" /\ n \notin recovery.refs THEN "invalidate"
        ELSE "skip"

\* Mutant of Recovery: only what was still being staged is recovered.
RecoveryOfStaged(n) ==
    IF art[recovery.on][n] \in {"staging", "written", "pending", "pending_written"}
    THEN "quarantine" ELSE "skip"

Recovery(n) ==
    LET state == art[recovery.on][n]
    IN  IF state \in {"staging", "written", "pending", "pending_written"} THEN "quarantine"
        ELSE IF state = "sealed" /\ n \notin recovery.refs THEN "invalidate"
        ELSE "skip"

ListArtifacts ==
    /\ recovery.at = "list" /\ UNCHANGED ledgerVars
    /\ \/ /\ UNCHANGED faults
          /\ RecoveryStep([recovery EXCEPT !.at = "items",
                                          !.todo = [n \in Slots |-> Recovery(n)]])
       \/ RecoveryFault(Idle)

\* The listed Artifacts in order of creation; one that fails is skipped.
RecoverArtifact(n) ==
    LET on   == recovery.on
        next == [recovery EXCEPT !.todo[n] = "skip"]
    IN  /\ recovery.at = "items" /\ recovery.todo[n] # "skip"
        /\ \A m \in 1 .. n - 1 : recovery.todo[m] = "skip"
        /\ \/ /\ IF recovery.todo[n] = "quarantine"
                 THEN QuarantineStaging(on, n) ELSE InvalidatePublication(on, n)
              /\ UNCHANGED faults /\ RecoveryStep(next)
           \/ UNCHANGED ledgerVars /\ RecoveryFault(next)

EndCycle ==
    /\ recovery.at = "items" /\ \A n \in Slots : recovery.todo[n] = "skip"
    /\ UNCHANGED <<ledgerVars, faults>> /\ RecoveryStep(Idle)

-----------------------------------------------------------------------------
(* The users' commands.                                                    *)

Claim(a, p) ==
    /\ ClaimExecution(a, p)
    /\ stage' = [stage EXCEPT ![a] = "loading"]
    /\ UNCHANGED <<pc, err, known, reuse, cleanupFailed, recovery, budgetVars>>

Command ==
    /\ \/ \E to \in {"awaiting_approval", "ready"} : CompleteConfirmation(to)
       \/ \E to \in {"awaiting_approval", "ready", "rejected"} : Approve(to)
       \/ CreatePlanRevision
       \/ \E a \in Attempts : \/ CancelExecution(a)
                              \/ CancelPausedExecution(a)
                              \/ RetryPausedExecution(a)
    /\ UNCHANGED <<workerVars, recovery, budgetVars>>

LeaseExpires(a) == LeaseRunsOut(a) /\ UNCHANGED <<workerVars, recovery, budgetVars>>

-----------------------------------------------------------------------------

StepWork(a, s) ==
    \/ BeginStep(a, s)     \/ BeginReuse(a, s) \/ Act(a, s)
    \/ RecordSuccess(a, s) \/ RecordAgain(a, s) \/ ReadBack(a, s)
    \/ Cleanup(a, s)       \/ Clear(a, s)      \/ Promote(a, s)

SlotWork(a, n) ==
    \/ Create(a, n) \/ Write(a, n) \/ Seal(a, n) \/ Tidy(a, n) \/ Undo(a, n)
    \/ RecordFailure(a, n) \/ RecordFailureLate(a, n)

ReportWork(a) ==
    \/ BeginManifest(a) \/ CheckManifest(a)
    \/ BeginReport(a)   \/ Review(a)   \/ Compose(a) \/ ReviewPauses(a)
    \/ Publish(a)       \/ Withdraw(a) \/ Complete(a)

Work(a) ==
    \/ Load(a) \/ Settle(a) \/ ReportWork(a)
    \/ \E s \in Steps : StepWork(a, s)
    \/ \E n \in Slots : SlotWork(a, n)

Recover ==
    \/ ListReferences \/ ListArtifacts \/ EndCycle
    \/ \E n \in Slots : RecoverArtifact(n)

EngineNext ==
    \/ Command \/ Crash \/ Recover
    \/ \E a \in Attempts :
          Work(a) \/ PickUp(a) \/ LeaseExpires(a) \/ \E p \in Plans : Claim(a, p)

EngineSpec == EngineInit /\ [][EngineNext]_vars

\* A worker that runs keeps running; a lease nobody renews runs out; every
\* cycle of the recovery timer gets to every execution it lists.
EngineFairness ==
    /\ WF_vars(Recover)
    /\ \A a \in Attempts :
          /\ WF_vars(Work(a)) /\ SF_vars(PickUp(a))
          /\ WF_vars(stage[a] = "ended" /\ LeaseExpires(a))

FairEngineSpec == EngineSpec /\ EngineFairness

-----------------------------------------------------------------------------
(* Properties.                                                             *)

\* Workers, recovery and users only ever do what ControlPlane allows.
ImplementsLedger == Spec

\* A succeeded step keeps its sealed output, so that a retry may copy it instead
\* of running the step again: no compensation, late cleanup or recovery, of the
\* worker or of its successor, invalidates what a succeeded row refers to.  (Not
\* so for native plans, where Withdraw takes the outputs of the steps too.)
CheckpointsSurvive ==
    \A a \in Attempts, s \in Steps : row[a][s] = "succeeded" => art[a][s] = "sealed"

\* A completed execution is whole: its manifest is sealed, and every step either
\* succeeded, with its output sealed, or is the gap of an optional contributor.
CompletedIsWhole ==
    taskState = "completed" =>
        /\ art[currentAttempt][Manifest] = "sealed"
        /\ \A s \in Steps :
              \/ row[currentAttempt][s] = "succeeded" /\ art[currentAttempt][s] = "sealed"
              \/ row[currentAttempt][s] = "skipped" /\ s \in OptionalSteps

\* The report that a completed task is bound to stays sealed.
CompletedReportIsSealed ==
    taskState = "completed" => art[currentAttempt][Report] = "sealed"

\* A completed execution has no sealed step output that no succeeded step names:
\* what a failed contributor had sealed is invalidated.
NoUnpublishedOutput ==
    taskState = "completed" =>
        \A s \in Steps : art[currentAttempt][s] = "sealed" => row[currentAttempt][s] = "succeeded"

\* An attempt that is continued by another one has no report left sealed: its
\* publication was compensated, or was never reached.
RetriedHasNoReport ==
    \A a, b \in Attempts : retryOf[b] = a => art[a][Report] # "sealed"

\* A worker that is gone does not hold the task for ever: recovery or a user
\* takes the execution out of its hands.
LostWorkerIsReplaced ==
    \A a \in Attempts :
        attemptState[a] = "active" /\ stage[a] = "ended" ~> attemptState[a] # "active"

\* What a lost worker left behind is dealt with: a paused worker loss ends up
\* free of residue, whatever the interleaving with the late worker, except for
\* staged Artifacts whose file was never written.
ResidueIsCleaned ==
    \A a \in Attempts :
        attemptState[a] = "paused" /\ failureKind[a] = "worker_loss" ~>
            \/ \A n \in Slots : art[a][n] \notin {"staging", "written", "pending_written"}
            \/ attemptState[a] # "paused"

\* Recovery does not let the report of a lost worker stand: sooner or later it is
\* invalidated, even when a cycle fails half way.
LostReportIsInvalidated ==
    \A a \in Attempts :
        attemptState[a] \in {"paused", "cancelled"} /\ failureKind[a] = "worker_loss"
            ~> art[a][Report] # "sealed"

\* A paused worker loss that its rows allow to retry can in the end be retried.
RetryBecomesPossible ==
    \A a \in Attempts :
        PausedOn(a) /\ failureKind[a] = "worker_loss" /\ RetryAllowed(a)
            ~> ~PausedOn(a) \/ ~Residue(a)
=============================================================================
