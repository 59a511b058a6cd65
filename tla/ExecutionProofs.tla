-------------------------- MODULE ExecutionProofs ---------------------------
(***************************************************************************)
(* Proofs about ControlPlane and ExecutionEngine, for every number of      *)
(* steps, attempts, plans, faults and crashes, for every choice of waves   *)
(* and, unless a theorem says otherwise, for both kinds of plan.           *)
(*                                                                         *)
(* Part 1, the ledger.  Lifecycle (the types, the one active attempt, and  *)
(* the attempts that are over) is the inductive invariant of the task's    *)
(* life; CleanlyResumed is what it takes to carry the two retry invariants *)
(* through every step of a caller that no longer holds a lease.  In the    *)
(* proof of a step, <1>k is the k-th action of Next, in the order in which *)
(* Next lists them.                                                        *)
(*                                                                         *)
(* Part 2, the engine implements the ledger.  EngineInv says what the      *)
(* engine must remember for that: a failure about to be recorded is a      *)
(* failure that a row can hold, and the recovery cycle works on an         *)
(* attempt.  Each lemma named ...Sound takes a group of actions and shows  *)
(* that it keeps EngineInv and is a transaction of the ledger.             *)
(*                                                                         *)
(* Part 3, for editorial plans a succeeded step keeps its sealed output.   *)
(* Two parties invalidate what was sealed: the worker, which does so only  *)
(* where its step is not on record as succeeded, and recovery, which only  *)
(* ever works on an attempt that stopped.  CheckpointInv says so.          *)
(*                                                                         *)
(* Part 4, a completed execution is whole, and a retried one left no       *)
(* report.  CompletionInv follows the worker to the report: the slots come *)
(* in order, what was published is there as long as the report may be      *)
(* completed, and a report is only ever left sealed where that is on       *)
(* record.  Shifts and Legal reduce a move of the worker to the one slot   *)
(* that it moves, Touches a transaction to the one attempt it concerns.    *)
(***************************************************************************)
EXTENDS ExecutionEngine, WellFoundedInduction, TLAPS

(***************************************************************************)
(* Part 1: the ledger.                                                     *)
(***************************************************************************)

-----------------------------------------------------------------------------
(* Facts about the constants, the values and the helpers.                  *)

\* What the assumptions say of the sets that number rows, slots and attempts.
LEMMA LedgerFacts ==
    /\ Attempts \subseteq Nat /\ None \notin Attempts
    /\ 1 \in Plans /\ Plans \subseteq Nat
    /\ Steps \subseteq Slots /\ Manifest \in Slots /\ Report \in Slots
    /\ Slots \subseteq Rows /\ Rows \subseteq Nat
BY LedgerAssumption DEF Attempts, Plans, Steps, Manifest, Report, Slots, Rows, None

\* Every value an action writes in a step row or an Artifact is one of its states.
LEMMA ValueFacts ==
    /\ "none" \in RowStates /\ "worker_loss" \in RowStates /\ "expired" \in RowStates
    /\ "artifact_invalidation" \in RowStates /\ LeaseLost \subseteq RowStates
    /\ \A r : Unmark(r) \in RowStates
    /\ Live \subseteq ArtStates /\ Invalid \subseteq ArtStates /\ "none" \in ArtStates
BY DEF RowStates, FailedRows, Retryable, Unretryable, Marked, LeaseLost, Unmark,
       Live, Invalid, ArtStates

\* Replacing one row of a table, or one field of a row, keeps the table's type.
LEMMA UpdateType ==
    ASSUME NEW D, NEW S, NEW f \in [Attempts -> [D -> S]], NEW a \in Attempts
    PROVE  /\ \A g \in [D -> S] : [f EXCEPT ![a] = g] \in [Attempts -> [D -> S]]
           /\ \A n \in D, v \in S : [f EXCEPT ![a][n] = v] \in [Attempts -> [D -> S]]
OBVIOUS

\* Failing the running rows of an attempt yields step rows.
LEMMA InterruptedType ==
    ASSUME TypeOK, NEW a \in Attempts
    PROVE  Interrupted(a) \in [Rows -> RowStates]
BY ValueFacts DEF TypeOK, Interrupted

\* Failing any Artifacts of an attempt yields Artifacts.
LEMMA InvalidatedType ==
    ASSUME TypeOK, NEW a \in Attempts, NEW ns
    PROVE  Invalidated(a, ns) \in [Attempts -> [Slots -> ArtStates]]
<1>1. [n \in Slots |-> IF n \in ns /\ art[a][n] \in Live THEN "failed" ELSE art[a][n]]
         \in [Slots -> ArtStates]
  BY ValueFacts DEF TypeOK, Invalid
<1>2. QED
  BY <1>1, UpdateType DEF Invalidated, TypeOK

\* The columns other than row and art are changed by a pause as TypeOK asks.
LEMMA PauseForWorkerLossType ==
    ASSUME TypeOK, NEW a \in Attempts, PauseForWorkerLoss(a),
           row' \in [Attempts -> [Rows -> RowStates]], art' \in [Attempts -> [Slots -> ArtStates]]
    PROVE  TypeOK'
<1> DEFINE kind == IF \E n \in Rows : row[a][n] = "artifact_invalidation"
                   THEN "artifact_invalidation" ELSE "worker_loss"
<1>1. kind \in FailureKinds
  BY DEF FailureKinds
<1>2. failureKind' = [failureKind EXCEPT ![a] = kind]
  BY DEF PauseForWorkerLoss
<1> HIDE DEF kind
<1>3. failureKind' \in [Attempts -> FailureKinds]
  BY <1>1, <1>2 DEF TypeOK
<1>4. attemptState' \in [Attempts -> {"none", "active", "paused", "cancelled", "completed"}]
  BY DEF TypeOK, PauseForWorkerLoss
<1>5. QED
  BY <1>3, <1>4 DEF TypeOK, PauseForWorkerLoss, TaskStates

\* So does the whole of pauseExpiredExecutionLease.
LEMMA PauseExpiredType ==
    ASSUME TypeOK, NEW a \in Attempts, PauseExpired(a)
    PROVE  TypeOK'
<1>1. row' \in [Attempts -> [Rows -> RowStates]]
  BY InterruptedType, UpdateType DEF TypeOK, PauseExpired
<1>2. QED
  BY <1>1, PauseForWorkerLossType DEF TypeOK, PauseExpired

\* So does a change of one Artifact.
LEMMA SetArtifactType ==
    ASSUME TypeOK, NEW a \in Attempts, NEW n \in Slots, NEW s \in ArtStates, SetArtifact(a, n, s)
    PROVE  TypeOK'
<1>1. art' \in [Attempts -> [Slots -> ArtStates]]
  BY UpdateType DEF TypeOK, SetArtifact
<1>2. QED
  BY <1>1 DEF TypeOK, SetArtifact, taskVars, attemptVars

-----------------------------------------------------------------------------
(* Type correctness.                                                       *)

\* The columns of the ledger hold values of their types, after any transactions of
\* any callers.
THEOREM TypeCorrect == Spec => []TypeOK
<1> USE LedgerFacts
<1>1. Init => TypeOK
  BY LedgerAssumption, ValueFacts DEF Init, TypeOK, TaskStates, FailureKinds
<1>2. ASSUME TypeOK, [Next]_ledgerVars
      PROVE  TypeOK'
  <2>0. CASE UNCHANGED ledgerVars
    BY <2>0, <1>2 DEF TypeOK, ledgerVars, taskVars, attemptVars
  <2>1. ASSUME NEW to \in {"awaiting_approval", "ready"}, CompleteConfirmation(to)
        PROVE  TypeOK'
    BY <1>2, <2>1 DEF CompleteConfirmation, TaskStates, TypeOK, taskVars, attemptVars
  <2>2. ASSUME NEW to \in {"awaiting_approval", "ready", "rejected"}, Approve(to)
        PROVE  TypeOK'
    BY <1>2, <2>2 DEF Approve, TransitionTask, TaskStates, ExecStates, TypeOK, taskVars, attemptVars
  <2>3. ASSUME TransitionTask(version, "executing", "reviewing")
        PROVE  TypeOK'
    BY <1>2, <2>3 DEF TransitionTask, TaskStates, ExecStates, TypeOK, taskVars, attemptVars
  <2>4. ASSUME TransitionTask(version, "reviewing", "composing_report")
        PROVE  TypeOK'
    BY <1>2, <2>4 DEF TransitionTask, TaskStates, ExecStates, TypeOK, taskVars, attemptVars
  <2>5. ASSUME CreatePlanRevision
        PROVE  TypeOK'
    <3>1. planCount + 1 \in Plans
      BY <1>2, <2>5, LedgerAssumption DEF CreatePlanRevision, TypeOK, Plans
    <3>2. QED
      BY <1>2, <2>5, <3>1 DEF CreatePlanRevision, TaskStates, TypeOK, taskVars, attemptVars
  <2>6. ASSUME NEW a \in Attempts, NEW p \in Plans, ClaimExecution(a, p)
        PROVE  TypeOK'
    BY <1>2, <2>6 DEF ClaimExecution, TaskStates, ExecStates, TypeOK, taskVars, attemptVars
  <2>7. ASSUME NEW a \in Attempts, LeaseRunsOut(a)
        PROVE  TypeOK'
    BY <1>2, <2>7 DEF LeaseRunsOut, TypeOK, taskVars, attemptVars
  <2>8. ASSUME NEW a \in Attempts, Refused(a)
        PROVE  TypeOK'
    BY <1>2, <2>8, PauseExpiredType DEF Refused, TypeOK, ledgerVars, taskVars, attemptVars
  <2>9. ASSUME NEW a \in Attempts, ExpireExecutionLease(a)
        PROVE  TypeOK'
    <3>1. [n \in Rows |-> IF n \in AfterLast(a) /\ ~Represented(a)
                         THEN "expired" ELSE Interrupted(a)[n]] \in [Rows -> RowStates]
      BY <1>2, ValueFacts, InterruptedType
    <3>2. row' \in [Attempts -> [Rows -> RowStates]]
      BY <1>2, <2>9, <3>1, UpdateType DEF ExpireExecutionLease, TypeOK
    <3>3. QED
      BY <1>2, <2>9, <3>2, PauseForWorkerLossType DEF ExpireExecutionLease, TypeOK
  <2>10. ASSUME NEW a \in Attempts, NEW kind \in {"artifact_invalidation", "other"},
                PauseExecution(a, version, kind)
         PROVE  TypeOK'
    BY <1>2, <2>10 DEF PauseExecution, TaskStates, FailureKinds, TypeOK, taskVars, attemptVars
  <2>11. ASSUME NEW a \in Attempts, CancelExecution(a)
         PROVE  TypeOK'
    BY <1>2, <2>11 DEF CancelExecution, TaskStates, TypeOK, taskVars, attemptVars
  <2>12. ASSUME NEW a \in Attempts, CancelPausedExecution(a)
         PROVE  TypeOK'
    BY <1>2, <2>12 DEF CancelPausedExecution, TaskStates, TypeOK, taskVars, attemptVars
  <2>13. ASSUME NEW a \in Attempts, RetryPausedExecution(a)
         PROVE  TypeOK'
    BY <1>2, <2>13 DEF RetryPausedExecution, TaskStates, TypeOK, taskVars, attemptVars
  <2>14. ASSUME NEW a \in Attempts, CompleteExecution(a)
         PROVE  TypeOK'
    BY <1>2, <2>14 DEF CompleteExecution, TaskStates, TypeOK, taskVars, attemptVars
  <2>15. ASSUME NEW a \in Attempts, InvalidateTerminal(a)
         PROVE  TypeOK'
    BY <1>2, <2>15, InvalidatedType DEF InvalidateTerminal, TypeOK, taskVars, attemptVars
  <2>16. ASSUME NEW a \in Attempts, NEW n \in Slots, NEW r \in RowStates \ {"none", "worker_loss", "expired"},
                RecordStep(a, n, r)
         PROVE  TypeOK'
    <3>1. row' \in [Attempts -> [Rows -> RowStates]]
      BY <1>2, <2>16, UpdateType DEF RecordStep, TypeOK
    <3>2. QED
      BY <1>2, <2>16, <3>1 DEF RecordStep, TypeOK, taskVars, attemptVars
  <2>17. ASSUME NEW a \in Attempts, NEW n \in Slots, NEW r \in LeaseLost,
                RecordLeaseLostStep(a, n, r)
         PROVE  TypeOK'
    <3>1. row' \in [Attempts -> [Rows -> RowStates]]
      BY <1>2, <2>17, ValueFacts, UpdateType DEF RecordLeaseLostStep, TypeOK
    <3>2. QED
      BY <1>2, <2>17, <3>1 DEF RecordLeaseLostStep, TypeOK, taskVars, attemptVars
  <2>18. ASSUME NEW a \in Attempts, NEW n \in Slots, ClearPromotion(a, n)
         PROVE  TypeOK'
    <3>1. row' \in [Attempts -> [Rows -> RowStates]]
      BY <1>2, <2>18, ValueFacts, UpdateType DEF ClearPromotion, TypeOK
    <3>2. QED
      BY <1>2, <2>18, <3>1 DEF ClearPromotion, TypeOK, taskVars, attemptVars
  <2>19. ASSUME NEW a \in Attempts, NEW n \in Slots, PromoteInvalidation(a, n)
         PROVE  TypeOK'
    <3>1. row' \in [Attempts -> [Rows -> RowStates]]
      <4>1. (IF LeaseExpired(a) THEN Interrupted(a) ELSE row[a]) \in [Rows -> RowStates]
        BY <1>2, InterruptedType DEF TypeOK
      <4>2. QED
        BY <1>2, <2>19, <4>1, ValueFacts, UpdateType DEF PromoteInvalidation, TypeOK
    <3>2. QED
      BY <1>2, <2>19, <3>1 DEF PromoteInvalidation, TaskStates, FailureKinds, TypeOK, taskVars,
         attemptVars
  <2>20. ASSUME NEW a \in Attempts, NEW n \in Slots, PromotionRefused(a, n)
         PROVE  TypeOK'
    BY <1>2, <2>20, PauseExpiredType DEF PromotionRefused, TypeOK, ledgerVars, taskVars, attemptVars
  <2>21. ASSUME NEW a \in Attempts, NEW n \in Slots, CreateStagingArtifact(a, n)
         PROVE  TypeOK'
    BY <1>2, <2>21, ValueFacts, SetArtifactType DEF CreateStagingArtifact, Live
  <2>22. ASSUME NEW a \in Attempts, NEW n \in Slots, WriteFile(a, n)
         PROVE  TypeOK'
    BY <1>2, <2>22, ValueFacts, SetArtifactType DEF WriteFile, Live, Invalid, ledgerVars,
       TypeOK, taskVars, attemptVars
  <2>23. ASSUME NEW a \in Attempts, NEW n \in Slots, SealArtifact(a, n)
         PROVE  TypeOK'
    BY <1>2, <2>23, ValueFacts, SetArtifactType DEF SealArtifact, Live
  <2>24. ASSUME NEW a \in Attempts, NEW n \in Slots, SealRefused(a, n)
         PROVE  TypeOK'
    <3>1. CASE UNCHANGED ledgerVars
      BY <1>2, <3>1 DEF ledgerVars, TypeOK, taskVars, attemptVars
    <3>2. CASE art' = [art EXCEPT ![a][n] = "failed"] /\ LeaseExpired(a) /\ PauseForWorkerLoss(a)
                 /\ row' = [row EXCEPT ![a] = Interrupted(a)]
      <4>1. art' \in [Attempts -> [Slots -> ArtStates]]
        BY <1>2, <3>2, ValueFacts, UpdateType DEF TypeOK, Invalid
      <4>2. row' \in [Attempts -> [Rows -> RowStates]]
        BY <1>2, <3>2, InterruptedType, UpdateType DEF TypeOK
      <4>3. QED
        BY <1>2, <3>2, <4>1, <4>2, PauseForWorkerLossType
    <3>3. CASE art' = [art EXCEPT ![a][n] = "failed"] /\ UNCHANGED <<taskVars, attemptVars, row>>
      <4>1. art' \in [Attempts -> [Slots -> ArtStates]]
        BY <1>2, <3>3, ValueFacts, UpdateType DEF TypeOK, Invalid
      <4>2. QED
        BY <1>2, <3>3, <4>1 DEF TypeOK, taskVars, attemptVars
    <3>4. QED
      BY <2>24, <3>1, <3>2, <3>3 DEF SealRefused
  <2>25. ASSUME NEW a \in Attempts, NEW n \in Slots, InvalidatePublication(a, n)
         PROVE  TypeOK'
    BY <1>2, <2>25, InvalidatedType DEF InvalidatePublication, TypeOK, taskVars, attemptVars
  <2>26. ASSUME NEW a \in Attempts, NEW n \in Slots, QuarantineStaging(a, n)
         PROVE  TypeOK'
    BY <1>2, <2>26, ValueFacts, SetArtifactType DEF QuarantineStaging, Invalid, ledgerVars,
       TypeOK, taskVars, attemptVars
  <2> QED
    BY <1>2, <2>0, <2>1, <2>2, <2>3, <2>4, <2>5, <2>6, <2>7, <2>8, <2>9, <2>10, <2>11, <2>12,
       <2>13, <2>14, <2>15, <2>16, <2>17, <2>18, <2>19, <2>20, <2>21, <2>22, <2>23, <2>24,
       <2>25, <2>26
       DEF Next, TaskStep, AttemptStep, SlotStep
<1> QED BY <1>1, <1>2, PTL DEF Spec

-----------------------------------------------------------------------------
(* One active attempt, and no way back to an attempt left behind.          *)

Lifecycle == TypeOK /\ OneActiveAttempt /\ SupersededIsOver

\* A worker loss ends the one active attempt together with the execution.
LEMMA PauseForWorkerLossLifecycle ==
    ASSUME Lifecycle, NEW a \in Attempts, PauseForWorkerLoss(a)
    PROVE  OneActiveAttempt' /\ SupersededIsOver'
BY LedgerFacts DEF Lifecycle, TypeOK, OneActiveAttempt, SupersededIsOver, PauseForWorkerLoss,
       LeaseExpired, Runs, ExecStates

\* Transactions that only touch rows, Artifacts or leases do not matter to it.
LEMMA QuietLifecycle ==
    ASSUME Lifecycle, UNCHANGED <<taskVars, attemptState, attemptPlan, retryOf>>
    PROVE  OneActiveAttempt' /\ SupersededIsOver'
BY DEF Lifecycle, OneActiveAttempt, SupersededIsOver, taskVars

\* No transaction of any caller breaks the life cycle of task and attempts.
LEMMA LifecycleStep ==
    ASSUME Lifecycle, [Next]_ledgerVars
    PROVE  OneActiveAttempt' /\ SupersededIsOver'
<1> USE LedgerFacts
<1>0. CASE UNCHANGED ledgerVars
  BY <1>0, QuietLifecycle DEF ledgerVars, attemptVars
<1>1. ASSUME NEW to \in {"awaiting_approval", "ready"}, CompleteConfirmation(to)
      PROVE  OneActiveAttempt' /\ SupersededIsOver'
  BY <1>1 DEF CompleteConfirmation, attemptVars, Lifecycle, TypeOK, OneActiveAttempt,
     SupersededIsOver, ExecStates
<1>2. ASSUME NEW to \in {"awaiting_approval", "ready", "rejected"}, Approve(to)
      PROVE  OneActiveAttempt' /\ SupersededIsOver'
  BY <1>2 DEF Approve, TransitionTask, attemptVars, Lifecycle, TypeOK, OneActiveAttempt,
     SupersededIsOver, ExecStates
<1>3. ASSUME TransitionTask(version, "executing", "reviewing")
      PROVE  OneActiveAttempt' /\ SupersededIsOver'
  BY <1>3 DEF TransitionTask, attemptVars, Lifecycle, TypeOK, OneActiveAttempt,
     SupersededIsOver, ExecStates
<1>4. ASSUME TransitionTask(version, "reviewing", "composing_report")
      PROVE  OneActiveAttempt' /\ SupersededIsOver'
  BY <1>4 DEF TransitionTask, attemptVars, Lifecycle, TypeOK, OneActiveAttempt,
     SupersededIsOver, ExecStates
<1>5. ASSUME CreatePlanRevision
      PROVE  OneActiveAttempt' /\ SupersededIsOver'
  BY <1>5 DEF CreatePlanRevision, Revisable, attemptVars, Lifecycle, TypeOK, OneActiveAttempt,
     SupersededIsOver, ExecStates
<1>6. ASSUME NEW a \in Attempts, NEW p \in Plans, ClaimExecution(a, p)
      PROVE  OneActiveAttempt' /\ SupersededIsOver'
  BY <1>6 DEF ClaimExecution, attemptVars, Lifecycle, TypeOK, OneActiveAttempt,
     SupersededIsOver, ExecStates
<1>7. ASSUME NEW a \in Attempts, LeaseRunsOut(a)
      PROVE  OneActiveAttempt' /\ SupersededIsOver'
  BY <1>7, QuietLifecycle DEF LeaseRunsOut, taskVars, attemptVars
<1>8. ASSUME NEW a \in Attempts, Refused(a)
      PROVE  OneActiveAttempt' /\ SupersededIsOver'
  BY <1>8, QuietLifecycle, PauseForWorkerLossLifecycle DEF Refused, PauseExpired, ledgerVars,
     taskVars, attemptVars
<1>9. ASSUME NEW a \in Attempts, ExpireExecutionLease(a)
      PROVE  OneActiveAttempt' /\ SupersededIsOver'
  BY <1>9, PauseForWorkerLossLifecycle DEF ExpireExecutionLease
<1>10. ASSUME NEW a \in Attempts, NEW kind \in {"artifact_invalidation", "other"},
              PauseExecution(a, version, kind)
       PROVE  OneActiveAttempt' /\ SupersededIsOver'
  BY <1>10 DEF PauseExecution, MayPause, attemptVars, Lifecycle, TypeOK, OneActiveAttempt,
     SupersededIsOver, ExecStates
<1>11. ASSUME NEW a \in Attempts, CancelExecution(a)
       PROVE  OneActiveAttempt' /\ SupersededIsOver'
  BY <1>11 DEF CancelExecution, attemptVars, Lifecycle, TypeOK, OneActiveAttempt,
     SupersededIsOver, ExecStates
<1>12. ASSUME NEW a \in Attempts, CancelPausedExecution(a)
       PROVE  OneActiveAttempt' /\ SupersededIsOver'
  BY <1>12 DEF CancelPausedExecution, attemptVars, Lifecycle, TypeOK, OneActiveAttempt,
     SupersededIsOver, ExecStates
<1>13. ASSUME NEW a \in Attempts, RetryPausedExecution(a)
       PROVE  OneActiveAttempt' /\ SupersededIsOver'
  BY <1>13 DEF RetryPausedExecution, PausedOn, attemptVars, Lifecycle, TypeOK,
     OneActiveAttempt, SupersededIsOver, ExecStates
<1>14. ASSUME NEW a \in Attempts, CompleteExecution(a)
       PROVE  OneActiveAttempt' /\ SupersededIsOver'
  BY <1>14 DEF CompleteExecution, HoldsLease, Runs, attemptVars, Lifecycle, TypeOK,
     OneActiveAttempt, SupersededIsOver, ExecStates
<1>15. ASSUME NEW a \in Attempts, InvalidateTerminal(a)
       PROVE  OneActiveAttempt' /\ SupersededIsOver'
  BY <1>15, QuietLifecycle DEF InvalidateTerminal, taskVars, attemptVars
<1>16. ASSUME NEW a \in Attempts, NEW n \in Slots, NEW r \in RowStates \ {"none", "worker_loss", "expired"},
              RecordStep(a, n, r)
       PROVE  OneActiveAttempt' /\ SupersededIsOver'
  BY <1>16, QuietLifecycle DEF RecordStep, taskVars, attemptVars
<1>17. ASSUME NEW a \in Attempts, NEW n \in Slots, NEW r \in LeaseLost, RecordLeaseLostStep(a, n, r)
       PROVE  OneActiveAttempt' /\ SupersededIsOver'
  BY <1>17, QuietLifecycle DEF RecordLeaseLostStep, taskVars, attemptVars
<1>18. ASSUME NEW a \in Attempts, NEW n \in Slots, ClearPromotion(a, n)
       PROVE  OneActiveAttempt' /\ SupersededIsOver'
  BY <1>18, QuietLifecycle DEF ClearPromotion, taskVars, attemptVars
<1>19. ASSUME NEW a \in Attempts, NEW n \in Slots, PromoteInvalidation(a, n)
       PROVE  OneActiveAttempt' /\ SupersededIsOver'
  BY <1>19, QuietLifecycle DEF PromoteInvalidation, LeaseExpired, Runs, taskVars, attemptVars,
     Lifecycle, TypeOK, OneActiveAttempt, SupersededIsOver, ExecStates
<1>20. ASSUME NEW a \in Attempts, NEW n \in Slots, PromotionRefused(a, n)
       PROVE  OneActiveAttempt' /\ SupersededIsOver'
  BY <1>20, QuietLifecycle, PauseForWorkerLossLifecycle DEF PromotionRefused, PauseExpired,
     ledgerVars, taskVars, attemptVars
<1>21. ASSUME NEW a \in Attempts, NEW n \in Slots, CreateStagingArtifact(a, n)
       PROVE  OneActiveAttempt' /\ SupersededIsOver'
  BY <1>21, QuietLifecycle DEF CreateStagingArtifact, SetArtifact, ledgerVars, taskVars, attemptVars
<1>22. ASSUME NEW a \in Attempts, NEW n \in Slots, WriteFile(a, n)
       PROVE  OneActiveAttempt' /\ SupersededIsOver'
  BY <1>22, QuietLifecycle DEF WriteFile, SetArtifact, ledgerVars, taskVars, attemptVars
<1>23. ASSUME NEW a \in Attempts, NEW n \in Slots, SealArtifact(a, n)
       PROVE  OneActiveAttempt' /\ SupersededIsOver'
  BY <1>23, QuietLifecycle DEF SealArtifact, SetArtifact, ledgerVars, taskVars, attemptVars
<1>24. ASSUME NEW a \in Attempts, NEW n \in Slots, SealRefused(a, n)
       PROVE  OneActiveAttempt' /\ SupersededIsOver'
  BY <1>24, QuietLifecycle, PauseForWorkerLossLifecycle DEF SealRefused, ledgerVars, taskVars,
     attemptVars
<1>25. ASSUME NEW a \in Attempts, NEW n \in Slots, InvalidatePublication(a, n)
       PROVE  OneActiveAttempt' /\ SupersededIsOver'
  BY <1>25, QuietLifecycle DEF InvalidatePublication, taskVars, attemptVars
<1>26. ASSUME NEW a \in Attempts, NEW n \in Slots, QuarantineStaging(a, n)
       PROVE  OneActiveAttempt' /\ SupersededIsOver'
  BY <1>26, QuietLifecycle DEF QuarantineStaging, SetArtifact, ledgerVars, taskVars, attemptVars
<1> QED
  BY <1>0, <1>1, <1>2, <1>3, <1>4, <1>5, <1>6, <1>7, <1>8, <1>9, <1>10, <1>11, <1>12, <1>13,
     <1>14, <1>15, <1>16, <1>17, <1>18, <1>19, <1>20, <1>21, <1>22, <1>23, <1>24, <1>25, <1>26
     DEF Next, TaskStep, AttemptStep, SlotStep

\* Lifecycle is the inductive invariant that the other proofs start from.
LEMMA LifecycleInvariant == Spec => []Lifecycle
<1>1. Init => OneActiveAttempt /\ SupersededIsOver
  BY LedgerFacts DEF Init, OneActiveAttempt, SupersededIsOver, ExecStates, None
<1>2. Lifecycle /\ [Next]_ledgerVars => OneActiveAttempt' /\ SupersededIsOver'
  BY LifecycleStep
<1> QED BY <1>1, <1>2, TypeCorrect, PTL DEF Spec, Lifecycle

\* An attempt is active exactly while the task executes it under the plan it was
\* claimed for, for any number of attempts and callers.
THEOREM OneActiveAttemptAlways == Spec => []OneActiveAttempt
BY LifecycleInvariant, PTL DEF Lifecycle

\* An attempt that another one continues never runs, and is never current, again.
THEOREM SupersededIsOverAlways == Spec => []SupersededIsOver
BY LifecycleInvariant, PTL DEF Lifecycle

-----------------------------------------------------------------------------
(* Fencing.                                                                *)

\* One transaction publishes nothing in an attempt whose lease is not held.
LEMMA FenceStep ==
    ASSUME TypeOK, [Next]_ledgerVars, NEW b \in Attempts, ~HoldsLease(b)
    PROVE  PublishesNothing(b)
<1> USE LedgerFacts
<1>0. CASE UNCHANGED ledgerVars
  BY <1>0 DEF PublishesNothing, ledgerVars
<1>1. ASSUME NEW to \in {"awaiting_approval", "ready"}, CompleteConfirmation(to)
      PROVE  PublishesNothing(b)
  BY <1>1 DEF CompleteConfirmation, PublishesNothing, TypeOK
<1>2. ASSUME NEW to \in {"awaiting_approval", "ready", "rejected"}, Approve(to)
      PROVE  PublishesNothing(b)
  BY <1>2 DEF Approve, TransitionTask, PublishesNothing, TypeOK
<1>3. ASSUME TransitionTask(version, "executing", "reviewing")
      PROVE  PublishesNothing(b)
  BY <1>3 DEF TransitionTask, PublishesNothing, TypeOK
<1>4. ASSUME TransitionTask(version, "reviewing", "composing_report")
      PROVE  PublishesNothing(b)
  BY <1>4 DEF TransitionTask, PublishesNothing, TypeOK
<1>5. ASSUME CreatePlanRevision
      PROVE  PublishesNothing(b)
  BY <1>5 DEF CreatePlanRevision, PublishesNothing, TypeOK
<1>6. ASSUME NEW a \in Attempts, NEW p \in Plans, ClaimExecution(a, p)
      PROVE  PublishesNothing(b)
  BY <1>6 DEF ClaimExecution, PublishesNothing, TypeOK
<1>7. ASSUME NEW a \in Attempts, LeaseRunsOut(a)
      PROVE  PublishesNothing(b)
  BY <1>7 DEF LeaseRunsOut, PublishesNothing, TypeOK
<1>8. ASSUME NEW a \in Attempts, Refused(a)
      PROVE  PublishesNothing(b)
  BY <1>8 DEF Refused, PauseExpired, Interrupted, ledgerVars, PublishesNothing, TypeOK
<1>9. ASSUME NEW a \in Attempts, ExpireExecutionLease(a)
      PROVE  PublishesNothing(b)
  BY <1>9 DEF ExpireExecutionLease, Interrupted, PublishesNothing, TypeOK
<1>10. ASSUME NEW a \in Attempts, NEW kind \in {"artifact_invalidation", "other"},
              PauseExecution(a, version, kind)
       PROVE  PublishesNothing(b)
  BY <1>10 DEF PauseExecution, PublishesNothing, TypeOK
<1>11. ASSUME NEW a \in Attempts, CancelExecution(a)
       PROVE  PublishesNothing(b)
  BY <1>11 DEF CancelExecution, PublishesNothing, TypeOK
<1>12. ASSUME NEW a \in Attempts, CancelPausedExecution(a)
       PROVE  PublishesNothing(b)
  BY <1>12 DEF CancelPausedExecution, PublishesNothing, TypeOK
<1>13. ASSUME NEW a \in Attempts, RetryPausedExecution(a)
       PROVE  PublishesNothing(b)
  BY <1>13 DEF RetryPausedExecution, PublishesNothing, TypeOK
<1>14. ASSUME NEW a \in Attempts, CompleteExecution(a)
       PROVE  PublishesNothing(b)
  BY <1>14 DEF CompleteExecution, PublishesNothing, TypeOK
<1>15. ASSUME NEW a \in Attempts, InvalidateTerminal(a)
       PROVE  PublishesNothing(b)
  BY <1>15 DEF InvalidateTerminal, Invalidated, PublishesNothing, TypeOK
<1>16. ASSUME NEW a \in Attempts, NEW n \in Slots, NEW r \in RowStates \ {"none", "worker_loss", "expired"},
              RecordStep(a, n, r)
       PROVE  PublishesNothing(b)
  BY <1>16 DEF RecordStep, PublishesNothing, TypeOK
<1>17. ASSUME NEW a \in Attempts, NEW n \in Slots, NEW r \in LeaseLost, RecordLeaseLostStep(a, n, r)
       PROVE  PublishesNothing(b)
  BY <1>17 DEF RecordLeaseLostStep, LeaseLost, PublishesNothing, TypeOK
<1>18. ASSUME NEW a \in Attempts, NEW n \in Slots, ClearPromotion(a, n)
       PROVE  PublishesNothing(b)
  BY <1>18 DEF ClearPromotion, Unmark, PublishesNothing, TypeOK
<1>19. ASSUME NEW a \in Attempts, NEW n \in Slots, PromoteInvalidation(a, n)
       PROVE  PublishesNothing(b)
  BY <1>19 DEF PromoteInvalidation, Interrupted, PublishesNothing, TypeOK
<1>20. ASSUME NEW a \in Attempts, NEW n \in Slots, PromotionRefused(a, n)
       PROVE  PublishesNothing(b)
  BY <1>20 DEF PromotionRefused, PauseExpired, Interrupted, ledgerVars, PublishesNothing, TypeOK
<1>21. ASSUME NEW a \in Attempts, NEW n \in Slots, CreateStagingArtifact(a, n)
       PROVE  PublishesNothing(b)
  BY <1>21 DEF CreateStagingArtifact, SetArtifact, PublishesNothing, TypeOK
<1>22. ASSUME NEW a \in Attempts, NEW n \in Slots, WriteFile(a, n)
       PROVE  PublishesNothing(b)
  BY <1>22 DEF WriteFile, SetArtifact, ledgerVars, PublishesNothing, TypeOK
<1>23. ASSUME NEW a \in Attempts, NEW n \in Slots, SealArtifact(a, n)
       PROVE  PublishesNothing(b)
  BY <1>23 DEF SealArtifact, SetArtifact, PublishesNothing, TypeOK
<1>24. ASSUME NEW a \in Attempts, NEW n \in Slots, SealRefused(a, n)
       PROVE  PublishesNothing(b)
  BY <1>24 DEF SealRefused, Interrupted, ledgerVars, PublishesNothing, TypeOK
<1>25. ASSUME NEW a \in Attempts, NEW n \in Slots, InvalidatePublication(a, n)
       PROVE  PublishesNothing(b)
  BY <1>25 DEF InvalidatePublication, Invalidated, PublishesNothing, TypeOK
<1>26. ASSUME NEW a \in Attempts, NEW n \in Slots, QuarantineStaging(a, n)
       PROVE  PublishesNothing(b)
  BY <1>26 DEF QuarantineStaging, SetArtifact, ledgerVars, PublishesNothing, TypeOK
<1> QED
  BY <1>0, <1>1, <1>2, <1>3, <1>4, <1>5, <1>6, <1>7, <1>8, <1>9, <1>10, <1>11, <1>12, <1>13,
     <1>14, <1>15, <1>16, <1>17, <1>18, <1>19, <1>20, <1>21, <1>22, <1>23, <1>24, <1>25, <1>26
     DEF Next, TaskStep, AttemptStep, SlotStep

\* A caller whose lease is gone neither stages, nor seals, nor records a success.
THEOREM StaleCallersAreFencedAlways == Spec => StaleCallersAreFenced
<1>1. TypeOK /\ [Next]_ledgerVars =>
        [\A a \in Attempts : ~HoldsLease(a) => PublishesNothing(a)]_ledgerVars
  BY FenceStep
<1>2. QED
  BY <1>1, TypeCorrect, PTL DEF Spec, StaleCallersAreFenced

-----------------------------------------------------------------------------
(* What a retry may build on.                                              *)

\* The least-number principle, for sets.
LEMMA LeastNatural ==
    ASSUME NEW T \in SUBSET Nat, T # {}
    PROVE  \E m \in T : \A k \in T : m <= k
<1> DEFINE R == OpToRel(<, Nat)
<1>1. IsWellFoundedOn(R, Nat)
  BY NatLessThanWellFounded
<1>2. \E m \in T : \A k \in T : ~ (<<k, m>> \in R)
  <2> HIDE DEF R
  <2> QED BY <1>1, WFMin
<1>3. \A k \in Nat, m \in Nat : k < m => <<k, m>> \in R
  BY DEF OpToRel
<1> HIDE DEF R
<1>4. PICK m \in T : \A k \in T : ~ (<<k, m>> \in R)
  BY <1>2
<1>5. ASSUME NEW k \in T
      PROVE  m <= k
  <2>1. ~ (<<k, m>> \in R) /\ k \in Nat /\ m \in Nat
    BY <1>4
  <2>2. ~ (k < m)
    BY <1>3, <2>1
  <2> QED BY <2>1, <2>2
<1> QED BY <1>5

Invalidating == {"artifact_invalidation"} \cup Marked

\* An attempt with an undecided or failed invalidation is not offered for retry:
\* the lowest such row is the authoritative one.
LEMMA NoRetryWhileInvalidating ==
    ASSUME NEW a \in Attempts, RetryAllowed(a)
    PROVE  \A n \in Rows : row[a][n] \notin Invalidating
<1> DEFINE T == {n \in Rows : row[a][n] \in Invalidating}
<1>1. SUFFICES ASSUME T # {} PROVE FALSE
  OBVIOUS
<1>2. PICK m \in T : \A k \in T : m <= k
  BY <1>1, LedgerFacts, LeastNatural
<1>3. \A k \in Rows : /\ row[a][k] \in Invalidating => Authority(row[a][k]) = 2
                      /\ row[a][k] \notin Invalidating => Authority(row[a][k]) \in {0, 1}
  BY DEF Authority, Invalidating
<1>4. IsAuthoritative(a, m)
  BY <1>2, <1>3 DEF IsAuthoritative, Failed
<1>5. m \in Failed(a) /\ row[a][m] \notin Retryable
  BY <1>2 DEF Failed, FailedRows, Unretryable, Retryable, Invalidating, Marked
<1> QED BY <1>4, <1>5 DEF RetryAllowed

\* Both promises about an attempt that was left behind.
CleanlyResumed(a) ==
    ResumedFrom(a) => /\ \A n \in Rows : row[a][n] \notin Invalidating
                      /\ failureKind[a] = "worker_loss" => ~Residue(a)

\* An attempt left behind is neither running nor waiting for a retry.
LEMMA ResumedIsOver ==
    ASSUME Lifecycle, NEW a \in Attempts, ResumedFrom(a)
    PROVE  ~Runs(a) /\ ~PausedOn(a) /\ attemptState[a] # "none"
BY DEF Lifecycle, OneActiveAttempt, SupersededIsOver, ResumedFrom, Runs, PausedOn, ExecStates,
       Attempts, None

\* Nothing about attempt a changed but, perhaps, the task around it.
LEMMA UntouchedStaysClean ==
    ASSUME NEW a \in Attempts, CleanlyResumed(a), ResumedFrom(a)' => ResumedFrom(a),
           row'[a] = row[a], art'[a] = art[a], failureKind'[a] = failureKind[a]
    PROVE  CleanlyResumed(a)'
BY DEF CleanlyResumed, Residue

\* Failing Artifacts of an attempt leaves no residue in it.
LEMMA ArtifactsStayClean ==
    ASSUME NEW a \in Attempts, CleanlyResumed(a), ResumedFrom(a)' => ResumedFrom(a),
           row'[a] = row[a], failureKind'[a] = failureKind[a],
           \A n \in Slots : art'[a][n] = art[a][n] \/ art'[a][n] = "failed"
    PROVE  CleanlyResumed(a)'
BY DEF CleanlyResumed, Residue

\* Steps that leave the task and its lineage alone.
LEMMA SameTaskSameResumed ==
    ASSUME NEW a \in Attempts, UNCHANGED <<taskState, currentAttempt, retryOf>>
    PROVE  ResumedFrom(a)' => ResumedFrom(a)
BY DEF ResumedFrom

\* A worker loss never concerns an attempt that was left behind.
LEMMA PauseKeepsClean ==
    ASSUME Lifecycle, NEW a \in Attempts, CleanlyResumed(a), NEW b \in Attempts,
           LeaseExpired(b), taskState' = "paused", UNCHANGED <<currentAttempt, retryOf>>,
           \A c \in Attempts \ {b} :
               row'[c] = row[c] /\ art'[c] = art[c] /\ failureKind'[c] = failureKind[c]
    PROVE  CleanlyResumed(a)'
<1>1. ResumedFrom(a)' => ResumedFrom(a)
  BY DEF ResumedFrom
<1>2. CASE a # b
  BY <1>1, <1>2, UntouchedStaysClean
<1>3. CASE a = b
  BY <1>1, <1>3, ResumedIsOver DEF CleanlyResumed, LeaseExpired
<1> QED BY <1>2, <1>3

\* No transaction dirties an attempt that was left behind, and none leaves a dirty
\* attempt behind.
LEMMA ResumptionStep ==
    ASSUME Lifecycle, [Next]_ledgerVars, NEW b \in Attempts, CleanlyResumed(b)
    PROVE  CleanlyResumed(b)'
<1> USE LedgerFacts
<1>0. CASE UNCHANGED ledgerVars
  BY <1>0, SameTaskSameResumed, UntouchedStaysClean DEF ledgerVars, taskVars, attemptVars
<1>1. ASSUME NEW to \in {"awaiting_approval", "ready"}, CompleteConfirmation(to)
      PROVE  CleanlyResumed(b)'
  <2>1. ResumedFrom(b)' => ResumedFrom(b)
    BY <1>1 DEF CompleteConfirmation, ResumedFrom, attemptVars
  <2> QED
    BY <1>1, <2>1, UntouchedStaysClean DEF CompleteConfirmation, attemptVars
<1>2. ASSUME NEW to \in {"awaiting_approval", "ready", "rejected"}, Approve(to)
      PROVE  CleanlyResumed(b)'
  <2>1. ResumedFrom(b)' => ResumedFrom(b)
    BY <1>2 DEF Approve, TransitionTask, ResumedFrom, attemptVars
  <2> QED
    BY <1>2, <2>1, UntouchedStaysClean DEF Approve, TransitionTask, attemptVars
<1>3. ASSUME TransitionTask(version, "executing", "reviewing")
      PROVE  CleanlyResumed(b)'
  <2>1. ResumedFrom(b)' => ResumedFrom(b)
    BY <1>3 DEF TransitionTask, ResumedFrom, attemptVars
  <2> QED
    BY <1>3, <2>1, UntouchedStaysClean DEF TransitionTask, attemptVars
<1>4. ASSUME TransitionTask(version, "reviewing", "composing_report")
      PROVE  CleanlyResumed(b)'
  <2>1. ResumedFrom(b)' => ResumedFrom(b)
    BY <1>4 DEF TransitionTask, ResumedFrom, attemptVars
  <2> QED
    BY <1>4, <2>1, UntouchedStaysClean DEF TransitionTask, attemptVars
<1>5. ASSUME CreatePlanRevision
      PROVE  CleanlyResumed(b)'
  <2>1. ResumedFrom(b)' => ResumedFrom(b)
    BY <1>5 DEF CreatePlanRevision, Revisable, ResumedFrom, attemptVars
  <2> QED
    BY <1>5, <2>1, UntouchedStaysClean DEF CreatePlanRevision, Revisable, attemptVars
<1>6. ASSUME NEW a \in Attempts, NEW p \in Plans, ClaimExecution(a, p)
      PROVE  CleanlyResumed(b)'
  <2>1. ResumedFrom(b)' => ResumedFrom(b)
    BY <1>6 DEF ClaimExecution, ResumedFrom, attemptVars
  <2> QED
    BY <1>6, <2>1, UntouchedStaysClean DEF ClaimExecution, attemptVars
<1>7. ASSUME NEW a \in Attempts, LeaseRunsOut(a)
      PROVE  CleanlyResumed(b)'
  BY <1>7, SameTaskSameResumed, UntouchedStaysClean DEF LeaseRunsOut, taskVars
<1>8. ASSUME NEW a \in Attempts, Refused(a)
      PROVE  CleanlyResumed(b)'
  BY <1>8, SameTaskSameResumed, UntouchedStaysClean, PauseKeepsClean DEF Refused, PauseExpired,
       PauseForWorkerLoss, ledgerVars, taskVars, attemptVars, Lifecycle, TypeOK
<1>9. ASSUME NEW a \in Attempts, ExpireExecutionLease(a)
      PROVE  CleanlyResumed(b)'
  BY <1>9, SameTaskSameResumed, UntouchedStaysClean, PauseKeepsClean DEF ExpireExecutionLease,
     PauseExpired,
       PauseForWorkerLoss, ledgerVars, taskVars, attemptVars, Lifecycle, TypeOK
<1>10. ASSUME NEW a \in Attempts, NEW kind \in {"artifact_invalidation", "other"},
              PauseExecution(a, version, kind)
       PROVE  CleanlyResumed(b)'
  <2>1. ResumedFrom(b)' => ResumedFrom(b)
    BY <1>10 DEF PauseExecution, ResumedFrom
  <2>2. CASE b = a
    BY <1>10, <2>1, <2>2, ResumedIsOver DEF PauseExecution, MayPause, CleanlyResumed, Lifecycle,
         OneActiveAttempt, Runs
  <2>3. CASE b # a
    BY <1>10, <2>1, <2>3, UntouchedStaysClean DEF PauseExecution, Lifecycle, TypeOK
  <2> QED BY <2>2, <2>3
<1>11. ASSUME NEW a \in Attempts, CancelExecution(a)
       PROVE  CleanlyResumed(b)'
  <2>1. ResumedFrom(b)' => ResumedFrom(b)
    BY <1>11 DEF CancelExecution, ResumedFrom, attemptVars
  <2> QED
    BY <1>11, <2>1, UntouchedStaysClean DEF CancelExecution, attemptVars
<1>12. ASSUME NEW a \in Attempts, CancelPausedExecution(a)
       PROVE  CleanlyResumed(b)'
  <2>1. ResumedFrom(b)' => ResumedFrom(b)
    BY <1>12 DEF CancelPausedExecution, ResumedFrom, attemptVars
  <2> QED
    BY <1>12, <2>1, UntouchedStaysClean DEF CancelPausedExecution, attemptVars
<1>13. ASSUME NEW a \in Attempts, RetryPausedExecution(a)
       PROVE  CleanlyResumed(b)'
  <2>1. CASE b = a
    BY <1>13, <2>1, NoRetryWhileInvalidating DEF RetryPausedExecution, CleanlyResumed, Residue,
       attemptVars
  <2>2. CASE b # a
    <3>1. ResumedFrom(b)' => ResumedFrom(b)
      BY <1>13, <2>2 DEF RetryPausedExecution, PausedOn, ResumedFrom, attemptVars
    <3> QED
      BY <1>13, <3>1, UntouchedStaysClean DEF RetryPausedExecution, attemptVars
  <2> QED BY <2>1, <2>2
<1>14. ASSUME NEW a \in Attempts, CompleteExecution(a)
       PROVE  CleanlyResumed(b)'
  <2>1. ResumedFrom(b)' => ResumedFrom(b)
    BY <1>14 DEF CompleteExecution, ResumedFrom, attemptVars
  <2> QED
    BY <1>14, <2>1, UntouchedStaysClean DEF CompleteExecution, attemptVars
<1>15. ASSUME NEW a \in Attempts, InvalidateTerminal(a)
       PROVE  CleanlyResumed(b)'
  BY <1>15, SameTaskSameResumed, ArtifactsStayClean DEF InvalidateTerminal, Invalidated,
     taskVars, attemptVars, Lifecycle, TypeOK
<1>16. ASSUME NEW a \in Attempts, NEW n \in Slots, NEW r \in RowStates \ {"none", "worker_loss", "expired"},
              RecordStep(a, n, r)
       PROVE  CleanlyResumed(b)'
  <2>1. CASE b = a
    BY <1>16, <2>1, SameTaskSameResumed, ResumedIsOver DEF RecordStep, HoldsLease,
       CleanlyResumed, taskVars, attemptVars
  <2>2. CASE b # a
    BY <1>16, <2>2, SameTaskSameResumed, UntouchedStaysClean DEF RecordStep, taskVars,
       attemptVars, Lifecycle, TypeOK
  <2> QED BY <2>1, <2>2
<1>17. ASSUME NEW a \in Attempts, NEW n \in Slots, NEW r \in LeaseLost, RecordLeaseLostStep(a, n, r)
       PROVE  CleanlyResumed(b)'
  <2>1. CASE b = a
    BY <1>17, <2>1, SameTaskSameResumed, ResumedIsOver DEF RecordLeaseLostStep, MayRecordLoss,
       CleanlyResumed, taskVars, attemptVars
  <2>2. CASE b # a
    BY <1>17, <2>2, SameTaskSameResumed, UntouchedStaysClean DEF RecordLeaseLostStep, taskVars,
       attemptVars, Lifecycle, TypeOK
  <2> QED BY <2>1, <2>2
<1>18. ASSUME NEW a \in Attempts, NEW n \in Slots, ClearPromotion(a, n)
       PROVE  CleanlyResumed(b)'
  <2>1. CASE b = a
    BY <1>18, <2>1, SameTaskSameResumed, ResumedIsOver DEF ClearPromotion, MayClear,
       HoldsLease, CleanlyResumed, taskVars, attemptVars
  <2>2. CASE b # a
    BY <1>18, <2>2, SameTaskSameResumed, UntouchedStaysClean DEF ClearPromotion, taskVars,
       attemptVars, Lifecycle, TypeOK
  <2> QED BY <2>1, <2>2
<1>19. ASSUME NEW a \in Attempts, NEW n \in Slots, PromoteInvalidation(a, n)
       PROVE  CleanlyResumed(b)'
  <2>1. CASE LeaseExpired(a)
    BY <1>19, <2>1, PauseKeepsClean DEF PromoteInvalidation, HoldsLease, LeaseExpired,
       Lifecycle, TypeOK
  <2>2. CASE ~LeaseExpired(a)
    <3>1. ResumedFrom(b)' => ResumedFrom(b)
      BY <1>19, <2>2, SameTaskSameResumed DEF PromoteInvalidation, taskVars
    <3>2. CASE b = a
      BY <1>19, <2>2, <3>1, <3>2, ResumedIsOver
         DEF PromoteInvalidation, Promotable, HoldsLease, CleanlyResumed
    <3>3. CASE b # a
      BY <1>19, <2>2, <3>1, <3>3, UntouchedStaysClean DEF PromoteInvalidation, Lifecycle, TypeOK
    <3> QED BY <3>2, <3>3
  <2> QED BY <2>1, <2>2
<1>20. ASSUME NEW a \in Attempts, NEW n \in Slots, PromotionRefused(a, n)
       PROVE  CleanlyResumed(b)'
  BY <1>20, SameTaskSameResumed, UntouchedStaysClean, PauseKeepsClean DEF PromotionRefused,
     PauseExpired,
       PauseForWorkerLoss, ledgerVars, taskVars, attemptVars, Lifecycle, TypeOK
<1>21. ASSUME NEW a \in Attempts, NEW n \in Slots, CreateStagingArtifact(a, n)
       PROVE  CleanlyResumed(b)'
  <2>1. CASE b = a
    BY <1>21, <2>1, SameTaskSameResumed, ResumedIsOver DEF CreateStagingArtifact, SetArtifact,
       HoldsLease, CleanlyResumed, taskVars, attemptVars
  <2>2. CASE b # a
    BY <1>21, <2>2, SameTaskSameResumed, UntouchedStaysClean DEF CreateStagingArtifact,
       SetArtifact, taskVars, attemptVars, Lifecycle, TypeOK
  <2> QED BY <2>1, <2>2
<1>22. ASSUME NEW a \in Attempts, NEW n \in Slots, WriteFile(a, n)
       PROVE  CleanlyResumed(b)'
  <2>1. ResumedFrom(b)' => ResumedFrom(b)
    BY <1>22, SameTaskSameResumed DEF WriteFile, SetArtifact, ledgerVars, taskVars, attemptVars
  <2>2. CASE art'[b] = art[b]
    BY <1>22, <2>1, <2>2, UntouchedStaysClean DEF WriteFile, SetArtifact, ledgerVars, attemptVars
  <2>3. CASE art'[b] # art[b]
    BY <1>22, <2>1, <2>3 DEF WriteFile, SetArtifact, CleanlyResumed, Residue, ledgerVars,
       attemptVars, Lifecycle, TypeOK
  <2> QED BY <2>2, <2>3
<1>23. ASSUME NEW a \in Attempts, NEW n \in Slots, SealArtifact(a, n)
       PROVE  CleanlyResumed(b)'
  <2>1. CASE b = a
    BY <1>23, <2>1, SameTaskSameResumed, ResumedIsOver DEF SealArtifact, SetArtifact,
       HoldsLease, CleanlyResumed, taskVars, attemptVars
  <2>2. CASE b # a
    BY <1>23, <2>2, SameTaskSameResumed, UntouchedStaysClean DEF SealArtifact, SetArtifact,
       taskVars, attemptVars, Lifecycle, TypeOK
  <2> QED BY <2>1, <2>2
<1>24. ASSUME NEW a \in Attempts, NEW n \in Slots, SealRefused(a, n)
       PROVE  CleanlyResumed(b)'
  <2>1. CASE UNCHANGED ledgerVars
    BY <2>1, SameTaskSameResumed, UntouchedStaysClean DEF ledgerVars, taskVars, attemptVars
  <2>2. CASE LeaseExpired(a) /\ PauseForWorkerLoss(a) /\ art' = [art EXCEPT ![a][n] = "failed"]
               /\ row' = [row EXCEPT ![a] = Interrupted(a)]
    BY <2>2, PauseKeepsClean DEF PauseForWorkerLoss, Lifecycle, TypeOK
  <2>3. CASE art' = [art EXCEPT ![a][n] = "failed"] /\ UNCHANGED <<taskVars, attemptVars, row>>
    BY <2>3, SameTaskSameResumed, ArtifactsStayClean DEF taskVars, attemptVars, Lifecycle, TypeOK
  <2> QED
    BY <1>24, <2>1, <2>2, <2>3 DEF SealRefused
<1>25. ASSUME NEW a \in Attempts, NEW n \in Slots, InvalidatePublication(a, n)
       PROVE  CleanlyResumed(b)'
  BY <1>25, SameTaskSameResumed, ArtifactsStayClean DEF InvalidatePublication, Invalidated,
     taskVars, attemptVars, Lifecycle, TypeOK
<1>26. ASSUME NEW a \in Attempts, NEW n \in Slots, QuarantineStaging(a, n)
       PROVE  CleanlyResumed(b)'
  <2>1. ResumedFrom(b)' => ResumedFrom(b)
    BY <1>26, SameTaskSameResumed DEF QuarantineStaging, SetArtifact, ledgerVars, taskVars,
       attemptVars
  <2>2. CASE art'[b] = art[b]
    BY <1>26, <2>1, <2>2, UntouchedStaysClean DEF QuarantineStaging, SetArtifact, ledgerVars,
       attemptVars
  <2>3. CASE art'[b] # art[b]
    BY <1>26, <2>1, <2>3 DEF QuarantineStaging, SetArtifact, CleanlyResumed, Residue, ledgerVars,
       attemptVars, Lifecycle, TypeOK
  <2> QED BY <2>2, <2>3
<1> QED
  BY <1>0, <1>1, <1>2, <1>3, <1>4, <1>5, <1>6, <1>7, <1>8, <1>9, <1>10, <1>11, <1>12, <1>13,
     <1>14, <1>15, <1>16, <1>17, <1>18, <1>19, <1>20, <1>21, <1>22, <1>23, <1>24, <1>25, <1>26
     DEF Next, TaskStep, AttemptStep, SlotStep

\* Every attempt that was left behind is clean.
LEMMA ResumptionInvariant == Spec => [](\A a \in Attempts : CleanlyResumed(a))
<1>1. Init => \A a \in Attempts : CleanlyResumed(a)
  BY LedgerFacts DEF Init, CleanlyResumed, ResumedFrom, None
<1>2. Lifecycle /\ (\A a \in Attempts : CleanlyResumed(a)) /\ [Next]_ledgerVars
        => (\A a \in Attempts : CleanlyResumed(a))'
  BY ResumptionStep
<1> QED BY <1>1, <1>2, LifecycleInvariant, PTL DEF Spec

\* No retry outruns an Artifact invalidation that failed or is still undecided.
THEOREM NoRetryOverInvalidationAlways == Spec => []NoRetryOverInvalidation
<1>1. (\A a \in Attempts : CleanlyResumed(a)) => NoRetryOverInvalidation
  BY DEF CleanlyResumed, NoRetryOverInvalidation, Invalidating
<1> QED BY <1>1, ResumptionInvariant, PTL

\* No retry of a lost worker finds residue in the attempt it continues.
THEOREM RetryStartsCleanAlways == Spec => []RetryStartsClean
<1>1. (\A a \in Attempts : CleanlyResumed(a)) => RetryStartsClean
  BY DEF CleanlyResumed, RetryStartsClean
<1> QED BY <1>1, ResumptionInvariant, PTL

-----------------------------------------------------------------------------
(* The ledger implements ExecutionAuthority.                               *)

Holders == {a \in Attempts : attemptState[a] = "active"}
Spent   == {a \in Attempts : attemptState[a] # "none"}

\* What leaves the task row and the attempts' states alone is invisible above.
LEMMA QuietStutters ==
    ASSUME UNCHANGED <<taskVars, attemptState>>
    PROVE  UNCHANGED Authorized!vars
BY DEF Authorized!vars, phase, taskVars

\* Only an executing task has a holder, and it is the current attempt.
LEMMA HoldersWhenHeld ==
    ASSUME Lifecycle
    PROVE  /\ taskState \notin ExecStates => Holders = {}
           /\ \A a \in Attempts : currentAttempt = a => Holders \subseteq {a}
BY DEF Lifecycle, OneActiveAttempt, Holders

\* A worker loss is a Suspend of ExecutionAuthority.
LEMMA PauseSuspends ==
    ASSUME Lifecycle, NEW a \in Attempts, LeaseExpired(a),
           taskState' = "paused", version' = version + 1,
           attemptState' = [attemptState EXCEPT ![a] = "paused"]
    PROVE  Authorized!Suspend
<1>1. Holders' = {} /\ Spent' = Spent
  BY HoldersWhenHeld DEF Lifecycle, TypeOK, LeaseExpired, Runs, Holders, Spent
<1> QED
  BY <1>1 DEF Authorized!Suspend, phase, LeaseExpired, Runs, ExecStates, Holders, Spent

\* Every transaction is a step of ExecutionAuthority or invisible to it.
LEMMA AuthorityStep ==
    ASSUME Lifecycle, [Next]_ledgerVars
    PROVE  [Authorized!Next]_(Authorized!vars)
<1> USE LedgerFacts DEF Authorized!Next
<1>0. CASE UNCHANGED ledgerVars
  BY <1>0, QuietStutters DEF ledgerVars, attemptVars
<1>1. ASSUME NEW to \in {"awaiting_approval", "ready"}, CompleteConfirmation(to)
      PROVE  [Authorized!Next]_(Authorized!vars)
  <2>1. Holders' = Holders /\ Spent' = Spent
    BY <1>1 DEF CompleteConfirmation, attemptVars, Holders, Spent
  <2> QED
    BY <1>1, <2>1 DEF CompleteConfirmation, Authorized!Reopen, phase, ExecStates, Holders, Spent
<1>2. ASSUME NEW to \in {"awaiting_approval", "ready", "rejected"}, Approve(to)
      PROVE  [Authorized!Next]_(Authorized!vars)
  <2>1. Holders' = Holders /\ Spent' = Spent
    BY <1>2 DEF Approve, TransitionTask, attemptVars, Holders, Spent
  <2>2. taskState \notin ExecStates
    BY <1>2 DEF Approve, TransitionTask, ExecStates
  <2>3. Holders = {}
    BY <2>2, HoldersWhenHeld
  <2> QED
    BY <1>2, <2>1, <2>3 DEF Approve, TransitionTask, Authorized!Reopen, Authorized!Close, phase, ExecStates,
       Holders, Spent
<1>3. ASSUME TransitionTask(version, "executing", "reviewing")
      PROVE  [Authorized!Next]_(Authorized!vars)
  <2>1. Holders' = Holders /\ Spent' = Spent
    BY <1>3 DEF TransitionTask, attemptVars, Holders, Spent
  <2> QED
    BY <1>3, <2>1 DEF TransitionTask, Authorized!Advance, phase, ExecStates, Holders, Spent
<1>4. ASSUME TransitionTask(version, "reviewing", "composing_report")
      PROVE  [Authorized!Next]_(Authorized!vars)
  <2>1. Holders' = Holders /\ Spent' = Spent
    BY <1>4 DEF TransitionTask, attemptVars, Holders, Spent
  <2> QED
    BY <1>4, <2>1 DEF TransitionTask, Authorized!Advance, phase, ExecStates, Holders, Spent
<1>5. ASSUME CreatePlanRevision
      PROVE  [Authorized!Next]_(Authorized!vars)
  <2>1. Holders' = Holders /\ Spent' = Spent
    BY <1>5 DEF CreatePlanRevision, attemptVars, Holders, Spent
  <2> QED
    BY <1>5, <2>1 DEF CreatePlanRevision, Revisable, Authorized!Reopen, phase, ExecStates,
       Holders, Spent
<1>6. ASSUME NEW a \in Attempts, NEW p \in Plans, ClaimExecution(a, p)
      PROVE  [Authorized!Next]_(Authorized!vars)
  <2>1. Holders = {}
    BY <1>6, HoldersWhenHeld DEF ClaimExecution, ExecStates
  <2>2. Holders' = {a} /\ Spent' = Spent \cup {a} /\ a \notin Spent
    BY <1>6, <2>1 DEF ClaimExecution, Holders, Spent, Lifecycle, TypeOK
  <2> QED
    BY <1>6, <2>2 DEF ClaimExecution, Authorized!Grant, phase, ExecStates, Holders, Spent
<1>7. ASSUME NEW a \in Attempts, LeaseRunsOut(a)
      PROVE  [Authorized!Next]_(Authorized!vars)
  BY <1>7, QuietStutters DEF LeaseRunsOut, taskVars, attemptVars
<1>8. ASSUME NEW a \in Attempts, Refused(a)
      PROVE  [Authorized!Next]_(Authorized!vars)
  BY <1>8, QuietStutters, PauseSuspends DEF Refused, PauseExpired, PauseForWorkerLoss,
     ledgerVars, attemptVars
<1>9. ASSUME NEW a \in Attempts, ExpireExecutionLease(a)
      PROVE  [Authorized!Next]_(Authorized!vars)
  BY <1>9, PauseSuspends DEF ExpireExecutionLease, PauseForWorkerLoss
<1>10. ASSUME NEW a \in Attempts, NEW kind \in {"artifact_invalidation", "other"},
              PauseExecution(a, version, kind)
       PROVE  [Authorized!Next]_(Authorized!vars)
  <2>1. Holders' = {} /\ Spent' = Spent
    BY <1>10, HoldersWhenHeld DEF PauseExecution, MayPause, Holders, Spent, Lifecycle, TypeOK
  <2> QED
    BY <1>10, <2>1 DEF PauseExecution, MayPause, Authorized!Suspend, phase, ExecStates,
       Holders, Spent
<1>11. ASSUME NEW a \in Attempts, CancelExecution(a)
       PROVE  [Authorized!Next]_(Authorized!vars)
  <2>1. Holders' = {} /\ Spent' = Spent
    BY <1>11, HoldersWhenHeld DEF CancelExecution, Holders, Spent, Lifecycle, TypeOK
  <2> QED
    BY <1>11, <2>1 DEF CancelExecution, Authorized!Close, phase, ExecStates, Holders, Spent
<1>12. ASSUME NEW a \in Attempts, CancelPausedExecution(a)
       PROVE  [Authorized!Next]_(Authorized!vars)
  <2>1. Holders' = {} /\ Spent' = Spent
    BY <1>12, HoldersWhenHeld DEF CancelPausedExecution, Holders, Spent, Lifecycle, TypeOK
  <2> QED
    BY <1>12, <2>1 DEF CancelPausedExecution, Authorized!Close, phase, ExecStates, Holders, Spent
<1>13. ASSUME NEW a \in Attempts, RetryPausedExecution(a)
       PROVE  [Authorized!Next]_(Authorized!vars)
  <2>1. Holders' = Holders /\ Spent' = Spent
    BY <1>13 DEF RetryPausedExecution, attemptVars, Holders, Spent
  <2> QED
    BY <1>13, <2>1 DEF RetryPausedExecution, PausedOn, Authorized!Reopen, phase, ExecStates,
       Holders, Spent
<1>14. ASSUME NEW a \in Attempts, CompleteExecution(a)
       PROVE  [Authorized!Next]_(Authorized!vars)
  <2>1. Holders' = {} /\ Spent' = Spent
    BY <1>14, HoldersWhenHeld DEF CompleteExecution, HoldsLease, Runs, Holders, Spent,
       Lifecycle, TypeOK
  <2> QED
    BY <1>14, <2>1 DEF CompleteExecution, HoldsLease, Runs, Authorized!Close, phase,
       ExecStates, Holders, Spent
<1>15. ASSUME NEW a \in Attempts, InvalidateTerminal(a)
       PROVE  [Authorized!Next]_(Authorized!vars)
  BY <1>15, QuietStutters DEF InvalidateTerminal, taskVars, attemptVars
<1>16. ASSUME NEW a \in Attempts, NEW n \in Slots, NEW r \in RowStates \ {"none", "worker_loss", "expired"},
              RecordStep(a, n, r)
       PROVE  [Authorized!Next]_(Authorized!vars)
  BY <1>16, QuietStutters DEF RecordStep, taskVars, attemptVars
<1>17. ASSUME NEW a \in Attempts, NEW n \in Slots, NEW r \in LeaseLost, RecordLeaseLostStep(a, n, r)
       PROVE  [Authorized!Next]_(Authorized!vars)
  BY <1>17, QuietStutters DEF RecordLeaseLostStep, taskVars, attemptVars
<1>18. ASSUME NEW a \in Attempts, NEW n \in Slots, ClearPromotion(a, n)
       PROVE  [Authorized!Next]_(Authorized!vars)
  BY <1>18, QuietStutters DEF ClearPromotion, taskVars, attemptVars
<1>19. ASSUME NEW a \in Attempts, NEW n \in Slots, PromoteInvalidation(a, n)
       PROVE  [Authorized!Next]_(Authorized!vars)
  BY <1>19, QuietStutters, PauseSuspends DEF PromoteInvalidation
<1>20. ASSUME NEW a \in Attempts, NEW n \in Slots, PromotionRefused(a, n)
       PROVE  [Authorized!Next]_(Authorized!vars)
  BY <1>20, QuietStutters, PauseSuspends DEF PromotionRefused, PauseExpired,
     PauseForWorkerLoss, ledgerVars, attemptVars
<1>21. ASSUME NEW a \in Attempts, NEW n \in Slots, CreateStagingArtifact(a, n)
       PROVE  [Authorized!Next]_(Authorized!vars)
  BY <1>21, QuietStutters DEF CreateStagingArtifact, SetArtifact, ledgerVars, taskVars, attemptVars
<1>22. ASSUME NEW a \in Attempts, NEW n \in Slots, WriteFile(a, n)
       PROVE  [Authorized!Next]_(Authorized!vars)
  BY <1>22, QuietStutters DEF WriteFile, SetArtifact, ledgerVars, taskVars, attemptVars
<1>23. ASSUME NEW a \in Attempts, NEW n \in Slots, SealArtifact(a, n)
       PROVE  [Authorized!Next]_(Authorized!vars)
  BY <1>23, QuietStutters DEF SealArtifact, SetArtifact, ledgerVars, taskVars, attemptVars
<1>24. ASSUME NEW a \in Attempts, NEW n \in Slots, SealRefused(a, n)
       PROVE  [Authorized!Next]_(Authorized!vars)
  BY <1>24, QuietStutters, PauseSuspends DEF SealRefused, PauseForWorkerLoss, ledgerVars,
     attemptVars
<1>25. ASSUME NEW a \in Attempts, NEW n \in Slots, InvalidatePublication(a, n)
       PROVE  [Authorized!Next]_(Authorized!vars)
  BY <1>25, QuietStutters DEF InvalidatePublication, taskVars, attemptVars
<1>26. ASSUME NEW a \in Attempts, NEW n \in Slots, QuarantineStaging(a, n)
       PROVE  [Authorized!Next]_(Authorized!vars)
  BY <1>26, QuietStutters DEF QuarantineStaging, SetArtifact, ledgerVars, taskVars, attemptVars
<1> QED
  BY <1>0, <1>1, <1>2, <1>3, <1>4, <1>5, <1>6, <1>7, <1>8, <1>9, <1>10, <1>11, <1>12, <1>13,
     <1>14, <1>15, <1>16, <1>17, <1>18, <1>19, <1>20, <1>21, <1>22, <1>23, <1>24, <1>25, <1>26
     DEF Next, TaskStep, AttemptStep, SlotStep

\* The ledger implements ExecutionAuthority: authority is granted to one fresh
\* attempt at a time, and every change of the task row advances the version.
THEOREM LedgerImplementsAuthority == Spec => ImplementsAuthority
<1>1. Init => Authorized!Init
  BY DEF Init, Authorized!Init, phase, ExecStates
<1>2. Lifecycle /\ [Next]_ledgerVars => [Authorized!Next]_(Authorized!vars)
  BY AuthorityStep
<1> QED
  BY <1>1, <1>2, LifecycleInvariant, PTL DEF Spec, ImplementsAuthority, Authorized!Spec

(***************************************************************************)
(* Part 2: the engine implements the ledger.                               *)
(***************************************************************************)

\* Where a worker can stand on a slot.
Places == {"todo", "act", "create", "write", "seal", "tidy", "record", "record_again",
           "read_back", "done", "skipped", "undo", "fail", "fail_late", "cleanup", "clear",
           "promote", "paused", "rejected", "check", "review", "compose", "publish",
           "withdraw", "complete"}

\* What a worker can be about to record.
Failures == (FailedRows \ {"worker_loss", "expired"}) \cup {"unsound"}

\* Places from which a failure will be recorded.
Failing == {"tidy", "undo", "withdraw", "fail", "fail_late"}

\* What the recovery timer remembers between its transactions.
Cycles == [on : Attempts \cup {None}, at : {"idle", "refs", "list", "items"},
           refs : SUBSET Steps, todo : [Slots -> {"skip", "quarantine", "invalidate"}]]

\* Every failure about to be recorded is one, and the cycle has an attempt.
EngineInv ==
    /\ pc  \in [Attempts -> [Slots -> Places]]
    /\ err \in [Attempts -> [Slots -> Failures \cup {"none"}]]
    /\ \A a \in Attempts, n \in Slots : pc[a][n] \in Failing => err[a][n] # "none"
    /\ recovery \in Cycles
    /\ recovery.at # "idle" => recovery.on \in Attempts

-----------------------------------------------------------------------------
(* Failures, places and moves.                                             *)

\* Every failure that the engine derives is one that a row can hold.
LEMMA FailureFacts ==
    /\ {"lease_lost", "lease_lost_final", "retryable", "fatal", "artifact_invalidation"}
           \subseteq Failures
    /\ LeaseLost \subseteq Failures
    /\ \A n : ConflictRow(n) \in Failures /\ ErrorRow(n) \in Failures
    /\ \A n : ActorFailures(n) \subseteq Failures /\ CopyFailure(n) \in Failures
    /\ \A r : Mark(r) \in Failures /\ Unmark(r) \in Failures
    /\ "none" \notin Failures
    /\ \A e \in Failures : RowFor(e) \in FailedRows \ {"worker_loss", "expired"}
    /\ RowFor("artifact_invalidation") = "artifact_invalidation"
BY DEF Failures, FailedRows, Retryable, Unretryable, Marked, LeaseLost, RowStates,
       ConflictRow, ErrorRow, ActorFailures, CopyFailure, RowFor, Mark, Unmark

\* A failed publication and a finished one go on at a known place.
LEMMA PlaceFacts ==
    /\ \A n, e : FailAt(n, e) \in Places /\ AfterSeal(n) \in Places \ Failing
    /\ Failing \subseteq Places
BY DEF FailAt, AfterSeal, Places, Failing

\* Moving a slot keeps the invariant when a failure is at hand where one is needed.
LEMMA GotoKeeps ==
    ASSUME EngineInv, NEW a \in Attempts, NEW n \in Slots, NEW to \in Places,
           Goto(a, n, to), to \in Failing => err[a][n] # "none"
    PROVE  EngineInv'
BY DEF EngineInv, Goto, Rest

\* So does moving it with a new failure.
LEMMA ThrowKeeps ==
    ASSUME EngineInv, NEW a \in Attempts, NEW n \in Slots, NEW to \in Places,
           NEW e \in Failures \cup {"none"},
           Throw(a, n, to, e) \/ FaultTo(a, n, to, e), to \in Failing => e # "none"
    PROVE  EngineInv'
<1>1. /\ pc' = [pc EXCEPT ![a][n] = to] /\ err' = [err EXCEPT ![a][n] = e]
      /\ recovery' = recovery
  BY DEF Throw, FaultTo, Rest
<1> QED BY <1>1 DEF EngineInv

\* And so does a step of the recovery cycle or of a user.
LEMMA WorkersUntouched ==
    ASSUME EngineInv, UNCHANGED <<pc, err, recovery>>
    PROVE  EngineInv'
BY DEF EngineInv

-----------------------------------------------------------------------------
(* Transactions of the ledger, as the engine calls them.                   *)

\* Each transaction on an attempt is a step of the ledger.
LEMMA AttemptTransactions ==
    ASSUME NEW a \in Attempts
    PROVE  /\ Refused(a) => Next
           /\ ExpireExecutionLease(a) => Next
           /\ LeaseRunsOut(a) => Next
           /\ CancelExecution(a) \/ CancelPausedExecution(a) \/ RetryPausedExecution(a) => Next
           /\ CompleteExecution(a) \/ InvalidateTerminal(a) => Next
           /\ \A p \in Plans : ClaimExecution(a, p) => Next
           /\ \A v : \A kind \in {"artifact_invalidation", "other"} :
                 PauseExecution(a, v, kind) => Next
BY DEF Next, AttemptStep, PauseExecution, MayPause

\* And so is each transaction on a step row or an Artifact.
LEMMA SlotTransactions ==
    ASSUME NEW a \in Attempts, NEW n \in Slots
    PROVE  /\ \A r \in {"running", "succeeded", "skipped"} : RecordStep(a, n, r) => Next
           /\ \A e \in Failures : RecordStep(a, n, RowFor(e)) => Next
           /\ \A r \in LeaseLost : RecordLeaseLostStep(a, n, r) => Next
           /\ ClearPromotion(a, n) \/ PromoteInvalidation(a, n) \/ PromotionRefused(a, n) => Next
           /\ CreateStagingArtifact(a, n) \/ WriteFile(a, n) => Next
           /\ SealArtifact(a, n) \/ SealRefused(a, n) => Next
           /\ InvalidatePublication(a, n) \/ QuarantineStaging(a, n) => Next
<1>1. /\ {"running", "succeeded", "skipped"} \subseteq RowStates \ {"none", "worker_loss", "expired"}
      /\ \A e \in Failures : RowFor(e) \in RowStates \ {"none", "worker_loss", "expired"}
  BY FailureFacts DEF RowStates, FailedRows, Retryable, Unretryable, Marked
<1> QED BY <1>1 DEF Next, SlotStep

-----------------------------------------------------------------------------
(* The engine's steps.                                                     *)

\* What is to be shown of every step.
Sound == EngineInv' /\ [Next]_ledgerVars

\* Loading an execution, and beginning a step.
LEMMA BeginSound ==
    ASSUME EngineInv, NEW a \in Attempts, NEW s \in Steps,
           Load(a) \/ BeginStep(a, s) \/ BeginReuse(a, s) \/ Act(a, s)
    PROVE  Sound
<1> USE AttemptTransactions, SlotTransactions, FailureFacts DEF Sound
<1>0. s \in Slots
  BY LedgerFacts
<1>1. CASE Load(a)
  BY <1>1, WorkersUntouched DEF Load
<1>2. CASE BeginStep(a, s)
  <2>1. CASE RecordStep(a, s, "running") /\ Goto(a, s, "act")
    BY <1>0, <2>1, GotoKeeps DEF Places, Failing
  <2>2. CASE Refused(a) /\ Throw(a, s, "fail", "lease_lost")
    BY <1>0, <2>2, ThrowKeeps DEF Places
  <2> QED BY <1>2, <2>1, <2>2 DEF BeginStep
<1>3. CASE BeginReuse(a, s)
  <2>1. CASE UNCHANGED ledgerVars /\ Goto(a, s, "create")
    BY <1>0, <2>1, GotoKeeps DEF Places, Failing
  <2>2. CASE UNCHANGED ledgerVars /\ Throw(a, s, "fail", CopyFailure(s))
    BY <1>0, <2>2, ThrowKeeps DEF Places
  <2>3. CASE Refused(a) /\ Throw(a, s, "fail", "lease_lost")
    BY <1>0, <2>3, ThrowKeeps DEF Places
  <2> QED BY <1>3, <2>1, <2>2, <2>3 DEF BeginReuse
<1>4. CASE Act(a, s)
  <2>1. ASSUME NEW e \in ActorFailures(s), UNCHANGED ledgerVars, Throw(a, s, "fail", e)
        PROVE  Sound
    BY <1>0, <2>1, ThrowKeeps DEF Places
  <2>2. CASE UNCHANGED ledgerVars /\ Goto(a, s, "create")
    BY <1>0, <2>2, GotoKeeps DEF Places, Failing
  <2>3. CASE Refused(a) /\ Throw(a, s, "fail", "lease_lost")
    BY <1>0, <2>3, ThrowKeeps DEF Places
  <2> QED BY <1>4, <2>1, <2>2, <2>3 DEF Act
<1> QED BY <1>1, <1>2, <1>3, <1>4

\* Publishing the Artifact of a slot.
LEMMA PublishSound ==
    ASSUME EngineInv, NEW a \in Attempts, NEW n \in Slots,
           Create(a, n) \/ Write(a, n) \/ Seal(a, n) \/ Tidy(a, n) \/ Undo(a, n)
    PROVE  Sound
<1> USE AttemptTransactions, SlotTransactions, FailureFacts, PlaceFacts DEF Sound
<1>1. CASE Create(a, n)
  <2>1. CASE CreateStagingArtifact(a, n) /\ Goto(a, n, "write")
    BY <2>1, GotoKeeps DEF Places, Failing
  <2>2. CASE UNCHANGED ledgerVars /\ Throw(a, n, FailAt(n, ConflictRow(n)), ConflictRow(n))
    BY <2>2, ThrowKeeps
  <2>3. CASE (CreateStagingArtifact(a, n) \/ UNCHANGED ledgerVars) /\ FaultTo(a, n, "tidy", ErrorRow(n))
    BY <2>3, ThrowKeeps DEF Places
  <2> QED BY <1>1, <2>1, <2>2, <2>3 DEF Create
<1>2. CASE Write(a, n)
  <2>1. CASE WriteFile(a, n) /\ Goto(a, n, "seal")
    BY <2>1, GotoKeeps DEF Places, Failing
  <2>2. CASE (WriteFile(a, n) \/ UNCHANGED ledgerVars) /\ FaultTo(a, n, "tidy", ErrorRow(n))
    BY <2>2, ThrowKeeps DEF Places
  <2> QED BY <1>2, <2>1, <2>2 DEF Write
<1>3. CASE Seal(a, n)
  <2>1. CASE SealArtifact(a, n) /\ Goto(a, n, AfterSeal(n))
    BY <2>1, GotoKeeps
  <2>2. CASE SealRefused(a, n) /\ Throw(a, n, "tidy", ConflictRow(n))
    BY <2>2, ThrowKeeps DEF Places
  <2>3. CASE (SealArtifact(a, n) \/ UNCHANGED ledgerVars) /\ FaultTo(a, n, "tidy", ErrorRow(n))
    BY <2>3, ThrowKeeps DEF Places
  <2> QED BY <1>3, <2>1, <2>2, <2>3 DEF Seal
<1>4. CASE Tidy(a, n)
  <2>1. err[a][n] \in Failures
    BY <1>4 DEF Tidy, At, EngineInv, Failing
  <2>2. CASE UNCHANGED ledgerVars /\ Throw(a, n, AfterSeal(n), "none")
    BY <2>2, ThrowKeeps
  <2>3. CASE /\ QuarantineStaging(a, n) \/ InvalidatePublication(a, n)
             /\ Throw(a, n, FailAt(n, err[a][n]), err[a][n])
    BY <2>1, <2>3, ThrowKeeps
  <2>4. CASE /\ UNCHANGED ledgerVars
             /\ FaultTo(a, n, FailAt(n, "artifact_invalidation"), "artifact_invalidation")
    BY <2>4, ThrowKeeps
  <2> QED BY <1>4, <2>2, <2>3, <2>4 DEF Tidy
<1>5. CASE Undo(a, n)
  <2>1. err[a][n] # "none"
    BY <1>5 DEF Undo, At, EngineInv, Failing
  <2>2. CASE InvalidatePublication(a, n) /\ Goto(a, n, "fail")
    BY <2>1, <2>2, GotoKeeps DEF Places
  <2>3. CASE UNCHANGED ledgerVars /\ FaultTo(a, n, "fail", "artifact_invalidation")
    BY <2>3, ThrowKeeps DEF Places
  <2> QED BY <1>5, <2>2, <2>3 DEF Undo
<1> QED BY <1>1, <1>2, <1>3, <1>4, <1>5

\* Recording the success of a step, with its second try and its read-back.
LEMMA RecordSuccessSound ==
    ASSUME EngineInv, NEW a \in Attempts, NEW s \in Steps,
           RecordSuccess(a, s) \/ RecordAgain(a, s) \/ ReadBack(a, s)
    PROVE  Sound
<1> USE AttemptTransactions, SlotTransactions, FailureFacts DEF Sound
<1>0. s \in Slots
  BY LedgerFacts
<1>1. CASE RecordSuccess(a, s)
  <2>1. CASE RecordStep(a, s, "succeeded") /\ Goto(a, s, "done")
    BY <1>0, <2>1, GotoKeeps DEF Places, Failing
  <2>2. CASE Refused(a) /\ Throw(a, s, "undo", "lease_lost")
    BY <1>0, <2>2, ThrowKeeps DEF Places
  <2>3. CASE /\ RecordStep(a, s, "succeeded") \/ UNCHANGED ledgerVars
             /\ FaultTo(a, s, "record_again", "none")
    BY <1>0, <2>3, ThrowKeeps DEF Places, Failing
  <2> QED BY <1>1, <2>1, <2>2, <2>3 DEF RecordSuccess
<1>2. CASE RecordAgain(a, s)
  <2>1. CASE RecordStep(a, s, "succeeded") /\ Goto(a, s, "done")
    BY <1>0, <2>1, GotoKeeps DEF Places, Failing
  <2>2. CASE Refused(a) /\ Throw(a, s, "read_back", "lease_lost")
    BY <1>0, <2>2, ThrowKeeps DEF Places
  <2>3. CASE /\ RecordStep(a, s, "succeeded") \/ UNCHANGED ledgerVars
             /\ FaultTo(a, s, "read_back", ErrorRow(s))
    BY <1>0, <2>3, ThrowKeeps DEF Places
  <2> QED BY <1>2, <2>1, <2>2, <2>3 DEF RecordAgain
<1>3. CASE ReadBack(a, s)
  <2>1. CASE UNCHANGED ledgerVars /\ Throw(a, s, "done", "none")
    BY <1>0, <2>1, ThrowKeeps DEF Places, Failing
  <2>2. CASE /\ UNCHANGED ledgerVars
             /\ \/ Throw(a, s, "fail", Mark(err[a][s]))
                \/ FaultTo(a, s, "fail", Mark(err[a][s]))
    BY <1>0, <2>2, ThrowKeeps DEF Places
  <2> QED BY <1>3, <2>1, <2>2 DEF ReadBack
<1> QED BY <1>1, <1>2, <1>3

\* Recording the failure of a slot, in time or after a conflict.
LEMMA RecordFailureSound ==
    ASSUME EngineInv, NEW a \in Attempts, NEW n \in Slots,
           RecordFailure(a, n) \/ RecordFailureLate(a, n)
    PROVE  Sound
<1> USE AttemptTransactions, SlotTransactions, FailureFacts DEF Sound
<1>0. err[a][n] \in Failures /\ RowOf(n) \in Slots
  BY LedgerFacts DEF RecordFailure, RecordFailureLate, At, EngineInv, Failing, RowOf
<1>1. NextAfterRecord(a, n) \in Places \ Failing
  BY DEF NextAfterRecord, Places, Failing
<1>2. CASE RecordFailure(a, n)
  <2>1. CASE RecordStep(a, n, "skipped") /\ Goto(a, n, "skipped")
    BY <2>1, GotoKeeps DEF Places, Failing
  <2>2. CASE UNCHANGED ledgerVars /\ (Goto(a, n, "rejected") \/ Goto(a, n, "fail_late"))
    BY <1>0, <2>2, GotoKeeps DEF Places, Failing
  <2>3. CASE Refused(a) /\ (Goto(a, n, "rejected") \/ Goto(a, n, "fail_late"))
    BY <1>0, <2>3, GotoKeeps DEF Places, Failing
  <2>4. CASE RecordStep(a, RowOf(n), RowFor(err[a][n])) /\ Goto(a, n, NextAfterRecord(a, n))
    BY <1>0, <1>1, <2>4, GotoKeeps
  <2>5. CASE UNCHANGED ledgerVars /\ FaultTo(a, n, "rejected", err[a][n])
    BY <1>0, <2>5, ThrowKeeps DEF Places
  <2> QED BY <1>2, <2>1, <2>2, <2>3, <2>4, <2>5 DEF RecordFailure
<1>3. CASE RecordFailureLate(a, n)
  <2>1. CASE /\ err[a][n] \in LeaseLost /\ RecordLeaseLostStep(a, RowOf(n), err[a][n])
             /\ Goto(a, n, NextAfterRecord(a, n))
    BY <1>0, <1>1, <2>1, GotoKeeps
  <2>2. CASE UNCHANGED ledgerVars /\ Goto(a, n, "rejected")
    BY <2>2, GotoKeeps DEF Places, Failing
  <2>3. CASE /\ PromoteInvalidation(a, n) \/ PromotionRefused(a, n)
             /\ Goto(a, n, "paused") \/ Goto(a, n, "rejected")
    BY <2>3, GotoKeeps DEF Places, Failing
  <2> QED BY <1>3, <2>1, <2>2, <2>3 DEF RecordFailureLate
<1> QED BY <1>2, <1>3

\* The deferred cleanup of a step whose failure is on record.
LEMMA CleanupSound ==
    ASSUME EngineInv, NEW a \in Attempts, NEW s \in Steps,
           Cleanup(a, s) \/ Clear(a, s) \/ Promote(a, s)
    PROVE  Sound
<1> USE SlotTransactions, FailureFacts DEF Sound
<1>0. s \in Slots
  BY LedgerFacts
<1>1. CASE Cleanup(a, s)
  <2>1. CASE InvalidatePublication(a, s) /\ Goto(a, s, "clear")
    BY <1>0, <2>1, GotoKeeps DEF Places, Failing
  <2>2. CASE UNCHANGED ledgerVars /\ FaultTo(a, s, "promote", "artifact_invalidation")
    BY <1>0, <2>2, ThrowKeeps DEF Places
  <2> QED BY <1>1, <2>1, <2>2 DEF Cleanup
<1>2. CASE Clear(a, s)
  <2>1. CASE ClearPromotion(a, s) /\ Throw(a, s, "paused", Unmark(err[a][s]))
    BY <1>0, <2>1, ThrowKeeps DEF Places
  <2>2. CASE UNCHANGED ledgerVars /\ Goto(a, s, "rejected")
    BY <1>0, <2>2, GotoKeeps DEF Places, Failing
  <2> QED BY <1>2, <2>1, <2>2 DEF Clear
<1>3. CASE Promote(a, s)
  BY <1>0, <1>3, GotoKeeps DEF Promote, Places, Failing
<1> QED BY <1>1, <1>2, <1>3

\* The Evidence Manifest and the report, up to their publication.
LEMMA ReportSound ==
    ASSUME EngineInv, NEW a \in Attempts,
           \/ BeginManifest(a) \/ CheckManifest(a) \/ BeginReport(a)
           \/ ReviewPauses(a) \/ Publish(a) \/ Withdraw(a)
    PROVE  Sound
<1> USE AttemptTransactions, SlotTransactions, FailureFacts DEF Sound
<1>0. Manifest \in Slots /\ Report \in Slots
  BY LedgerFacts
<1>1. CASE BeginManifest(a)
  BY <1>0, <1>1, GotoKeeps, ThrowKeeps DEF BeginManifest, Places, Failing
<1>2. CASE CheckManifest(a)
  BY <1>0, <1>2, GotoKeeps, ThrowKeeps DEF CheckManifest, Places, Failing
<1>3. CASE BeginReport(a)
  <2>1. CASE UNCHANGED ledgerVars /\ (Goto(a, Report, "create") \/ Goto(a, Report, "review"))
    BY <1>0, <2>1, GotoKeeps DEF Places, Failing
  <2>2. ASSUME NEW e \in {"retryable", "fatal"}, UNCHANGED ledgerVars, Throw(a, Report, "fail", e)
        PROVE  Sound
    BY <1>0, <2>2, ThrowKeeps DEF Places
  <2>3. CASE Refused(a) /\ Throw(a, Report, "withdraw", "lease_lost")
    BY <1>0, <2>3, ThrowKeeps DEF Places
  <2> QED BY <1>3, <2>1, <2>2, <2>3 DEF BeginReport
<1>4. CASE ReviewPauses(a)
  <2>1. RecordStep(a, Report, "fatal") => Next
    <3>1. RowFor("fatal") = "fatal"
      BY DEF RowFor
    <3>2. RecordStep(a, Report, RowFor("fatal")) => Next
      BY <1>0
    <3> QED BY <3>1, <3>2
  <2> QED BY <1>0, <1>4, <2>1, GotoKeeps, ThrowKeeps DEF ReviewPauses, Places, Failing
<1>5. CASE Publish(a)
  BY <1>0, <1>5, GotoKeeps, ThrowKeeps DEF Publish, Places, Failing
<1>6. CASE Withdraw(a)
  <2>1. err[a][Report] # "none"
    BY <1>0, <1>6 DEF Withdraw, At, EngineInv, Failing
  <2> QED BY <1>0, <1>6, <2>1, GotoKeeps, ThrowKeeps DEF Withdraw, Places, Failing
<1> QED BY <1>1, <1>2, <1>3, <1>4, <1>5, <1>6

\* The transitions of the task while the report is reviewed and composed.
LEMMA TransitionSound ==
    ASSUME EngineInv, NEW a \in Attempts, Review(a) \/ Compose(a)
    PROVE  Sound
<1> USE FailureFacts DEF Sound
<1>0. Report \in Slots
  BY LedgerFacts
<1>1. ASSUME NEW from, NEW to, NEW at, NEW next \in {"compose", "publish"},
             Transition(a, from, to, at, next),
             TransitionTask(known[a], from, to) => Next
      PROVE  Sound
  <2>1. CASE /\ Next /\ pc' = [pc EXCEPT ![a][Report] = next] /\ UNCHANGED <<err, recovery>>
    BY <1>0, <2>1 DEF EngineInv, Places, Failing
  <2>2. CASE UNCHANGED ledgerVars /\ Throw(a, Report, "withdraw", "lease_lost")
    BY <1>0, <2>2, ThrowKeeps DEF Places
  <2> QED BY <1>1, <2>1, <2>2 DEF Transition
<1>2. ASSUME NEW v
      PROVE  /\ TransitionTask(v, "executing", "reviewing") => Next
             /\ TransitionTask(v, "reviewing", "composing_report") => Next
  BY DEF Next, TaskStep, TransitionTask
<1> QED BY <1>1, <1>2 DEF Review, Compose

\* The end of an execution leaves nothing to record.
LEMMA EndKeeps ==
    ASSUME EngineInv, NEW a \in Attempts, End(a)
    PROVE  EngineInv'
<1>1. /\ [n \in Slots |-> "todo"] \in [Slots -> Places]
      /\ [n \in Slots |-> "none"] \in [Slots -> Failures \cup {"none"}]
      /\ "todo" \notin Failing
  BY DEF Places, Failing
<1> QED BY <1>1 DEF EngineInv, End

\* Completing an execution, and pausing it after a failure.
LEMMA EndSound ==
    ASSUME EngineInv, NEW a \in Attempts, Complete(a) \/ Settle(a)
    PROVE  Sound
<1> USE AttemptTransactions, FailureFacts, EndKeeps DEF Sound
<1>0. Report \in Slots
  BY LedgerFacts
<1>1. CASE Complete(a)
  <2>1. CASE CompleteExecution(a) /\ End(a)
    BY <2>1
  <2>2. CASE Refused(a) /\ Throw(a, Report, FailAt(Report, "lease_lost"), "lease_lost")
    BY <1>0, <2>2, PlaceFacts, ThrowKeeps
  <2>3. CASE /\ CompleteExecution(a) \/ UNCHANGED ledgerVars
             /\ FaultTo(a, Report, FailAt(Report, "retryable"), "retryable")
    BY <1>0, <2>3, PlaceFacts, ThrowKeeps
  <2> QED BY <1>1, <2>1, <2>2, <2>3 DEF Complete
<1>2. CASE Settle(a)
  <2>1. PauseReason(a) \in {"artifact_invalidation", "other"}
    BY DEF PauseReason
  <2>2. CASE PauseExecution(a, known[a], PauseReason(a)) /\ End(a)
    BY <2>1, <2>2
  <2>3. CASE UNCHANGED ledgerVars /\ End(a)
    BY <2>3
  <2> QED BY <1>2, <2>2, <2>3 DEF Settle
<1> QED BY <1>1, <1>2

\* The actions of one worker.
LEMMA WorkSound ==
    ASSUME EngineInv, NEW a \in Attempts, Work(a)
    PROVE  Sound
<1>1. ASSUME NEW s \in Steps, StepWork(a, s)
      PROVE  Sound
  BY <1>1, BeginSound, RecordSuccessSound, CleanupSound DEF StepWork
<1>2. ASSUME NEW n \in Slots, SlotWork(a, n)
      PROVE  Sound
  BY <1>2, PublishSound, RecordFailureSound DEF SlotWork
<1>3. CASE ReportWork(a)
  BY <1>3, ReportSound, TransitionSound, EndSound DEF ReportWork
<1>4. CASE Load(a)
  <2>1. 1 \in Steps
    BY LedgerAssumption DEF Steps
  <2> QED BY <1>4, <2>1, BeginSound
<1> QED BY <1>1, <1>2, <1>3, <1>4, EndSound DEF Work

\* Between two cycles the timer remembers nothing.
LEMMA IdleFacts ==
    /\ Idle \in Cycles /\ Idle.at = "idle"
    /\ \A a \in Attempts : /\ [Idle EXCEPT !.on = a, !.at = "refs"] \in Cycles
                           /\ [Idle EXCEPT !.on = a, !.at = "refs"].on = a
BY DEF Idle, Cycles, None

\* A crash forgets the workers and the cycle, and the rows stay.
LEMMA CrashSound ==
    ASSUME EngineInv, Crash
    PROVE  Sound
<1>1. "todo" \in Places \ Failing
  BY DEF Places, Failing
<1> QED BY <1>1, IdleFacts DEF Sound, Crash, EngineInv

\* Moving the recovery cycle keeps the invariant as long as it knows its attempt.
LEMMA CycleKeeps ==
    ASSUME EngineInv, NEW next \in Cycles, next.at # "idle" => next.on \in Attempts,
           RecoveryStep(next) \/ RecoveryFault(next)
    PROVE  EngineInv'
BY DEF EngineInv, RecoveryStep, RecoveryFault, workerVars

\* The recovery cycle calls the ledger for the attempt it picked up.
LEMMA RecoverySound ==
    ASSUME EngineInv, Recover \/ \E a \in Attempts : PickUp(a)
    PROVE  Sound
<1> USE DEF Sound
<1>0. recovery \in Cycles /\ (recovery.at # "idle" => recovery.on \in Attempts)
  BY DEF EngineInv
<1>1. ASSUME NEW a \in Attempts, PickUp(a)
      PROVE  Sound
  BY <1>1, AttemptTransactions, IdleFacts, CycleKeeps DEF PickUp
<1>2. CASE ListReferences
  <2>1. ASSUME NEW refs \in SUBSET Steps
        PROVE  /\ [recovery EXCEPT !.at = "list", !.refs = refs] \in Cycles
               /\ [recovery EXCEPT !.at = "list", !.refs = refs].on = recovery.on
    BY <1>0 DEF Cycles
  <2>2. recovery.on \in Attempts
    BY <1>0, <1>2 DEF ListReferences
  <2> QED BY <1>2, <2>1, <2>2, CycleKeeps DEF ListReferences
<1>3. CASE ListArtifacts
  <2> DEFINE next == [recovery EXCEPT !.at = "items", !.todo = [n \in Slots |-> Recovery(n)]]
  <2>1. [n \in Slots |-> Recovery(n)] \in [Slots -> {"skip", "quarantine", "invalidate"}]
    BY DEF Recovery
  <2>2. next \in Cycles /\ next.on = recovery.on
    BY <1>0, <2>1 DEF Cycles
  <2>3. recovery.on \in Attempts
    BY <1>0, <1>3 DEF ListArtifacts
  <2>4. UNCHANGED ledgerVars /\ (RecoveryStep(next) \/ RecoveryFault(Idle))
    BY <1>3 DEF ListArtifacts
  <2> HIDE DEF next
  <2> QED BY <2>2, <2>3, <2>4, IdleFacts, CycleKeeps
<1>4. CASE EndCycle
  BY <1>4, IdleFacts, CycleKeeps DEF EndCycle
<1>5. ASSUME NEW n \in Slots, RecoverArtifact(n)
      PROVE  Sound
  <2> DEFINE next == [recovery EXCEPT !.todo[n] = "skip"]
  <2>1. recovery.on \in Attempts
    BY <1>0, <1>5 DEF RecoverArtifact
  <2>2. [Next]_ledgerVars
    BY <1>5, <2>1, SlotTransactions DEF RecoverArtifact
  <2>3. next \in Cycles /\ next.on = recovery.on
    BY <1>0 DEF Cycles
  <2>4. RecoveryStep(next) \/ RecoveryFault(next)
    BY <1>5 DEF RecoverArtifact
  <2> HIDE DEF next
  <2> QED BY <2>1, <2>2, <2>3, <2>4, CycleKeeps
<1> QED BY <1>1, <1>2, <1>3, <1>4, <1>5 DEF Recover

\* The users' commands and the clock.
LEMMA UserSound ==
    ASSUME EngineInv,
           Command \/ \E a \in Attempts : LeaseExpires(a) \/ \E p \in Plans : Claim(a, p)
    PROVE  Sound
<1> USE AttemptTransactions, WorkersUntouched DEF Sound
<1>1. CASE Command
  <2>1. Next
    BY <1>1 DEF Command, Next, TaskStep
  <2>2. UNCHANGED <<pc, err, recovery>>
    BY <1>1 DEF Command, workerVars
  <2> QED BY <2>1, <2>2
<1>2. ASSUME NEW a \in Attempts, LeaseExpires(a)
      PROVE  Sound
  BY <1>2 DEF LeaseExpires, workerVars
<1>3. ASSUME NEW a \in Attempts, NEW p \in Plans, Claim(a, p)
      PROVE  Sound
  BY <1>3 DEF Claim
<1> QED BY <1>1, <1>2, <1>3

-----------------------------------------------------------------------------
(* The theorems.                                                           *)

\* The engine starts as the ledger does.
LEMMA EngineStarts == EngineInit => Init /\ EngineInv
<1> SUFFICES ASSUME EngineInit
             PROVE  EngineInv
  BY DEF EngineInit
<1>1. "todo" \in Places \ Failing
  BY DEF Places, Failing
<1>2. /\ pc  \in [Attempts -> [Slots -> Places]]
      /\ err \in [Attempts -> [Slots -> Failures \cup {"none"}]]
      /\ \A a \in Attempts, n \in Slots : pc[a][n] = "todo"
  BY <1>1 DEF EngineInit
<1> QED BY <1>1, <1>2, IdleFacts DEF EngineInit, EngineInv

\* Every step of the engine is sound.
LEMMA EngineSteps ==
    ASSUME EngineInv, [EngineNext]_vars
    PROVE  EngineInv' /\ [Next]_ledgerVars
<1> USE DEF Sound
<1>1. CASE EngineNext
  BY <1>1, WorkSound, CrashSound, RecoverySound, UserSound DEF EngineNext
<1>2. CASE UNCHANGED vars
  BY <1>2 DEF vars, workerVars, EngineInv
<1> QED BY <1>1, <1>2

\* So what the engine remembers is always right.
LEMMA EngineInvariant == EngineSpec => []EngineInv
BY EngineStarts, EngineSteps, PTL DEF EngineSpec

\* Whatever workers, recovery and users do, crashes and lost answers included, is
\* a behaviour of the ledger: no caller does what the ledger does not allow.
THEOREM EngineImplementsLedger == EngineSpec => ImplementsLedger
BY EngineStarts, EngineSteps, PTL DEF EngineSpec, ImplementsLedger, Spec

\* So every promise of the ledger is kept by the running system.
THEOREM EngineKeepsLedgerPromises ==
    EngineSpec => /\ [](OneActiveAttempt /\ SupersededIsOver)
                  /\ [](NoRetryOverInvalidation /\ RetryStartsClean)
                  /\ StaleCallersAreFenced /\ ImplementsAuthority
BY EngineImplementsLedger, OneActiveAttemptAlways, SupersededIsOverAlways,
   NoRetryOverInvalidationAlways, RetryStartsCleanAlways, StaleCallersAreFencedAlways,
   LedgerImplementsAuthority, PTL DEF ImplementsLedger

(***************************************************************************)
(* Part 3: succeeded steps keep their outputs.                             *)
(***************************************************************************)

\* Where a worker stands as long as the success of its step is not recorded, and
\* where it may still record it.
Unrecorded == {"todo", "act", "create", "write", "seal", "tidy", "record", "undo", "cleanup"}
Recording  == {"record", "record_again"}

\* What the worker of a knows of its steps: none succeeds before it runs, none
\* twice, and none without its output.
WorkerInv ==
    /\ stage \in [Attempts -> {"idle", "loading", "running", "ended"}]
    /\ \A a \in Attempts :
        /\ attemptState[a] = "none" => stage[a] = "idle"
        /\ \A s \in Steps :
              /\ stage[a] \in {"idle", "loading"} =>
                    row[a][s] # "succeeded" /\ pc[a][s] \notin Recording
              /\ stage[a] = "running" /\ pc[a][s] \in Unrecorded => row[a][s] # "succeeded"
              /\ stage[a] = "running" /\ pc[a][s] \in Recording /\ attemptState[a] = "active"
                    => art[a][s] = "sealed"

\* What a recovery cycle knows: its attempt stopped, and the outputs that it is
\* about to invalidate belong to steps that did not succeed.
CycleInv ==
    /\ recovery.at # "idle" => attemptState[recovery.on] \notin {"none", "active"}
    /\ \A s \in Steps :
          /\ recovery.at = "list" /\ row[recovery.on][s] = "succeeded" => s \in recovery.refs
          /\ recovery.todo[s] = "invalidate" =>
                recovery.at = "items" /\ row[recovery.on][s] # "succeeded"

CheckpointInv == CheckpointsSurvive /\ WorkerInv /\ CycleInv

-----------------------------------------------------------------------------
(* What a transaction may do to the outputs of steps.                      *)

\* No attempt starts, and none that started is forgotten.
NoneStarts ==
    \A b \in Attempts : /\ attemptState'[b] = "active" => attemptState[b] = "active"
                        /\ attemptState'[b] = "none" <=> attemptState[b] = "none"

\* No step succeeds.
NoneSucceeds ==
    \A b \in Attempts, s \in Steps : row'[b][s] = "succeeded" => row[b][s] = "succeeded"

\* A sealed output stays sealed, and a step that succeeded stays so.
Harmless ==
    /\ NoneStarts /\ NoneSucceeds
    /\ \A b \in Attempts, s \in Steps : art[b][s] = "sealed" => art'[b][s] = "sealed"

\* The slots of the manifest and the report are not those of steps.
LEMMA SlotFacts ==
    Steps \subseteq Slots /\ Steps \subseteq Rows /\ Manifest \notin Steps /\ Report \notin Steps
BY LedgerAssumption, LedgerFacts DEF Steps, Manifest, Report

\* A pause for worker loss, with or without the row that recovery appends.
LEMMA PausesAreHarmless ==
    ASSUME TypeOK, NEW a \in Attempts
    PROVE  /\ PauseExpired(a) => Harmless
           /\ Refused(a) => Harmless
           /\ ExpireExecutionLease(a) => Harmless
<1> USE SlotFacts DEF TypeOK, Harmless, NoneStarts, NoneSucceeds
<1>1. \A s \in Steps : Interrupted(a)[s] = "succeeded" => row[a][s] = "succeeded"
  BY DEF Interrupted
<1>2. PauseExpired(a) => Harmless
  BY <1>1 DEF PauseExpired, PauseForWorkerLoss, LeaseExpired, Runs
<1>3. UNCHANGED ledgerVars => Harmless
  BY DEF ledgerVars, attemptVars
<1>4. Refused(a) => Harmless
  BY <1>2, <1>3 DEF Refused
<1>5. ExpireExecutionLease(a) => Harmless
  BY <1>1 DEF ExpireExecutionLease, PauseForWorkerLoss, LeaseExpired, Runs
<1> QED BY <1>2, <1>4, <1>5

\* Transactions on an attempt other than its claim.
LEMMA AttemptsAreHarmless ==
    ASSUME TypeOK, ~Native, NEW a \in Attempts
    PROVE  /\ UNCHANGED ledgerVars => Harmless
           /\ LeaseRunsOut(a) => Harmless
           /\ CancelExecution(a) \/ CancelPausedExecution(a) \/ RetryPausedExecution(a) => Harmless
           /\ CompleteExecution(a) \/ InvalidateTerminal(a) => Harmless
           /\ \A v, kind : PauseExecution(a, v, kind) => Harmless
<1> USE SlotFacts DEF TypeOK, Harmless, NoneStarts, NoneSucceeds
<1>1. UNCHANGED ledgerVars => Harmless
  BY DEF ledgerVars, attemptVars
<1>2. LeaseRunsOut(a) => Harmless
  BY DEF LeaseRunsOut
<1>3. CancelExecution(a) \/ CancelPausedExecution(a) \/ RetryPausedExecution(a) => Harmless
  BY DEF CancelExecution, CancelPausedExecution, RetryPausedExecution, attemptVars
<1>4. CompleteExecution(a) => Harmless
  BY DEF CompleteExecution, HoldsLease, Runs
<1>5. InvalidateTerminal(a) => Harmless
  BY DEF InvalidateTerminal, Invalidated, attemptVars
<1>6. \A v, kind : PauseExecution(a, v, kind) => Harmless
  BY DEF PauseExecution, MayPause
<1> QED BY <1>1, <1>2, <1>3, <1>4, <1>5, <1>6

\* Transactions on a row or an Artifact, but for a success and an invalidation.
LEMMA SlotsAreHarmless ==
    ASSUME TypeOK, NEW a \in Attempts, NEW n \in Slots
    PROVE  /\ \A r : RecordStep(a, n, r) /\ r # "succeeded" => Harmless
           /\ \A r \in LeaseLost : RecordLeaseLostStep(a, n, r) => Harmless
           /\ ClearPromotion(a, n) => Harmless
           /\ PromoteInvalidation(a, n) => Harmless
           /\ PromotionRefused(a, n) => Harmless
           /\ CreateStagingArtifact(a, n) \/ WriteFile(a, n) => Harmless
           /\ SealArtifact(a, n) \/ QuarantineStaging(a, n) => Harmless
           /\ SealRefused(a, n) => Harmless
           /\ InvalidatePublication(a, n) /\ art[a][n] # "sealed" => Harmless
<1> USE SlotFacts, LedgerFacts DEF TypeOK, Harmless, NoneStarts, NoneSucceeds
<1>0. UNCHANGED ledgerVars => Harmless
  BY DEF ledgerVars, attemptVars
<1>1. \A r : RecordStep(a, n, r) /\ r # "succeeded" => Harmless
  BY DEF RecordStep, attemptVars
<1>2. \A r \in LeaseLost : RecordLeaseLostStep(a, n, r) => Harmless
  BY DEF RecordLeaseLostStep, attemptVars, LeaseLost
<1>3. ClearPromotion(a, n) => Harmless
  <2>1. \A r : Unmark(r) # "succeeded"
    BY DEF Unmark
  <2> QED BY <2>1 DEF ClearPromotion, attemptVars
<1>4. PromoteInvalidation(a, n) => Harmless
  <2>1. \A s \in Steps : Interrupted(a)[s] = "succeeded" => row[a][s] = "succeeded"
    BY DEF Interrupted
  <2>2. Interrupted(a) \in [Rows -> RowStates]
    BY InterruptedType
  <2> QED BY <2>1, <2>2 DEF PromoteInvalidation, LeaseExpired, Runs, taskVars
<1>5. PromotionRefused(a, n) => Harmless
  BY <1>0, PausesAreHarmless DEF PromotionRefused
<1>6. \A s : SetArtifact(a, n, s) /\ art[a][n] # "sealed" => Harmless
  BY DEF SetArtifact, attemptVars
<1>7. CreateStagingArtifact(a, n) \/ WriteFile(a, n) => Harmless
  BY <1>0, <1>6 DEF CreateStagingArtifact, WriteFile
<1>8. SealArtifact(a, n) \/ QuarantineStaging(a, n) => Harmless
  BY <1>0, <1>6 DEF SealArtifact, QuarantineStaging
<1>9. SealRefused(a, n) => Harmless
  <2>1. \A s \in Steps : Interrupted(a)[s] = "succeeded" => row[a][s] = "succeeded"
    BY DEF Interrupted
  <2> QED BY <1>0, <2>1 DEF SealRefused, PauseForWorkerLoss, LeaseExpired, Runs, attemptVars
<1>10. InvalidatePublication(a, n) /\ art[a][n] # "sealed" => Harmless
  BY DEF InvalidatePublication, Invalidated, attemptVars
<1> QED BY <1>1, <1>2, <1>3, <1>4, <1>5, <1>7, <1>8, <1>9, <1>10

\* Transactions on the task row alone.
LEMMA TasksAreHarmless ==
    /\ \A to : CompleteConfirmation(to) \/ Approve(to) => Harmless
    /\ \A v, from, to : TransitionTask(v, from, to) => Harmless
    /\ CreatePlanRevision => Harmless
BY DEF CompleteConfirmation, Approve, TransitionTask, CreatePlanRevision, attemptVars,
       Harmless, NoneStarts, NoneSucceeds

-----------------------------------------------------------------------------
(* What keeps the invariant.                                               *)

\* What holds in every state so far.
Good == TypeOK /\ EngineInv /\ CheckpointInv

\* A harmless transaction does, for all that did not move.
LEMMA HarmlessKeeps ==
    ASSUME Good, Harmless
    PROVE  /\ CheckpointsSurvive'
           /\ UNCHANGED <<stage, pc>> => WorkerInv'
           /\ UNCHANGED recovery => CycleInv'
<1> USE DEF Good, Harmless
<1>0. recovery.at # "idle" => recovery.on \in Attempts
  BY DEF EngineInv
<1>1. CheckpointsSurvive'
  BY DEF CheckpointInv, CheckpointsSurvive, NoneSucceeds
<1>2. UNCHANGED <<stage, pc>> => WorkerInv'
  BY DEF CheckpointInv, WorkerInv, NoneStarts, NoneSucceeds
<1>3. UNCHANGED recovery => CycleInv'
  BY <1>0 DEF CheckpointInv, CycleInv, NoneStarts, NoneSucceeds
<1> QED BY <1>1, <1>2, <1>3

\* The worker of a moves slot n to a place; the other slots stay where they are.
Moves(a, n, to) ==
    /\ pc' = [pc EXCEPT ![a][n] = to] /\ UNCHANGED <<stage, recovery>>

\* Only that slot moves.
LEMMA MoveShape ==
    ASSUME EngineInv, NEW a \in Attempts, NEW n \in Slots, NEW to, Moves(a, n, to)
    PROVE  \A b \in Attempts, s \in Steps :
              pc'[b][s] = IF b = a /\ s = n THEN to ELSE pc[b][s]
BY SlotFacts DEF Moves, EngineInv

\* So it does under any move, if a step that goes on to record its success has
\* its output sealed, and none that succeeded goes back.
LEMMA MoveKeeps ==
    ASSUME Good, Harmless, NEW a \in Attempts, NEW n \in Slots, NEW to, Moves(a, n, to),
           stage[a] = "running",
           n \in Steps /\ to \in Unrecorded => pc[a][n] \in Unrecorded \/ row'[a][n] # "succeeded",
           n \in Steps /\ to \in Recording /\ attemptState'[a] = "active" => art'[a][n] = "sealed"
    PROVE  CheckpointInv'
<1> USE SlotFacts DEF Good
<1>1. UNCHANGED <<stage, recovery>>
  BY DEF Moves
<1>2. \A b \in Attempts, s \in Steps : pc'[b][s] = IF b = a /\ s = n THEN to ELSE pc[b][s]
  BY MoveShape
<1>3. WorkerInv'
  BY <1>1, <1>2 DEF CheckpointInv, WorkerInv, Harmless, NoneStarts, NoneSucceeds
<1> QED BY <1>1, <1>3, HarmlessKeeps DEF CheckpointInv

\* A success is recorded over a sealed output.
LEMMA SuccessKeeps ==
    ASSUME Good, NEW a \in Attempts, NEW s \in Steps, RecordStep(a, s, "succeeded"),
           NEW to \in {"done", "record_again", "read_back"}, Moves(a, s, to),
           stage[a] = "running", pc[a][s] \in Recording
    PROVE  CheckpointInv'
<1> USE SlotFacts DEF Good
<1>1. attemptState[a] = "active" /\ art[a][s] = "sealed"
  BY DEF RecordStep, HoldsLease, Runs, CheckpointInv, WorkerInv
<1>2. UNCHANGED <<stage, recovery, art, attemptState>>
  BY DEF RecordStep, attemptVars, Moves
<1>3. \A b \in Attempts, t \in Steps : pc'[b][t] = IF b = a /\ t = s THEN to ELSE pc[b][t]
  BY MoveShape
<1>4. \A b \in Attempts, t \in Steps :
          row'[b][t] = IF b = a /\ t = s THEN "succeeded" ELSE row[b][t]
  BY DEF RecordStep, TypeOK
<1>5. to \notin Unrecorded
  BY DEF Unrecorded
<1>6. CheckpointsSurvive' /\ WorkerInv'
  BY <1>1, <1>2, <1>3, <1>4, <1>5 DEF CheckpointInv, CheckpointsSurvive, WorkerInv
<1>7. recovery.at # "idle" => recovery.on \in Attempts /\ recovery.on # a
  BY <1>1 DEF EngineInv, CheckpointInv, CycleInv
<1>8. CycleInv'
  BY <1>2, <1>4, <1>7 DEF CheckpointInv, CycleInv
<1> QED BY <1>6, <1>8 DEF CheckpointInv

\* The worker invalidates an output only while its step is not recorded.
LEMMA InvalidationKeeps ==
    ASSUME Good, NEW a \in Attempts, NEW n \in Slots, InvalidatePublication(a, n),
           NEW to, Moves(a, n, to), stage[a] = "running",
           n \in Steps => pc[a][n] \in Unrecorded /\ to \notin Unrecorded \cup Recording
    PROVE  CheckpointInv'
<1> USE SlotFacts DEF Good
<1>1. UNCHANGED <<stage, recovery, row, attemptState>>
  BY DEF InvalidatePublication, attemptVars, Moves
<1>2. \A b \in Attempts, s \in Steps : pc'[b][s] = IF b = a /\ s = n THEN to ELSE pc[b][s]
  BY MoveShape
<1>3. \A b \in Attempts, s \in Steps : ~(b = a /\ s = n) => art'[b][s] = art[b][s]
  BY DEF InvalidatePublication, Invalidated, TypeOK
<1>4. n \in Steps => row[a][n] # "succeeded"
  BY DEF CheckpointInv, WorkerInv
<1>5. CheckpointsSurvive' /\ WorkerInv'
  BY <1>1, <1>2, <1>3, <1>4 DEF CheckpointInv, CheckpointsSurvive, WorkerInv
<1>6. CycleInv'
  BY <1>1 DEF CheckpointInv, CycleInv
<1> QED BY <1>5, <1>6 DEF CheckpointInv

\* Nothing is recorded or invalidated after the end of an execution.
LEMMA EndKeepsCheckpoints ==
    ASSUME Good, Harmless, NEW a \in Attempts, stage[a] = "running", End(a)
    PROVE  CheckpointInv'
<1>1. UNCHANGED recovery
  BY DEF End
<1>2. /\ stage' \in [Attempts -> {"idle", "loading", "running", "ended"}]
      /\ \A b \in Attempts : b # a => stage'[b] = stage[b] /\ pc'[b] = pc[b]
  BY DEF End, Good, EngineInv, CheckpointInv, WorkerInv
<1>3. stage'[a] = "ended" /\ attemptState'[a] # "none"
  BY DEF End, Good, CheckpointInv, WorkerInv, Harmless, NoneStarts
<1>4. WorkerInv'
  BY <1>2, <1>3 DEF Good, CheckpointInv, WorkerInv, Harmless, NoneStarts, NoneSucceeds
<1> QED BY <1>1, <1>4, HarmlessKeeps DEF CheckpointInv

-----------------------------------------------------------------------------
(* The engine's steps.                                                     *)

\* Every move of the engine is one.
LEMMA MoveFacts ==
    /\ \A a, n, to : Goto(a, n, to) => Moves(a, n, to)
    /\ \A a, n, to, e : Throw(a, n, to, e) \/ FaultTo(a, n, to, e) => Moves(a, n, to)
BY DEF Goto, Throw, FaultTo, Rest, Moves

\* A step goes from publishing to recording, or to its failure.
LEMMA StepPlaces ==
    ASSUME NEW s \in Steps
    PROVE  AfterSeal(s) = "record" /\ \A e : FailAt(s, e) = "fail"
BY SlotFacts DEF AfterSeal, FailAt

\* Beginning a step.
LEMMA BeginKeeps ==
    ASSUME Good, ~Native, NEW a \in Attempts, NEW s \in Steps,
           BeginStep(a, s) \/ BeginReuse(a, s) \/ Act(a, s)
    PROVE  CheckpointInv'
<1> USE SlotFacts, PausesAreHarmless, AttemptsAreHarmless, MoveFacts DEF Good, Unrecorded, Recording
<1>1. stage[a] = "running" /\ pc[a][s] \in {"todo", "act"}
  BY DEF BeginStep, BeginReuse, Act, At
<1>2. Harmless
  BY SlotsAreHarmless DEF BeginStep, BeginReuse, Act
<1>3. \E to \in {"act", "create", "fail"} : Moves(a, s, to)
  BY DEF BeginStep, BeginReuse, Act
<1> QED BY <1>1, <1>2, <1>3, MoveKeeps

\* Publishing an Artifact.
LEMMA PublishKeeps ==
    ASSUME Good, ~Native, NEW a \in Attempts, NEW n \in Slots,
           Create(a, n) \/ Write(a, n) \/ Seal(a, n) \/ Undo(a, n)
    PROVE  CheckpointInv'
<1> USE SlotFacts, SlotsAreHarmless, AttemptsAreHarmless, MoveFacts, StepPlaces
    DEF Good, Unrecorded, Recording
<1>1. stage[a] = "running" /\ pc[a][n] \in {"create", "write", "seal", "undo"}
  BY DEF Create, Write, Seal, Undo, At
<1>2. CASE Create(a, n)
  BY <1>1, <1>2, MoveKeeps DEF Create
<1>3. CASE Write(a, n)
  BY <1>1, <1>3, MoveKeeps DEF Write
<1>4. CASE Seal(a, n)
  <2>1. SealArtifact(a, n) => art'[a][n] = "sealed"
    BY DEF SealArtifact, SetArtifact, TypeOK
  <2> QED BY <1>1, <1>4, <2>1, MoveKeeps DEF Seal
<1>5. CASE Undo(a, n)
  BY <1>1, <1>5, MoveKeeps, InvalidationKeeps DEF Undo
<1> QED BY <1>2, <1>3, <1>4, <1>5

\* Reading the row back after a failed publication.
LEMMA TidyKeeps ==
    ASSUME Good, ~Native, NEW a \in Attempts, NEW n \in Slots, Tidy(a, n)
    PROVE  CheckpointInv'
<1> USE SlotFacts, SlotsAreHarmless, AttemptsAreHarmless, MoveFacts, StepPlaces
    DEF Good, Unrecorded, Recording
<1>1. stage[a] = "running" /\ pc[a][n] = "tidy"
  BY DEF Tidy, At
<1>2. CASE art[a][n] = "sealed" /\ UNCHANGED ledgerVars /\ Moves(a, n, AfterSeal(n))
  <2>1. art' = art
    BY <1>2 DEF ledgerVars
  <2> QED BY <1>1, <1>2, <2>1, MoveKeeps
<1>3. CASE /\ QuarantineStaging(a, n) \/ InvalidatePublication(a, n)
           /\ art[a][n] # "sealed" /\ Moves(a, n, FailAt(n, err[a][n]))
  BY <1>1, <1>3, MoveKeeps
<1>4. CASE UNCHANGED ledgerVars /\ Moves(a, n, FailAt(n, "artifact_invalidation"))
  BY <1>1, <1>4, MoveKeeps
<1> QED BY <1>2, <1>3, <1>4 DEF Tidy

\* Recording the success of a step.
LEMMA RecordSuccessKeeps ==
    ASSUME Good, ~Native, NEW a \in Attempts, NEW s \in Steps,
           RecordSuccess(a, s) \/ RecordAgain(a, s) \/ ReadBack(a, s)
    PROVE  CheckpointInv'
<1> USE SlotFacts, AttemptsAreHarmless, PausesAreHarmless, MoveFacts DEF Good
<1>1. stage[a] = "running"
  BY DEF RecordSuccess, RecordAgain, ReadBack, At
<1>2. ASSUME pc[a][s] \in Recording, RecordStep(a, s, "succeeded"),
             NEW to \in {"done", "record_again", "read_back"}, Moves(a, s, to)
      PROVE  CheckpointInv'
  BY <1>1, <1>2, SuccessKeeps
<1>3. CASE RecordSuccess(a, s)
  <2>1. pc[a][s] = "record"
    BY <1>3 DEF RecordSuccess, At
  <2>2. CASE Refused(a) /\ Moves(a, s, "undo")
    BY <1>1, <2>1, <2>2, MoveKeeps DEF Unrecorded, Recording
  <2>3. CASE UNCHANGED ledgerVars /\ Moves(a, s, "record_again")
    <3>1. UNCHANGED <<art, attemptState>>
      BY <2>3 DEF ledgerVars, attemptVars
    <3>2. attemptState[a] = "active" => art[a][s] = "sealed"
      BY <1>1, <2>1 DEF CheckpointInv, WorkerInv, Recording
    <3> QED BY <1>1, <2>1, <2>3, <3>1, <3>2, MoveKeeps DEF Unrecorded, Recording
  <2> QED BY <1>2, <1>3, <2>1, <2>2, <2>3 DEF RecordSuccess, Recording
<1>4. CASE RecordAgain(a, s)
  <2>1. pc[a][s] = "record_again"
    BY <1>4 DEF RecordAgain, At
  <2>2. CASE (Refused(a) \/ UNCHANGED ledgerVars) /\ Moves(a, s, "read_back")
    BY <1>1, <2>1, <2>2, MoveKeeps DEF Unrecorded, Recording
  <2> QED BY <1>2, <1>4, <2>1, <2>2 DEF RecordAgain, Recording
<1>5. CASE ReadBack(a, s)
  <2>1. UNCHANGED ledgerVars /\ \E to \in {"done", "fail"} : Moves(a, s, to)
    BY <1>5 DEF ReadBack
  <2> QED BY <1>1, <2>1, MoveKeeps DEF Unrecorded, Recording
<1> QED BY <1>3, <1>4, <1>5

\* Recording the failure of a slot.
LEMMA RecordFailureKeeps ==
    ASSUME Good, ~Native, NEW a \in Attempts, NEW n \in Slots,
           RecordFailure(a, n) \/ RecordFailureLate(a, n)
    PROVE  CheckpointInv'
<1> USE SlotFacts, AttemptsAreHarmless, PausesAreHarmless, SlotsAreHarmless, MoveFacts DEF Good
<1>1. /\ stage[a] = "running" /\ err[a][n] \in Failures
      /\ RowFor(err[a][n]) # "succeeded" /\ "succeeded" \notin LeaseLost
      /\ RowOf(n) \in Slots /\ (n \in Steps => RowOf(n) = n)
  BY LedgerFacts, FailureFacts
     DEF RecordFailure, RecordFailureLate, At, EngineInv, Failing, RowOf, Failures, FailedRows,
         Retryable, Unretryable, Marked, LeaseLost
<1>2. ASSUME Harmless,
             NEW to \in {"skipped", "rejected", "fail_late", "paused"}, Moves(a, n, to)
      PROVE  CheckpointInv'
  BY <1>1, <1>2, MoveKeeps DEF Unrecorded, Recording
<1>3. ASSUME Harmless, n \in Steps => row'[a][n] # "succeeded",
             Goto(a, n, NextAfterRecord(a, n))
      PROVE  CheckpointInv'
  BY <1>1, <1>3, MoveKeeps DEF Unrecorded, Recording, NextAfterRecord
<1>4. /\ \A r : RecordStep(a, RowOf(n), r) /\ n \in Steps => row'[a][n] = r
      /\ \A r : RecordLeaseLostStep(a, RowOf(n), r) /\ n \in Steps => row'[a][n] = r
  BY <1>1 DEF RecordStep, RecordLeaseLostStep, TypeOK
<1>5. CASE RecordFailure(a, n)
  <2>1. CASE RecordStep(a, n, "skipped") /\ Goto(a, n, "skipped")
    BY <1>2, <2>1
  <2>2. CASE (UNCHANGED ledgerVars \/ Refused(a)) /\ (Goto(a, n, "rejected") \/ Goto(a, n, "fail_late"))
    BY <1>2, <2>2
  <2>3. CASE RecordStep(a, RowOf(n), RowFor(err[a][n])) /\ Goto(a, n, NextAfterRecord(a, n))
    BY <1>1, <1>3, <1>4, <2>3
  <2>4. CASE UNCHANGED ledgerVars /\ FaultTo(a, n, "rejected", err[a][n])
    BY <1>2, <2>4
  <2> QED BY <1>5, <2>1, <2>2, <2>3, <2>4 DEF RecordFailure
<1>6. CASE RecordFailureLate(a, n)
  <2>1. CASE /\ err[a][n] \in LeaseLost /\ RecordLeaseLostStep(a, RowOf(n), err[a][n])
             /\ Goto(a, n, NextAfterRecord(a, n))
    BY <1>1, <1>3, <1>4, <2>1
  <2>2. CASE UNCHANGED ledgerVars /\ Goto(a, n, "rejected")
    BY <1>2, <2>2
  <2>3. CASE /\ PromoteInvalidation(a, n) \/ PromotionRefused(a, n)
             /\ Goto(a, n, "paused") \/ Goto(a, n, "rejected")
    BY <1>2, <2>3
  <2> QED BY <1>6, <2>1, <2>2, <2>3 DEF RecordFailureLate
<1> QED BY <1>5, <1>6

\* The deferred cleanup of a step whose failure is on record.
LEMMA CleanupKeeps ==
    ASSUME Good, ~Native, NEW a \in Attempts, NEW s \in Steps,
           Cleanup(a, s) \/ Clear(a, s) \/ Promote(a, s)
    PROVE  CheckpointInv'
<1> USE SlotFacts, AttemptsAreHarmless, SlotsAreHarmless, MoveFacts DEF Good, Unrecorded, Recording
<1>1. stage[a] = "running"
  BY DEF Cleanup, Clear, Promote, At
<1>2. CASE Cleanup(a, s)
  <2>1. pc[a][s] = "cleanup"
    BY <1>2 DEF Cleanup, At
  <2>2. CASE InvalidatePublication(a, s) /\ Moves(a, s, "clear")
    BY <1>1, <2>1, <2>2, InvalidationKeeps
  <2>3. CASE UNCHANGED ledgerVars /\ Moves(a, s, "promote")
    BY <1>1, <2>3, MoveKeeps
  <2> QED BY <1>2, <2>2, <2>3 DEF Cleanup
<1>3. CASE Clear(a, s)
  BY <1>1, <1>3, MoveKeeps DEF Clear
<1>4. CASE Promote(a, s)
  BY <1>1, <1>4, MoveKeeps DEF Promote
<1> QED BY <1>2, <1>3, <1>4

\* The manifest and the report of an editorial plan do not touch the steps.
LEMMA ReportKeeps ==
    ASSUME Good, ~Native, NEW a \in Attempts, ReportWork(a), ~Complete(a)
    PROVE  CheckpointInv'
<1> USE AttemptsAreHarmless, PausesAreHarmless, SlotsAreHarmless, TasksAreHarmless, MoveFacts
    DEF Good
<1>1. /\ Manifest \in Slots \ Steps /\ Report \in Slots \ Steps /\ stage[a] = "running"
  BY SlotFacts, LedgerFacts
     DEF ReportWork, BeginManifest, CheckManifest, BeginReport, Review, Compose, ReviewPauses,
         Publish, Withdraw, Transition, At
<1>2. ASSUME Harmless, NEW n \in {Manifest, Report}, NEW to, Moves(a, n, to)
      PROVE  CheckpointInv'
  BY <1>1, <1>2, MoveKeeps
<1>3. CASE BeginManifest(a) \/ CheckManifest(a)
  BY <1>1, <1>2, <1>3 DEF BeginManifest, CheckManifest
<1>4. CASE BeginReport(a)
  BY <1>1, <1>2, <1>4 DEF BeginReport
<1>5. CASE Review(a) \/ Compose(a)
  <2>1. \A from, to, at, next : Transition(a, from, to, at, next) =>
            Harmless /\ \E place : Moves(a, Report, place)
    BY DEF Transition, Moves
  <2> QED BY <1>2, <1>5, <2>1 DEF Review, Compose
<1>6. CASE ReviewPauses(a) \/ Publish(a) \/ Withdraw(a)
  BY <1>1, <1>2, <1>6 DEF ReviewPauses, Publish, Withdraw
<1> QED BY <1>3, <1>4, <1>5, <1>6 DEF ReportWork

\* The end of an execution.
LEMMA EndsKeep ==
    ASSUME Good, ~Native, NEW a \in Attempts, Complete(a) \/ Settle(a)
    PROVE  CheckpointInv'
<1> USE AttemptsAreHarmless, PausesAreHarmless, MoveFacts DEF Good
<1>1. stage[a] = "running" /\ Report \in Slots \ Steps
  BY SlotFacts, LedgerFacts DEF Complete, Settle, Settled, At
<1>2. Harmless /\ (End(a) \/ \E to : Moves(a, Report, to))
  BY DEF Complete, Settle
<1> QED BY <1>1, <1>2, EndKeepsCheckpoints, MoveKeeps

\* Loading an execution puts no step beyond the start.
LEMMA LoadKeeps ==
    ASSUME Good, ~Native, NEW a \in Attempts, Load(a)
    PROVE  CheckpointInv'
<1>1. Harmless
  BY AttemptsAreHarmless, PausesAreHarmless DEF Good, Load
<1>2. /\ UNCHANGED <<pc, recovery>> /\ stage[a] = "loading"
      /\ \E to \in {"running", "ended"} : stage' = [stage EXCEPT ![a] = to]
  BY DEF Load
<1>3. WorkerInv'
  BY <1>1, <1>2 DEF Good, CheckpointInv, WorkerInv, Harmless, NoneStarts, NoneSucceeds
<1> QED BY <1>1, <1>2, <1>3, HarmlessKeeps DEF CheckpointInv

\* A claimed attempt has no history.
LEMMA ClaimKeeps ==
    ASSUME Good, NEW a \in Attempts, NEW p \in Plans, Claim(a, p)
    PROVE  CheckpointInv'
<1>1. /\ UNCHANGED <<row, art, pc, recovery>> /\ attemptState[a] = "none"
      /\ attemptState' = [attemptState EXCEPT ![a] = "active"]
      /\ stage' = [stage EXCEPT ![a] = "loading"]
  BY DEF Claim, ClaimExecution
<1>2. CheckpointsSurvive'
  BY <1>1 DEF Good, CheckpointInv, CheckpointsSurvive
<1>3. WorkerInv'
  BY <1>1 DEF Good, TypeOK, CheckpointInv, WorkerInv
<1>4. CycleInv'
  BY <1>1 DEF Good, TypeOK, EngineInv, CheckpointInv, CycleInv
<1> QED BY <1>2, <1>3, <1>4 DEF CheckpointInv

\* A crash forgets the workers and the cycle, and the rows stay.
LEMMA CrashKeeps ==
    ASSUME Good, ~Native, Crash
    PROVE  CheckpointInv'
<1>1. Harmless
  <2>1. 1 \in Attempts
    BY LedgerAssumption DEF Attempts
  <2> QED BY <2>1, AttemptsAreHarmless DEF Good, Crash
<1>2. WorkerInv'
  <2>1. /\ stage' \in [Attempts -> {"idle", "loading", "running", "ended"}]
        /\ \A a \in Attempts : IF stage[a] = "idle" THEN stage'[a] = "idle" ELSE stage'[a] = "ended"
        /\ \A a \in Attempts, s \in Steps : pc'[a][s] = "todo"
    BY SlotFacts DEF Crash
  <2> QED BY <1>1, <2>1 DEF Good, CheckpointInv, WorkerInv, Recording,
                            Harmless, NoneStarts, NoneSucceeds
<1>3. CycleInv'
  BY SlotFacts DEF Crash, Idle, CycleInv
<1> QED BY <1>1, <1>2, <1>3, HarmlessKeeps DEF CheckpointInv

\* A cycle begins on an attempt that stopped.
LEMMA PickUpKeeps ==
    ASSUME Good, ~Native, NEW a \in Attempts, PickUp(a)
    PROVE  CheckpointInv'
<1>1. Harmless
  BY AttemptsAreHarmless, PausesAreHarmless DEF Good, PickUp
<1>2. /\ UNCHANGED <<stage, pc>>
      /\ recovery' = [Idle EXCEPT !.on = a, !.at = "refs"]
  BY DEF PickUp, RecoveryStep, workerVars
<1>3. recovery'.on = a /\ recovery'.at = "refs" /\ \A s \in Steps : recovery'.todo[s] = "skip"
  BY <1>2, SlotFacts DEF Idle
<1>4. attemptState'[a] \notin {"none", "active"}
  BY DEF PickUp, ExpireExecutionLease, PauseForWorkerLoss, Recoverable, ledgerVars, attemptVars,
         Good, TypeOK
<1>5. CycleInv'
  BY <1>3, <1>4 DEF CycleInv
<1> QED BY <1>1, <1>2, <1>5, HarmlessKeeps DEF CheckpointInv

\* A cycle lists the succeeded steps before the Artifacts, and the attempt it is
\* about has stopped: what it invalidates is the output of no succeeded step.
LEMMA CycleStepsKeep ==
    ASSUME Good, ~Native, ListReferences \/ ListArtifacts \/ EndCycle
    PROVE  CheckpointInv'
<1> USE SlotFacts DEF Good
<1>1. recovery \in Cycles /\ recovery.at # "idle" /\ recovery.on \in Attempts
  BY DEF EngineInv, ListReferences, ListArtifacts, EndCycle
<1>2. Harmless /\ UNCHANGED ledgerVars /\ UNCHANGED <<stage, pc>>
  BY <1>1, AttemptsAreHarmless
     DEF ListReferences, ListArtifacts, EndCycle, RecoveryStep, RecoveryFault, workerVars
<1>3. UNCHANGED <<row, attemptState>>
  BY <1>2 DEF ledgerVars, attemptVars
<1>4. recovery' = Idle => CycleInv'
  <2>1. Idle.at = "idle" /\ \A s \in Steps : Idle.todo[s] = "skip"
    BY DEF Idle
  <2> QED BY <2>1 DEF CycleInv
<1>5. ASSUME ListReferences
      PROVE  CycleInv'
  <2>1. PICK refs : /\ recovery' = [recovery EXCEPT !.at = "list", !.refs = refs]
                    /\ \A s \in Steps : row[recovery.on][s] = "succeeded" => s \in refs
    BY <1>5 DEF ListReferences, RecoveryStep, RecoveryFault
  <2>2. /\ recovery'.at = "list" /\ recovery'.refs = refs
        /\ recovery'.on = recovery.on /\ recovery'.todo = recovery.todo
    BY <1>1, <2>1 DEF Cycles
  <2>3. recovery.at = "refs"
    BY <1>5 DEF ListReferences
  <2> QED BY <1>1, <1>3, <2>1, <2>2, <2>3 DEF CheckpointInv, CycleInv
<1>6. ASSUME ListArtifacts, recovery' # Idle
      PROVE  CycleInv'
  <2>1. /\ recovery' = [recovery EXCEPT !.at = "items", !.todo = [n \in Slots |-> Recovery(n)]]
        /\ recovery.at = "list"
    BY <1>6 DEF ListArtifacts, RecoveryStep, RecoveryFault
  <2>2. /\ recovery'.at = "items" /\ recovery'.on = recovery.on
        /\ \A s \in Steps : recovery'.todo[s] = Recovery(s)
    BY <1>1, <2>1 DEF Cycles
  <2>3. \A s \in Steps : Recovery(s) = "invalidate" => s \notin recovery.refs
    BY DEF Recovery
  <2> QED BY <1>1, <1>3, <2>1, <2>2, <2>3 DEF CheckpointInv, CycleInv
<1>7. EndCycle => recovery' = Idle
  BY DEF EndCycle, RecoveryStep
<1>8. CycleInv'
  BY <1>4, <1>5, <1>6, <1>7
<1> QED BY <1>2, <1>8, HarmlessKeeps DEF CheckpointInv

\* Recovery settles one Artifact: it never takes the output of a succeeded step.
LEMMA RecoverArtifactKeeps ==
    ASSUME Good, ~Native, NEW n \in Slots, RecoverArtifact(n)
    PROVE  CheckpointInv'
<1> USE SlotFacts DEF Good
<1> DEFINE on == recovery.on
<1>1. recovery \in Cycles /\ recovery.at = "items" /\ on \in Attempts
  BY DEF EngineInv, RecoverArtifact
<1>2. /\ UNCHANGED <<stage, pc>>
      /\ recovery' = [recovery EXCEPT !.todo[n] = "skip"]
  BY DEF RecoverArtifact, RecoveryStep, RecoveryFault, workerVars
<1>3. /\ recovery'.on = on /\ recovery'.at = "items"
      /\ \A s \in Steps : recovery'.todo[s] = "invalidate" => recovery.todo[s] = "invalidate"
  BY <1>1, <1>2 DEF Cycles
<1>4. attemptState[on] # "active"
  BY <1>1 DEF CheckpointInv, CycleInv
<1>5. CASE Harmless
  <2>1. CycleInv'
    BY <1>1, <1>3, <1>5 DEF CheckpointInv, CycleInv, Harmless, NoneStarts, NoneSucceeds
  <2> QED BY <1>2, <1>5, <2>1, HarmlessKeeps DEF CheckpointInv
<1>6. CASE recovery.todo[n] = "invalidate" /\ InvalidatePublication(on, n)
  <2>1. UNCHANGED <<row, attemptState>>
    BY <1>6 DEF InvalidatePublication, attemptVars
  <2>2. \A b \in Attempts, s \in Steps : ~(b = on /\ s = n) => art'[b][s] = art[b][s]
    BY <1>6 DEF InvalidatePublication, Invalidated, TypeOK
  <2>3. n \in Steps => row[on][n] # "succeeded"
    BY <1>6 DEF CheckpointInv, CycleInv
  <2>4. CheckpointsSurvive'
    BY <2>1, <2>2, <2>3 DEF CheckpointInv, CheckpointsSurvive
  <2>5. WorkerInv'
    BY <1>2, <1>4, <2>1, <2>2 DEF CheckpointInv, WorkerInv
  <2>6. CycleInv'
    BY <1>1, <1>3, <2>1 DEF CheckpointInv, CycleInv
  <2> QED BY <2>4, <2>5, <2>6 DEF CheckpointInv
<1>7. Harmless \/ (recovery.todo[n] = "invalidate" /\ InvalidatePublication(on, n))
  <2>1. recovery.todo[n] \in {"skip", "quarantine", "invalidate"}
    BY <1>1 DEF Cycles
  <2>2. \/ QuarantineStaging(on, n) \/ UNCHANGED ledgerVars
        \/ recovery.todo[n] = "invalidate" /\ InvalidatePublication(on, n)
    BY <2>1 DEF RecoverArtifact
  <2> QED BY <1>1, <2>2, SlotsAreHarmless, AttemptsAreHarmless
<1> QED BY <1>5, <1>6, <1>7

\* Users and the clock.
LEMMA UsersKeep ==
    ASSUME Good, ~Native, Command \/ \E a \in Attempts : LeaseExpires(a)
    PROVE  CheckpointInv'
<1>1. Harmless
  BY AttemptsAreHarmless, TasksAreHarmless DEF Good, Command, LeaseExpires
<1>2. UNCHANGED <<stage, pc, recovery>>
  BY DEF Command, LeaseExpires, workerVars
<1> QED BY <1>1, <1>2, HarmlessKeeps DEF CheckpointInv

-----------------------------------------------------------------------------

\* Nothing has succeeded at the start.
LEMMA CheckpointStarts == EngineInit => CheckpointInv
BY SlotFacts
   DEF EngineInit, Init, Idle, Recording, CheckpointInv, CheckpointsSurvive, WorkerInv, CycleInv

\* Every step of the engine keeps the invariant.
LEMMA CheckpointSteps ==
    ASSUME Good, ~Native, [EngineNext]_vars
    PROVE  CheckpointInv'
<1>1. ASSUME NEW a \in Attempts, Work(a)
      PROVE  CheckpointInv'
  <2>1. CASE Load(a) \/ Settle(a)
    BY <2>1, LoadKeeps, EndsKeep
  <2>2. CASE ReportWork(a)
    BY <2>2, ReportKeeps, EndsKeep
  <2>3. ASSUME NEW s \in Steps, StepWork(a, s)
        PROVE  CheckpointInv'
    BY <2>3, BeginKeeps, RecordSuccessKeeps, CleanupKeeps DEF StepWork
  <2>4. ASSUME NEW n \in Slots, SlotWork(a, n)
        PROVE  CheckpointInv'
    BY <2>4, PublishKeeps, TidyKeeps, RecordFailureKeeps DEF SlotWork
  <2> QED BY <1>1, <2>1, <2>2, <2>3, <2>4 DEF Work
<1>2. CASE Recover
  BY <1>2, CycleStepsKeep, RecoverArtifactKeeps DEF Recover
<1>3. CASE UNCHANGED vars
  <2>1. 1 \in Attempts
    BY LedgerAssumption DEF Attempts
  <2> QED BY <1>3, <2>1, AttemptsAreHarmless, HarmlessKeeps DEF Good, vars, workerVars, CheckpointInv
<1> QED BY <1>1, <1>2, <1>3, CrashKeeps, UsersKeep, ClaimKeeps, PickUpKeeps DEF EngineNext

\* For an editorial plan, a step that is on record as succeeded keeps its sealed
\* output for ever: no compensation, no deferred cleanup and no recovery cycle,
\* however late, and no crash or lost COMMIT answer in between, takes it away.
THEOREM CheckpointsSurviveAlways ==
    ASSUME ~Native
    PROVE  EngineSpec => []CheckpointsSurvive
<1>1. EngineSpec => [](TypeOK /\ EngineInv)
  BY EngineImplementsLedger, TypeCorrect, EngineInvariant, PTL DEF ImplementsLedger
<1>2. CheckpointInv /\ TypeOK /\ EngineInv /\ [EngineNext]_vars => CheckpointInv'
  BY CheckpointSteps DEF Good
<1>3. CheckpointInv => CheckpointsSurvive
  BY DEF CheckpointInv
<1> QED BY <1>1, <1>2, <1>3, CheckpointStarts, PTL DEF EngineSpec

(***************************************************************************)
(* Part 4: a completed execution is whole, and a retried one left no       *)
(* report.                                                                 *)
(***************************************************************************)

\* Places of a step whose output is sealed, of a report that is still to be
\* completed, of a report that is not sealed yet, and of a failure of the report
\* after its execution was completed.
Holding   == {"record", "record_again", "read_back", "done"}
OnCourse  == {"todo", "review", "compose", "publish", "create", "write", "seal", "tidy", "complete"}
Unsealed  == {"todo", "review", "compose", "publish", "create", "write", "seal", "withdraw",
              "done", "skipped"}
Overtaken == {"undo", "fail", "fail_late", "rejected"}

Stages == {"idle", "loading", "running", "ended"}

\* A row of attempt a tells of a failed invalidation.
Unsettled(a) == \E n \in Rows : row[a][n] = "artifact_invalidation"

\* What a completed execution is to be.
Whole(a) ==
    /\ art[a][Manifest] = "sealed"
    /\ \A s \in Steps : \/ row[a][s] = "succeeded" /\ art[a][s] = "sealed"
                        \/ row[a][s] = "skipped" /\ s \in OptionalSteps

\* Steps come before the manifest, and the manifest before the report.
InPlace(a) ==
    /\ stage[a] = "idle" <=> attemptState[a] = "none"
    /\ stage[a] # "running" => \A n \in Slots : pc[a][n] = "todo"
    /\ pc[a][Manifest] # "todo" => \A s \in Steps : pc[a][s] \in {"done", "skipped"}
    /\ pc[a][Report] # "todo" => pc[a][Manifest] = "done"

\* As long as the report may be completed, what was published is there.
KeepsOutputs(a) ==
    attemptState[a] = "active" /\ pc[a][Report] \in OnCourse =>
        /\ \A s \in Steps :
              /\ pc[a][s] \in Holding => art[a][s] = "sealed"
              /\ pc[a][s] = "done" => row[a][s] = "succeeded"
              /\ pc[a][s] = "skipped" => row[a][s] = "skipped" /\ s \in OptionalSteps
        /\ pc[a][Manifest] \in {"check", "done"} => art[a][Manifest] = "sealed"

\* Nobody compensates a report that was completed: a native worker never does,
\* and without faults every worker knows that its COMMIT went through.
Spared == Native \/ MaxFaults = 0

\* A completed execution is whole.  A worker that does not know that its COMMIT
\* went through is about to fail; a native one leaves its report alone.
EndsWhole(a) ==
    attemptState[a] = "completed" =>
        /\ Whole(a) /\ (Spared => art[a][Report] = "sealed")
        /\ stage[a] = "running" => /\ pc[a][Report] \in Overtaken
                                   /\ Spared => Native /\ pc[a][Report] # "undo"

\* Where the report of an editorial plan may be sealed: before that, and once it
\* is compensated, it is not, and what could not be compensated is on record
\* before anybody may continue the attempt.
ReportIsKnown(a) ==
    /\ stage[a] \in {"idle", "loading"} => art[a][Report] # "sealed"
    /\ attemptState[a] = "active" /\ stage[a] = "running" /\ art[a][Report] = "sealed" =>
          /\ pc[a][Report] \notin Unsealed
          /\ pc[a][Report] \in {"fail", "fail_late"} => err[a][Report] = "artifact_invalidation"
          /\ pc[a][Report] = "paused" => Unsettled(a)
    /\ attemptState[a] = "paused" /\ failureKind[a] # "worker_loss" /\ art[a][Report] = "sealed"
          => Unsettled(a)
    /\ ResumedFrom(a) => art[a][Report] # "sealed"

\* What holds of one attempt.
Accounted(a) ==
    InPlace(a) /\ KeepsOutputs(a) /\ EndsWhole(a) /\ (~Native => ReportIsKnown(a))

\* A completed task names its completed attempt, and recovery works on one that stopped.
TaskInv ==
    /\ stage \in [Attempts -> Stages]
    /\ taskState = "completed" =>
          currentAttempt \in Attempts /\ attemptState[currentAttempt] = "completed"
    /\ recovery.at # "idle" => attemptState[recovery.on] \in {"paused", "cancelled"}

CompletionInv == TaskInv /\ \A a \in Attempts : Accounted(a)

\* What holds in every state so far.
FaultsInv == faults \in Nat
Fine == Lifecycle /\ EngineInv /\ CompletionInv /\ FaultsInv

-----------------------------------------------------------------------------
(* What a transaction may do to an attempt.                                *)

\* Rows that no transaction writes again.
FinalRows == {"succeeded", "skipped", "artifact_invalidation"}

\* Attempt b is left as it is.
SameAttempt(b) ==
    /\ row'[b] = row[b] /\ art'[b] = art[b]
    /\ attemptState'[b] = attemptState[b] /\ failureKind'[b] = failureKind[b]

\* The task is not completed, and no attempt is left behind for another one.
SameTask ==
    /\ taskState' = "completed" => taskState = "completed" /\ currentAttempt' = currentAttempt
    /\ \A b \in Attempts : ResumedFrom(b)' => ResumedFrom(b)

\* A transaction that concerns attempt a alone, and of its Artifacts none but n as
\* far as the sealed ones go.
Touches(a, n) ==
    /\ SameTask
    /\ \A b \in Attempts : b # a => SameAttempt(b)
    /\ \A m \in Rows : row[a][m] \in FinalRows => row'[a][m] = row[a][m]
    /\ \A m \in Slots : m # n => (art'[a][m] = "sealed" <=> art[a][m] = "sealed")
    /\ art'[a][n] = "sealed" => art[a][n] = "sealed" \/ attemptState'[a] = "active"
    /\ \/ attemptState'[a] = attemptState[a]
       \/ attemptState[a] \in {"active", "paused"} /\ attemptState'[a] \in {"paused", "cancelled"}
    /\ attemptState'[a] = "paused" =>
          \/ attemptState[a] = "paused" /\ failureKind'[a] = failureKind[a]
          \/ failureKind'[a] = "worker_loss" \/ Unsettled(a)'

\* Slots are those of steps, of the manifest and of the report.
LEMMA SlotKinds == Slots = Steps \cup {Manifest, Report} /\ Manifest # Report
BY LedgerAssumption DEF Slots, Steps, Manifest, Report

\* The task, as transactions on attempts leave it.
LEMMA TaskStays ==
    ASSUME UNCHANGED <<currentAttempt, retryOf>>,
           taskState' \in {taskState, "paused", "cancelled", "reviewing", "composing_report"}
    PROVE  SameTask
BY DEF SameTask, ResumedFrom

\* A transaction that writes rows of attempt a, or nothing.
LEMMA RowsTouch ==
    ASSUME TypeOK, NEW a \in Attempts, NEW n \in Slots,
           NEW rows \in [Rows -> RowStates], row' = [row EXCEPT ![a] = rows],
           \A m \in Rows : row[a][m] \in FinalRows => rows[m] = row[a][m],
           UNCHANGED <<taskVars, attemptVars, art>>
    PROVE  Touches(a, n)
<1>1. SameTask
  BY TaskStays DEF taskVars, attemptVars
<1> QED BY <1>1 DEF Touches, SameAttempt, TypeOK, attemptVars

\* A pause for worker loss, whatever rows it writes.
LEMMA PauseTouches ==
    ASSUME TypeOK, NEW a \in Attempts, NEW n \in Slots, PauseForWorkerLoss(a),
           NEW rows \in [Rows -> RowStates], row' = [row EXCEPT ![a] = rows],
           \A m \in Rows : row[a][m] \in FinalRows => rows[m] = row[a][m],
           \A m \in Slots : m # n => (art'[a][m] = "sealed" <=> art[a][m] = "sealed"),
           art'[a][n] = "sealed" => art[a][n] = "sealed",
           \A b \in Attempts : b # a => art'[b] = art[b]
    PROVE  Touches(a, n)
<1>1. SameTask
  BY TaskStays DEF PauseForWorkerLoss
<1>2. /\ row'[a] = rows /\ \A b \in Attempts : b # a => row'[b] = row[b]
      /\ attemptState[a] = "active" /\ attemptState'[a] = "paused"
      /\ \A b \in Attempts : b # a =>
            attemptState'[b] = attemptState[b] /\ failureKind'[b] = failureKind[b]
  BY DEF PauseForWorkerLoss, LeaseExpired, Runs, TypeOK
<1>3. failureKind'[a] = "worker_loss" \/ Unsettled(a)'
  <2>1. CASE Unsettled(a)
    BY <1>2, <2>1 DEF Unsettled, FinalRows
  <2>2. CASE ~Unsettled(a)
    BY <2>2 DEF Unsettled, PauseForWorkerLoss, TypeOK
  <2> QED BY <2>1, <2>2
<1> QED BY <1>1, <1>2, <1>3 DEF Touches, SameAttempt

\* The rows that a pause leaves.
LEMMA InterruptedFinal ==
    ASSUME TypeOK, NEW a \in Attempts
    PROVE  /\ Interrupted(a) \in [Rows -> RowStates]
           /\ \A m \in Rows : row[a][m] \in FinalRows => Interrupted(a)[m] = row[a][m]
BY InterruptedType DEF Interrupted, FinalRows

\* Transactions on an attempt as a whole, and on the task.
LEMMA AttemptTouches ==
    ASSUME TypeOK, NEW a \in Attempts, NEW n \in Slots
    PROVE  /\ UNCHANGED ledgerVars => Touches(a, n)
           /\ LeaseRunsOut(a) => Touches(a, n)
           /\ PauseExpired(a) => Touches(a, n)
           /\ Refused(a) => Touches(a, n)
           /\ ExpireExecutionLease(a) => Touches(a, n)
           /\ CancelExecution(a) \/ CancelPausedExecution(a) => Touches(a, n)
<1>1. UNCHANGED ledgerVars => Touches(a, n)
  <2>1. UNCHANGED ledgerVars => SameTask
    BY TaskStays DEF ledgerVars, taskVars, attemptVars
  <2> QED BY <2>1 DEF ledgerVars, attemptVars, Touches, SameAttempt
<1>2. LeaseRunsOut(a) => Touches(a, n)
  <2>1. LeaseRunsOut(a) => SameTask
    BY TaskStays DEF LeaseRunsOut, taskVars
  <2> QED BY <2>1 DEF LeaseRunsOut, Touches, SameAttempt
<1>3. PauseExpired(a) => Touches(a, n)
  <2> SUFFICES ASSUME PauseExpired(a) PROVE Touches(a, n)
    OBVIOUS
  <2>1. PICK rows : rows = Interrupted(a)
    OBVIOUS
  <2>2. /\ rows \in [Rows -> RowStates] /\ row' = [row EXCEPT ![a] = rows]
        /\ \A m \in Rows : row[a][m] \in FinalRows => rows[m] = row[a][m]
    BY <2>1, InterruptedFinal DEF PauseExpired
  <2>3. PauseForWorkerLoss(a) /\ art' = art
    BY DEF PauseExpired
  <2> QED BY <2>2, <2>3, PauseTouches
<1>4. Refused(a) => Touches(a, n)
  BY <1>1, <1>3 DEF Refused
<1>5. ExpireExecutionLease(a) => Touches(a, n)
  <2> SUFFICES ASSUME ExpireExecutionLease(a) PROVE Touches(a, n)
    OBVIOUS
  <2>1. PICK rows : /\ rows = [m \in Rows |-> IF m \in AfterLast(a) /\ ~Represented(a)
                                                 THEN "expired" ELSE Interrupted(a)[m]]
                    /\ row' = [row EXCEPT ![a] = rows]
    BY DEF ExpireExecutionLease
  <2>2. ASSUME NEW m \in AfterLast(a)
        PROVE  row[a][m] = "none"
    <3>1. m \in Rows /\ \A k \in Rows : k >= m => row[a][k] = "none"
      BY DEF AfterLast
    <3>2. m >= m
      BY <3>1, LedgerFacts
    <3> QED BY <3>1, <3>2
  <2>3. /\ rows \in [Rows -> RowStates]
        /\ \A m \in Rows : row[a][m] \in FinalRows => rows[m] = row[a][m]
    BY <2>1, <2>2, InterruptedFinal, ValueFacts DEF FinalRows
  <2> QED BY <2>1, <2>3, PauseTouches DEF ExpireExecutionLease
<1>6. CancelExecution(a) \/ CancelPausedExecution(a) => Touches(a, n)
  <2>1. CancelExecution(a) \/ CancelPausedExecution(a) => SameTask
    BY TaskStays DEF CancelExecution, CancelPausedExecution
  <2> QED BY <2>1 DEF CancelExecution, CancelPausedExecution, Touches, SameAttempt, TypeOK
<1> QED BY <1>1, <1>2, <1>3, <1>4, <1>5, <1>6

\* Transactions on the task row touch no attempt.
LEMMA TaskTouches ==
    ASSUME TypeOK, NEW a \in Attempts, NEW n \in Slots
    PROVE  /\ \A to \in {"awaiting_approval", "ready"} : CompleteConfirmation(to) => Touches(a, n)
           /\ \A to \in {"awaiting_approval", "ready", "rejected"} : Approve(to) => Touches(a, n)
           /\ \A v, from : \A to \in {"reviewing", "composing_report"} :
                 TransitionTask(v, from, to) => Touches(a, n)
           /\ CreatePlanRevision => Touches(a, n)
<1>1. SameTask /\ UNCHANGED <<attemptVars, row, art>> => Touches(a, n)
  BY DEF attemptVars, Touches, SameAttempt
<1>2. \A to \in {"awaiting_approval", "ready"} : CompleteConfirmation(to) => Touches(a, n)
  BY <1>1 DEF CompleteConfirmation, SameTask, ResumedFrom, attemptVars
<1>3. \A to \in {"awaiting_approval", "ready", "rejected"} : Approve(to) => Touches(a, n)
  BY <1>1 DEF Approve, TransitionTask, SameTask, ResumedFrom, attemptVars
<1>4. \A v, from : \A to \in {"reviewing", "composing_report"} :
          TransitionTask(v, from, to) => Touches(a, n)
  BY <1>1, TaskStays DEF TransitionTask, attemptVars
<1>5. CreatePlanRevision => Touches(a, n)
  BY <1>1, LedgerFacts DEF CreatePlanRevision, Revisable, SameTask, ResumedFrom, attemptVars
<1> QED BY <1>2, <1>3, <1>4, <1>5

\* Transactions on a row.
LEMMA RowTouches ==
    ASSUME TypeOK, NEW a \in Attempts, NEW n \in Slots, NEW m \in Rows
    PROVE  /\ \A r \in RowStates : RecordStep(a, m, r) => Touches(a, n)
           /\ \A r \in LeaseLost : RecordLeaseLostStep(a, m, r) => Touches(a, n)
           /\ ClearPromotion(a, m) => Touches(a, n)
<1>1. ASSUME NEW r \in RowStates, row' = [row EXCEPT ![a][m] = r],
             row[a][m] \in FinalRows => r = row[a][m], UNCHANGED <<taskVars, attemptVars, art>>
      PROVE  Touches(a, n)
  <2>1. PICK rows : rows = [row[a] EXCEPT ![m] = r]
    OBVIOUS
  <2>2. /\ rows \in [Rows -> RowStates] /\ row' = [row EXCEPT ![a] = rows]
        /\ \A k \in Rows : row[a][k] \in FinalRows => rows[k] = row[a][k]
    BY <1>1, <2>1 DEF TypeOK
  <2> QED BY <1>1, <2>2, RowsTouch
<1>2. \A r \in RowStates : RecordStep(a, m, r) => Touches(a, n)
  BY <1>1 DEF RecordStep, CanBecome, FinalRows
<1>3. \A r \in LeaseLost : RecordLeaseLostStep(a, m, r) => Touches(a, n)
  BY <1>1, ValueFacts DEF RecordLeaseLostStep, MayRecordLoss, LeaseLost, FinalRows
<1>4. ClearPromotion(a, m) => Touches(a, n)
  BY <1>1, ValueFacts DEF ClearPromotion, MayClear, Marked, FinalRows
<1> QED BY <1>2, <1>3, <1>4

\* The promotion of a failed invalidation, or its refusal.
LEMMA PromotionTouches ==
    ASSUME TypeOK, NEW a \in Attempts, NEW n \in Slots
    PROVE  /\ PromoteInvalidation(a, n) => Touches(a, n)
           /\ PromotionRefused(a, n) => Touches(a, n)
<1>1. PromotionRefused(a, n) => Touches(a, n)
  BY AttemptTouches DEF PromotionRefused
<1>2. ASSUME PromoteInvalidation(a, n)
      PROVE  Touches(a, n)
  <2>1. n \in Rows
    BY LedgerFacts
  <2>2. PICK before : before = IF LeaseExpired(a) THEN Interrupted(a) ELSE row[a]
    OBVIOUS
  <2>3. /\ before \in [Rows -> RowStates]
        /\ \A m \in Rows : row[a][m] \in FinalRows => before[m] = row[a][m]
    BY <2>2, InterruptedFinal DEF TypeOK
  <2>4. before[n] \in Marked \cup {"worker_loss"}
    BY <1>2, <2>2 DEF PromoteInvalidation, Promotable
  <2>5. PICK rows : rows = [before EXCEPT ![n] = "artifact_invalidation"]
    OBVIOUS
  <2>6. row' = [row EXCEPT ![a] = rows]
    BY <1>2, <2>2, <2>5 DEF PromoteInvalidation
  <2>7. /\ rows \in [Rows -> RowStates] /\ rows[n] = "artifact_invalidation"
        /\ \A m \in Rows : row[a][m] \in FinalRows => rows[m] = row[a][m]
    BY <2>1, <2>3, <2>4, <2>5, ValueFacts DEF FinalRows, Marked
  <2>8. row'[a] = rows /\ \A b \in Attempts : b # a => row'[b] = row[b]
    BY <2>6 DEF TypeOK
  <2>9. Unsettled(a)'
    BY <2>1, <2>7, <2>8 DEF Unsettled
  <2>10. /\ art' = art /\ SameTask
         /\ \A b \in Attempts : b # a =>
               attemptState'[b] = attemptState[b] /\ failureKind'[b] = failureKind[b]
         /\ \/ attemptState'[a] = attemptState[a]
            \/ attemptState[a] = "active" /\ attemptState'[a] = "paused"
    BY <1>2, TaskStays DEF PromoteInvalidation, LeaseExpired, Runs, taskVars, TypeOK
  <2> QED BY <2>7, <2>8, <2>9, <2>10 DEF Touches, SameAttempt
<1> QED BY <1>1, <1>2

\* Transactions on an Artifact.
LEMMA ArtifactTouches ==
    ASSUME TypeOK, NEW a \in Attempts, NEW n \in Slots
    PROVE  /\ CreateStagingArtifact(a, n) \/ WriteFile(a, n) => Touches(a, n)
           /\ SealArtifact(a, n) \/ QuarantineStaging(a, n) => Touches(a, n)
           /\ SealRefused(a, n) => Touches(a, n)
           /\ InvalidatePublication(a, n) => Touches(a, n)
<1>0. UNCHANGED ledgerVars => Touches(a, n)
  BY AttemptTouches
<1>1. ASSUME UNCHANGED <<taskVars, attemptVars, row>>,
             \A b \in Attempts : b # a => art'[b] = art[b],
             \A m \in Slots : m # n => (art'[a][m] = "sealed" <=> art[a][m] = "sealed"),
             art'[a][n] = "sealed" => art[a][n] = "sealed" \/ attemptState[a] = "active"
      PROVE  Touches(a, n)
  <2>1. SameTask
    BY <1>1, TaskStays DEF taskVars, attemptVars
  <2> QED BY <1>1, <2>1 DEF attemptVars, Touches, SameAttempt
<1>2. \A s : SetArtifact(a, n, s) /\ (s = "sealed" => attemptState[a] = "active") => Touches(a, n)
  BY <1>1 DEF SetArtifact, TypeOK
<1>3. CreateStagingArtifact(a, n) \/ WriteFile(a, n) => Touches(a, n)
  BY <1>0, <1>2 DEF CreateStagingArtifact, WriteFile
<1>4. SealArtifact(a, n) \/ QuarantineStaging(a, n) => Touches(a, n)
  BY <1>0, <1>2 DEF SealArtifact, QuarantineStaging, HoldsLease, Runs
<1>5. InvalidatePublication(a, n) => Touches(a, n)
  BY <1>1 DEF InvalidatePublication, Invalidated, TypeOK
<1>6. ASSUME SealRefused(a, n)
      PROVE  Touches(a, n)
  <2>1. CASE UNCHANGED ledgerVars
    BY <1>0, <2>1
  <2>2. CASE art' = [art EXCEPT ![a][n] = "failed"] /\ UNCHANGED <<taskVars, attemptVars, row>>
    BY <1>1, <2>2 DEF TypeOK
  <2>3. CASE /\ art' = [art EXCEPT ![a][n] = "failed"] /\ PauseForWorkerLoss(a)
             /\ row' = [row EXCEPT ![a] = Interrupted(a)]
    <3>1. /\ \A b \in Attempts : b # a => art'[b] = art[b]
          /\ \A m \in Slots : m # n => art'[a][m] = art[a][m]
          /\ art'[a][n] = "failed"
      BY <2>3 DEF TypeOK
    <3> QED BY <2>3, <3>1, PauseTouches, InterruptedFinal
  <2> QED BY <1>6, <2>1, <2>2, <2>3 DEF SealRefused
<1> QED BY <1>3, <1>4, <1>5, <1>6

-----------------------------------------------------------------------------
(* What keeps the invariant.                                               *)

\* An attempt that nobody touched is accounted for, if nobody continues it now.
LEMMA UntouchedAccounted ==
    ASSUME NEW b \in Attempts, Accounted(b), SameAttempt(b), ResumedFrom(b)' => ResumedFrom(b),
           stage'[b] = stage[b], pc'[b] = pc[b], err'[b] = err[b]
    PROVE  Accounted(b)'
BY DEF SameAttempt, Accounted, InPlace, KeepsOutputs, EndsWhole, Whole, ReportIsKnown, Unsettled

\* The task and the recovery cycle keep to what they know.
LEMMA TaskKnows ==
    ASSUME Fine, NEW a \in Attempts, NEW n \in Slots, Touches(a, n),
           stage' \in [Attempts -> Stages],
           recovery'.at # "idle" =>
              \/ recovery.at # "idle" /\ recovery'.on = recovery.on
              \/ recovery'.on \in Attempts /\ attemptState'[recovery'.on] \in {"paused", "cancelled"}
    PROVE  TaskInv'
<1>1. \A b \in Attempts :
          /\ attemptState[b] = "completed" => attemptState'[b] = "completed"
          /\ attemptState[b] \in {"paused", "cancelled"} => attemptState'[b] \in {"paused", "cancelled"}
  BY DEF Touches, SameAttempt
<1>2. recovery.at # "idle" => recovery.on \in Attempts
  BY DEF Fine, EngineInv
<1> QED BY <1>1, <1>2 DEF Fine, CompletionInv, TaskInv, Touches, SameTask

\* An attempt that was left behind does not get a report any more.
LEMMA ResumedHasNone ==
    ASSUME Fine, ~Native, NEW a \in Attempts, NEW n \in Slots, Touches(a, n), ResumedFrom(a)'
    PROVE  art'[a][Report] # "sealed"
<1>1. ResumedFrom(a) /\ art[a][Report] # "sealed"
  BY DEF Touches, SameTask, Fine, CompletionInv, Accounted, ReportIsKnown
<1>2. attemptState[a] # "active"
  BY <1>1, ResumedIsOver DEF Fine, Lifecycle, OneActiveAttempt, Runs
<1> QED BY <1>1, <1>2, SlotKinds DEF Touches

\* The workers stand still, and nothing is invalidated that still counts.
LEMMA StillKeeps ==
    ASSUME Fine, NEW a \in Attempts, NEW n \in Slots, Touches(a, n),
           UNCHANGED <<stage, pc, err>>,
           \/ attemptState[a] \in {"paused", "cancelled"}
           \/ \A m \in Slots : art'[a][m] = "sealed" <=> art[a][m] = "sealed"
    PROVE  \A b \in Attempts : Accounted(b)'
<1>1. ASSUME NEW b \in Attempts, b # a
      PROVE  Accounted(b)'
  BY <1>1, UntouchedAccounted DEF Fine, CompletionInv, Touches, SameTask
<1>2. Accounted(a)
  BY DEF Fine, CompletionInv
<1>3. InPlace(a)'
  BY <1>2 DEF Accounted, InPlace, Touches
<1>4. KeepsOutputs(a)'
  BY <1>2, SlotFacts, LedgerFacts DEF Accounted, KeepsOutputs, Touches, FinalRows
<1>5. EndsWhole(a)'
  BY <1>2, SlotFacts, LedgerFacts DEF Accounted, EndsWhole, Whole, Touches, FinalRows
<1>6. ASSUME ~Native
      PROVE  ReportIsKnown(a)'
  <2>1. ReportIsKnown(a)
    BY <1>2, <1>6 DEF Accounted
  <2>2. art'[a][Report] = "sealed" => art[a][Report] = "sealed"
    BY SlotKinds DEF Touches
  <2>3. Unsettled(a) => Unsettled(a)'
    BY DEF Unsettled, Touches, FinalRows
  <2>4. ResumedFrom(a)' => art'[a][Report] # "sealed"
    BY <1>6, ResumedHasNone
  <2> QED BY <2>1, <2>2, <2>3, <2>4 DEF ReportIsKnown, Touches
<1> QED BY <1>1, <1>3, <1>4, <1>5, <1>6 DEF Accounted

\* The worker of a moves slot n to a place, and perhaps changes the failure there.
Shifts(a, n, to) ==
    /\ pc' = [pc EXCEPT ![a][n] = to] /\ UNCHANGED <<stage, recovery>>
    /\ err' = err \/ \E e : err' = [err EXCEPT ![a][n] = e]

\* Only that slot moves.
LEMMA ShiftShape ==
    ASSUME EngineInv, NEW a \in Attempts, NEW n \in Slots, NEW to, Shifts(a, n, to)
    PROVE  /\ \A m \in Slots : pc'[a][m] = IF m = n THEN to ELSE pc[a][m]
           /\ \A m \in Slots : m # n => err'[a][m] = err[a][m]
           /\ \A b \in Attempts : b # a => pc'[b] = pc[b] /\ err'[b] = err[b]
BY DEF Shifts, EngineInv

\* What a move must respect: the order of the slots,
LegalOrder(a, n) ==
    /\ n \in Steps => pc[a][n] \notin {"done", "skipped"}
    /\ n = Manifest => /\ pc[a][n] # "done"
                       /\ pc[a][n] = "todo" => \A s \in Steps : pc[a][s] \in {"done", "skipped"}
    /\ n = Report /\ pc[a][n] = "todo" => pc[a][Manifest] = "done"

\* the outputs that it counts on,
LegalOutput(a, n, to) ==
    attemptState'[a] = "active" =>
        /\ n \in Steps =>
              /\ to \in Holding => art'[a][n] = "sealed"
              /\ to = "done" => row'[a][n] = "succeeded"
              /\ to = "skipped" => row'[a][n] = "skipped" /\ n \in OptionalSteps
        /\ n = Manifest /\ to \in {"check", "done"} => art'[a][n] = "sealed"
        /\ n = Report /\ to \in OnCourse => pc[a][n] \in OnCourse

\* the completion that it does not know of,
LegalEnd(a, n, to) ==
    n = Report /\ attemptState'[a] = "completed" =>
        /\ to \in Overtaken \ {"undo"}
        /\ Native => (art'[a][n] = "sealed" <=> art[a][n] = "sealed")

\* and the report.
LegalReport(a, n, to) ==
    ~Native /\ n = Report /\ attemptState'[a] = "active" /\ art'[a][n] = "sealed" =>
        /\ to \notin Unsealed
        /\ to \in {"fail", "fail_late"} => err'[a][n] = "artifact_invalidation"
        /\ to = "paused" => Unsettled(a)'

Legal(a, n, to) ==
    LegalOrder(a, n) /\ LegalOutput(a, n, to) /\ LegalEnd(a, n, to) /\ LegalReport(a, n, to)

\* Then the invariant stays.
LEMMA ShiftKeeps ==
    ASSUME Fine, NEW a \in Attempts, NEW n \in Slots, NEW to, stage[a] = "running",
           Touches(a, n), Shifts(a, n, to), Legal(a, n, to)
    PROVE  CompletionInv'
<1> USE SlotKinds, SlotFacts, LedgerFacts
<1>1. /\ \A m \in Slots : pc'[a][m] = IF m = n THEN to ELSE pc[a][m]
      /\ \A m \in Slots : m # n => err'[a][m] = err[a][m]
      /\ \A b \in Attempts : b # a => pc'[b] = pc[b] /\ err'[b] = err[b]
      /\ stage' = stage /\ recovery' = recovery
  <2>1. EngineInv
    BY DEF Fine
  <2>2. stage' = stage /\ recovery' = recovery
    BY DEF Shifts
  <2> QED BY <2>1, <2>2, ShiftShape
<1>2. TaskInv'
  BY <1>1, TaskKnows DEF Fine, CompletionInv, TaskInv
<1>3. ASSUME NEW b \in Attempts, b # a
      PROVE  Accounted(b)'
  BY <1>1, <1>3, UntouchedAccounted DEF Fine, CompletionInv, Touches, SameTask
<1>4. InPlace(a) /\ KeepsOutputs(a) /\ EndsWhole(a) /\ (~Native => ReportIsKnown(a))
  BY DEF Fine, CompletionInv, Accounted
<1>5. InPlace(a)'
  BY <1>1, <1>4 DEF InPlace, Touches, Legal, LegalOrder
<1>6. KeepsOutputs(a)'
  <2> SUFFICES ASSUME attemptState'[a] = "active", pc'[a][Report] \in OnCourse
               PROVE  /\ \A s \in Steps :
                            /\ pc'[a][s] \in Holding => art'[a][s] = "sealed"
                            /\ pc'[a][s] = "done" => row'[a][s] = "succeeded"
                            /\ pc'[a][s] = "skipped" => row'[a][s] = "skipped" /\ s \in OptionalSteps
                      /\ pc'[a][Manifest] \in {"check", "done"} => art'[a][Manifest] = "sealed"
    BY DEF KeepsOutputs
  <2>1. attemptState[a] = "active" /\ pc[a][Report] \in OnCourse
    BY <1>1 DEF Touches, Legal, LegalOutput
  <2>2. ASSUME NEW s \in Steps
        PROVE  /\ pc'[a][s] \in Holding => art'[a][s] = "sealed"
               /\ pc'[a][s] = "done" => row'[a][s] = "succeeded"
               /\ pc'[a][s] = "skipped" => row'[a][s] = "skipped" /\ s \in OptionalSteps
    <3>1. CASE s = n
      BY <1>1, <3>1 DEF Legal, LegalOutput
    <3>2. CASE s # n
      BY <1>1, <1>4, <2>1, <3>2 DEF KeepsOutputs, Touches, FinalRows
    <3> QED BY <3>1, <3>2
  <2>3. pc'[a][Manifest] \in {"check", "done"} => art'[a][Manifest] = "sealed"
    BY <1>1, <1>4, <2>1 DEF KeepsOutputs, Touches, Legal, LegalOutput
  <2> QED BY <2>2, <2>3
<1>7. EndsWhole(a)'
  <2> SUFFICES ASSUME attemptState'[a] = "completed"
               PROVE  /\ Whole(a)' /\ (Spared => art'[a][Report] = "sealed")
                      /\ pc'[a][Report] \in Overtaken
                      /\ Spared => Native /\ pc'[a][Report] # "undo"
    BY DEF EndsWhole
  <2>1. attemptState[a] = "completed"
    BY DEF Touches
  <2>2. /\ Whole(a) /\ (Spared => Native /\ art[a][Report] = "sealed")
        /\ pc[a][Report] \in Overtaken
    BY <1>4, <2>1 DEF EndsWhole
  <2>3. n = Report
    BY <1>4, <2>2 DEF InPlace, Legal, LegalOrder, Overtaken
  <2>4. Whole(a)'
    BY <2>2, <2>3 DEF Whole, Touches, FinalRows
  <2> QED BY <1>1, <2>2, <2>3, <2>4 DEF Legal, LegalEnd
<1>8. ASSUME ~Native
      PROVE  ReportIsKnown(a)'
  <2>1. ReportIsKnown(a)
    BY <1>4, <1>8
  <2>2. Unsettled(a) => Unsettled(a)'
    BY DEF Unsettled, Touches, FinalRows
  <2>3. attemptState'[a] = "active" => attemptState[a] = "active"
    BY DEF Touches
  <2>4. attemptState'[a] # "active" /\ art'[a][Report] = "sealed" => art[a][Report] = "sealed"
    BY DEF Touches
  <2>5. ResumedFrom(a)' => art'[a][Report] # "sealed"
    BY <1>8, ResumedHasNone
  <2>6. attemptState'[a] = "active" /\ art'[a][Report] = "sealed" =>
          /\ pc'[a][Report] \notin Unsealed
          /\ pc'[a][Report] \in {"fail", "fail_late"} => err'[a][Report] = "artifact_invalidation"
          /\ pc'[a][Report] = "paused" => Unsettled(a)'
    <3>1. CASE n = Report
      BY <1>1, <1>8, <3>1 DEF Legal, LegalReport
    <3>2. CASE n # Report
      BY <1>1, <2>1, <2>2, <2>3, <3>2 DEF ReportIsKnown, Touches
    <3> QED BY <3>1, <3>2
  <2>7. attemptState'[a] = "paused" /\ failureKind'[a] # "worker_loss" /\ art'[a][Report] = "sealed"
          => Unsettled(a)'
    BY <2>1, <2>2, <2>4 DEF ReportIsKnown, Touches
  <2> QED BY <1>1, <2>5, <2>6, <2>7 DEF ReportIsKnown
<1> QED BY <1>2, <1>3, <1>5, <1>6, <1>7, <1>8 DEF CompletionInv, Accounted

-----------------------------------------------------------------------------
(* The engine's moves are legal.                                           *)

\* Every move of the engine shifts one slot.
LEMMA ShiftFacts ==
    /\ \A a, n, to : Goto(a, n, to) => Shifts(a, n, to) /\ err' = err
    /\ \A a, n, to, e : Throw(a, n, to, e) \/ FaultTo(a, n, to, e) =>
          Shifts(a, n, to) /\ err' = [err EXCEPT ![a][n] = e]
BY DEF Goto, Throw, FaultTo, Rest, Shifts

\* What makes a move legal.
LEMMA LegalFacts ==
    ASSUME Fine, NEW a \in Attempts, NEW n \in Slots, NEW to, stage[a] = "running", Touches(a, n)
    PROVE  /\ pc[a][n] \notin {"todo", "done", "skipped"} => LegalOrder(a, n)
           /\ to \notin OnCourse \cup Holding \cup {"skipped", "check"} => LegalOutput(a, n, to)
           /\ n \notin Steps /\ to # "check" /\ to # "done" /\ pc[a][n] \in OnCourse
                 => LegalOutput(a, n, to)
           /\ pc[a][n] \notin Overtaken => LegalEnd(a, n, to)
           /\ pc[a][n] \in Unsealed /\ (art'[a][n] = "sealed" => art[a][n] = "sealed")
                 => LegalReport(a, n, to)
           /\ to \notin Unsealed \cup {"fail", "fail_late", "paused"} => LegalReport(a, n, to)
<1>1. EndsWhole(a) /\ (~Native => ReportIsKnown(a))
  BY DEF Fine, CompletionInv, Accounted
<1>2. pc[a][n] \notin {"todo", "done", "skipped"} => LegalOrder(a, n)
  BY DEF LegalOrder
<1>3. to \notin OnCourse \cup Holding \cup {"skipped", "check"} => LegalOutput(a, n, to)
  BY DEF LegalOutput, Holding
<1>4. n \notin Steps /\ to # "check" /\ to # "done" /\ pc[a][n] \in OnCourse => LegalOutput(a, n, to)
  BY DEF LegalOutput
<1>5. pc[a][n] \notin Overtaken => LegalEnd(a, n, to)
  BY <1>1 DEF LegalEnd, EndsWhole, Touches
<1>6. pc[a][n] \in Unsealed /\ (art'[a][n] = "sealed" => art[a][n] = "sealed") => LegalReport(a, n, to)
  BY <1>1 DEF LegalReport, ReportIsKnown, Touches
<1>7. to \notin Unsealed \cup {"fail", "fail_late", "paused"} => LegalReport(a, n, to)
  BY DEF LegalReport
<1> QED BY <1>2, <1>3, <1>4, <1>5, <1>6, <1>7

\* The move of a step is, when it is under way and goes on to what it has.
LEMMA StepLegal ==
    ASSUME NEW a, NEW s \in Steps, NEW to, pc[a][s] \notin {"done", "skipped"},
           attemptState'[a] = "active" =>
              /\ to \in Holding => art'[a][s] = "sealed"
              /\ to = "done" => row'[a][s] = "succeeded"
              /\ to = "skipped" => row'[a][s] = "skipped" /\ s \in OptionalSteps
    PROVE  Legal(a, s, to)
BY SlotFacts DEF Legal, LegalOrder, LegalOutput, LegalEnd, LegalReport

\* A step that is about to be recorded still has its output.
LEMMA StepHolds ==
    ASSUME Fine, NEW a \in Attempts, NEW s \in Steps,
           pc[a][s] \in Holding \ {"done"}, attemptState[a] = "active"
    PROVE  art[a][s] = "sealed"
<1>1. pc[a][Manifest] = "todo" /\ pc[a][Report] = "todo"
  BY DEF Fine, CompletionInv, Accounted, InPlace, Holding
<1> QED BY <1>1 DEF Fine, CompletionInv, Accounted, KeepsOutputs, OnCourse

\* Beginning a step, and its deferred cleanup.
LEMMA BeginCompletes ==
    ASSUME Fine, NEW a \in Attempts, NEW s \in Steps,
           \/ BeginStep(a, s) \/ BeginReuse(a, s) \/ Act(a, s)
           \/ Cleanup(a, s) \/ Clear(a, s) \/ Promote(a, s)
    PROVE  CompletionInv'
<1>0. TypeOK /\ s \in Slots /\ s \in Rows
  BY SlotFacts DEF Fine, Lifecycle
<1>1. ASSUME Touches(a, s), stage[a] = "running", pc[a][s] \notin {"done", "skipped"},
             NEW to \in {"act", "create", "fail", "clear", "promote", "paused", "rejected"},
             Shifts(a, s, to)
      PROVE  CompletionInv'
  BY <1>0, <1>1, StepLegal, ShiftKeeps DEF Holding
<1>2. CASE BeginStep(a, s) \/ BeginReuse(a, s) \/ Act(a, s)
  <2>1. stage[a] = "running" /\ pc[a][s] \notin {"done", "skipped"}
    BY <1>2 DEF BeginStep, BeginReuse, Act, At
  <2>2. Touches(a, s)
    BY <1>0, <1>2, AttemptTouches, RowTouches DEF BeginStep, BeginReuse, Act, RowStates
  <2>3. \E to \in {"act", "create", "fail"} : Shifts(a, s, to)
    BY <1>2, ShiftFacts DEF BeginStep, BeginReuse, Act
  <2> QED BY <1>1, <2>1, <2>2, <2>3
<1>3. CASE Cleanup(a, s) \/ Clear(a, s) \/ Promote(a, s)
  <2>1. stage[a] = "running" /\ pc[a][s] \notin {"done", "skipped"}
    BY <1>3 DEF Cleanup, Clear, Promote, At
  <2>2. Touches(a, s)
    BY <1>0, <1>3, AttemptTouches, RowTouches, ArtifactTouches, PromotionTouches
       DEF Cleanup, Clear, Promote
  <2>3. \E to \in {"clear", "promote", "paused", "rejected"} : Shifts(a, s, to)
    BY <1>3, ShiftFacts DEF Cleanup, Clear, Promote
  <2> QED BY <1>1, <2>1, <2>2, <2>3
<1> QED BY <1>2, <1>3

\* Creating and writing an Artifact.
LEMMA CreateCompletes ==
    ASSUME Fine, NEW a \in Attempts, NEW n \in Slots, Create(a, n) \/ Write(a, n)
    PROVE  CompletionInv'
<1>0. TypeOK
  BY DEF Fine, Lifecycle
<1>1. stage[a] = "running" /\ pc[a][n] \in {"create", "write"}
  BY DEF Create, Write, At
<1>2. Touches(a, n)
  BY <1>0, AttemptTouches, ArtifactTouches DEF Create, Write
<1>3. art'[a][n] = "sealed" => art[a][n] = "sealed"
  BY <1>0 DEF Create, Write, CreateStagingArtifact, WriteFile, SetArtifact, ledgerVars, TypeOK
<1>4. PICK to : /\ Shifts(a, n, to)
                /\ to \in {"write", "seal", "tidy", "fail", "undo", "withdraw"}
  BY ShiftFacts DEF Create, Write, FailAt
<1>5. LegalOrder(a, n) /\ LegalEnd(a, n, to) /\ LegalReport(a, n, to)
  BY <1>1, <1>2, <1>3, LegalFacts DEF Overtaken, Unsealed
<1>6. LegalOutput(a, n, to)
  <2>1. to \notin Holding /\ to \notin {"skipped", "check", "done"} /\ pc[a][n] \in OnCourse
    BY <1>1, <1>4 DEF Holding, OnCourse
  <2> QED BY <2>1 DEF LegalOutput
<1> QED BY <1>1, <1>2, <1>4, <1>5, <1>6, ShiftKeeps DEF Legal

\* Sealing an Artifact, and the look at its row when that failed.
LEMMA SealCompletes ==
    ASSUME Fine, NEW a \in Attempts, NEW n \in Slots, Seal(a, n) \/ Tidy(a, n)
    PROVE  CompletionInv'
<1>0. TypeOK
  BY DEF Fine, Lifecycle
<1>1. stage[a] = "running" /\ pc[a][n] \in {"seal", "tidy"}
  BY DEF Seal, Tidy, At
<1>2. Touches(a, n)
  BY <1>0, AttemptTouches, ArtifactTouches DEF Seal, Tidy
<1>3. LegalOrder(a, n) /\ \A to : LegalEnd(a, n, to)
  BY <1>1, <1>2, LegalFacts DEF Overtaken
<1>4. ASSUME NEW to \in {"tidy", "fail", "undo", "withdraw"}, Shifts(a, n, to),
             n = Report /\ ~Native => to \in {"tidy", "undo"}
      PROVE  CompletionInv'
  <2>1. LegalOutput(a, n, to)
    <3>1. to \notin Holding /\ to \notin {"skipped", "check", "done"} /\ pc[a][n] \in OnCourse
      BY <1>1 DEF Holding, OnCourse
    <3> QED BY <3>1 DEF LegalOutput
  <2>2. LegalReport(a, n, to)
    BY <1>4 DEF LegalReport, Unsealed
  <2> QED BY <1>1, <1>2, <1>3, <1>4, <2>1, <2>2, ShiftKeeps DEF Legal
<1>5. ASSUME Shifts(a, n, AfterSeal(n)), art'[a][n] = "sealed"
      PROVE  CompletionInv'
  <2>1. LegalOutput(a, n, AfterSeal(n))
    BY <1>1, <1>5, SlotKinds, SlotFacts DEF LegalOutput, AfterSeal, OnCourse
  <2>2. LegalReport(a, n, AfterSeal(n))
    BY SlotKinds, SlotFacts DEF LegalReport, AfterSeal, Unsealed
  <2> QED BY <1>1, <1>2, <1>3, <1>5, <2>1, <2>2, ShiftKeeps DEF Legal
<1>6. \A e : /\ FailAt(n, e) \in {"fail", "undo", "withdraw"}
             /\ n = Report /\ ~Native => FailAt(n, e) = "undo"
  BY DEF FailAt
<1>7. CASE Seal(a, n)
  <2>1. SealArtifact(a, n) => art'[a][n] = "sealed"
    BY <1>0 DEF SealArtifact, SetArtifact, TypeOK
  <2>2. Shifts(a, n, "tidy") \/ (Shifts(a, n, AfterSeal(n)) /\ SealArtifact(a, n))
    BY <1>7, ShiftFacts DEF Seal
  <2> QED BY <1>4, <1>5, <2>1, <2>2
<1>8. CASE Tidy(a, n)
  <2>1. CASE art[a][n] = "sealed" /\ UNCHANGED ledgerVars /\ Throw(a, n, AfterSeal(n), "none")
    BY <1>5, <2>1, ShiftFacts DEF ledgerVars
  <2>2. CASE \E e : Throw(a, n, FailAt(n, e), e) \/ FaultTo(a, n, FailAt(n, e), e)
    BY <1>4, <1>6, <2>2, ShiftFacts
  <2> QED BY <1>8, <2>1, <2>2 DEF Tidy
<1> QED BY <1>7, <1>8

\* Compensation.
LEMMA UndoCompletes ==
    ASSUME Fine, NEW a \in Attempts, NEW n \in Slots, Undo(a, n)
    PROVE  CompletionInv'
<1>0. TypeOK /\ EngineInv
  BY DEF Fine, Lifecycle
<1>1. stage[a] = "running" /\ pc[a][n] = "undo"
  BY DEF Undo, At
<1>2. Touches(a, n) /\ Shifts(a, n, "fail")
  BY <1>0, AttemptTouches, ArtifactTouches, ShiftFacts DEF Undo
<1>3. LegalOrder(a, n) /\ LegalOutput(a, n, "fail")
  BY <1>1, <1>2, LegalFacts DEF OnCourse, Holding
<1>4. LegalEnd(a, n, "fail")
  <2>1. EndsWhole(a)
    BY DEF Fine, CompletionInv, Accounted
  <2> QED BY <1>1, <1>2, <2>1 DEF LegalEnd, EndsWhole, Spared, Overtaken, Touches
<1>5. LegalReport(a, n, "fail")
  <2>1. InvalidatePublication(a, n) => art'[a][n] # "sealed"
    BY <1>0 DEF InvalidatePublication, Invalidated, TypeOK, Live
  <2>2. FaultTo(a, n, "fail", "artifact_invalidation") => err'[a][n] = "artifact_invalidation"
    BY <1>0, ShiftFacts DEF EngineInv
  <2> QED BY <2>1, <2>2 DEF Undo, LegalReport, Unsealed
<1> QED BY <1>1, <1>2, <1>3, <1>4, <1>5, ShiftKeeps DEF Legal

\* Recording the success of a step.
LEMMA RecordSuccessCompletes ==
    ASSUME Fine, NEW a \in Attempts, NEW s \in Steps,
           RecordSuccess(a, s) \/ RecordAgain(a, s) \/ ReadBack(a, s)
    PROVE  CompletionInv'
<1>0. TypeOK /\ s \in Slots /\ s \in Rows
  BY SlotFacts DEF Fine, Lifecycle
<1>1. stage[a] = "running" /\ pc[a][s] \in Holding \ {"done"}
  BY DEF RecordSuccess, RecordAgain, ReadBack, At, Holding
<1>2. Touches(a, s)
  BY <1>0, AttemptTouches, RowTouches DEF RecordSuccess, RecordAgain, ReadBack, RowStates
<1>3. attemptState'[a] = "active" => art'[a][s] = "sealed"
  <2>1. attemptState'[a] = "active" => attemptState[a] = "active"
    BY <1>2 DEF Touches
  <2>2. art' = art
    BY DEF RecordSuccess, RecordAgain, ReadBack, RecordStep, Refused, PauseExpired, ledgerVars
  <2> QED BY <1>1, <2>1, <2>2, StepHolds
<1>4. PICK to : /\ Shifts(a, s, to) /\ to \in {"done", "record_again", "read_back", "undo", "fail"}
                /\ to = "done" => row'[a][s] = "succeeded"
  <2>1. RecordStep(a, s, "succeeded") => row'[a][s] = "succeeded"
    BY <1>0 DEF RecordStep, TypeOK
  <2>2. UNCHANGED ledgerVars => row' = row
    BY DEF ledgerVars
  <2> QED BY <2>1, <2>2, ShiftFacts DEF RecordSuccess, RecordAgain, ReadBack
<1>5. Legal(a, s, to)
  BY <1>1, <1>3, <1>4, StepLegal DEF Holding
<1> QED BY <1>0, <1>1, <1>2, <1>4, <1>5, ShiftKeeps

\* Recording the failure of a slot.
LEMMA RecordFailureCompletes ==
    ASSUME Fine, NEW a \in Attempts, NEW n \in Slots, RecordFailure(a, n)
    PROVE  CompletionInv'
<1>0. TypeOK /\ EngineInv
  BY DEF Fine, Lifecycle
<1>1. stage[a] = "running" /\ pc[a][n] = "fail" /\ err[a][n] \in Failures
  BY <1>0 DEF RecordFailure, At, EngineInv, Failing
<1>2. RowOf(n) \in Rows /\ n \in Rows /\ RowFor(err[a][n]) \in RowStates
  BY <1>1, LedgerFacts, FailureFacts DEF RowOf, RowStates
<1>3. Touches(a, n)
  BY <1>0, <1>2, AttemptTouches, RowTouches DEF RecordFailure, RowStates
<1>4. LegalOrder(a, n)
  BY <1>1, <1>3, LegalFacts
<1>5. art' = art
  BY DEF RecordFailure, RecordStep, Refused, PauseExpired, ledgerVars
<1>6. CASE RecordStep(a, n, "skipped") /\ Goto(a, n, "skipped") /\ n \in OptionalSteps
  <2>1. n \in Steps /\ row'[a][n] = "skipped"
    BY <1>0, <1>2, <1>6, EngineAssumption DEF RecordStep, TypeOK
  <2>2. Legal(a, n, "skipped")
    BY <1>1, <1>6, <2>1, StepLegal DEF Holding
  <2> QED BY <1>1, <1>3, <1>6, <2>2, ShiftFacts, ShiftKeeps
<1>7. ASSUME NEW to \in {"rejected", "fail_late"}, Shifts(a, n, to),
             to = "fail_late" => err' = err
      PROVE  CompletionInv'
  <2>1. LegalOutput(a, n, to)
    BY <1>3, <1>7, <1>1, LegalFacts DEF OnCourse, Holding
  <2>2. LegalEnd(a, n, to)
    BY <1>5 DEF LegalEnd, Overtaken
  <2>3. LegalReport(a, n, to)
    <3>1. ~Native => ReportIsKnown(a)
      BY DEF Fine, CompletionInv, Accounted
    <3>2. attemptState'[a] = "active" => attemptState[a] = "active"
      BY <1>3 DEF Touches
    <3> QED BY <1>1, <1>5, <1>7, <3>1, <3>2 DEF LegalReport, ReportIsKnown, Unsealed
  <2> QED BY <1>1, <1>3, <1>4, <1>7, <2>1, <2>2, <2>3, ShiftKeeps DEF Legal
<1>8. CASE RecordStep(a, RowOf(n), RowFor(err[a][n])) /\ Goto(a, n, NextAfterRecord(a, n))
  <2> DEFINE to == NextAfterRecord(a, n)
  <2>1. to \in {"cleanup", "paused"}
    BY DEF NextAfterRecord
  <2>2. attemptState'[a] = "active" /\ attemptState[a] = "active"
    BY <1>8 DEF RecordStep, HoldsLease, Runs, attemptVars
  <2>3. LegalOutput(a, n, to) /\ LegalEnd(a, n, to)
    BY <2>1, <2>2 DEF LegalOutput, LegalEnd, OnCourse, Holding
  <2>4. LegalReport(a, n, to)
    <3>1. ~Native => ReportIsKnown(a)
      BY DEF Fine, CompletionInv, Accounted
    <3>2. row'[a][RowOf(n)] = RowFor(err[a][n])
      BY <1>0, <1>2, <1>8 DEF RecordStep, TypeOK
    <3>3. err[a][n] = "artifact_invalidation" => Unsettled(a)'
      BY <1>2, <3>2, FailureFacts DEF Unsettled
    <3> QED BY <1>1, <1>5, <2>1, <2>2, <3>1, <3>3 DEF LegalReport, ReportIsKnown, Unsealed
  <2>5. Shifts(a, n, to)
    BY <1>8, ShiftFacts
  <2> HIDE DEF to
  <2> QED BY <1>1, <1>3, <1>4, <2>3, <2>4, <2>5, ShiftKeeps DEF Legal
<1>9. \/ RecordStep(a, n, "skipped") /\ Goto(a, n, "skipped") /\ n \in OptionalSteps
      \/ RecordStep(a, RowOf(n), RowFor(err[a][n])) /\ Goto(a, n, NextAfterRecord(a, n))
      \/ Goto(a, n, "rejected") \/ Goto(a, n, "fail_late") \/ FaultTo(a, n, "rejected", err[a][n])
  BY DEF RecordFailure, BecomesGap
<1> QED BY <1>6, <1>7, <1>8, <1>9, ShiftFacts

\* Recording it after a conflict.
LEMMA RecordFailureLateCompletes ==
    ASSUME Fine, NEW a \in Attempts, NEW n \in Slots, RecordFailureLate(a, n)
    PROVE  CompletionInv'
<1>0. TypeOK
  BY DEF Fine, Lifecycle
<1>1. stage[a] = "running" /\ pc[a][n] = "fail_late"
  BY DEF RecordFailureLate, At
<1>2. RowOf(n) \in Rows /\ n \in Rows
  BY LedgerFacts DEF RowOf
<1>3. Touches(a, n)
  BY <1>0, <1>2, AttemptTouches, RowTouches, PromotionTouches DEF RecordFailureLate
<1>4. PICK to : Shifts(a, n, to) /\ to \in {"cleanup", "paused", "rejected"} /\ pc' = [pc EXCEPT ![a][n] = to]
                /\ \/ to = "rejected"
                   \/ RecordLeaseLostStep(a, RowOf(n), err[a][n])
                   \/ PromoteInvalidation(a, n)
  BY ShiftFacts DEF RecordFailureLate, NextAfterRecord, Goto
<1>5. LegalOrder(a, n) /\ LegalOutput(a, n, to)
  BY <1>1, <1>3, <1>4, LegalFacts DEF OnCourse, Holding
<1>6. art' = art
  BY DEF RecordFailureLate, RecordLeaseLostStep, PromoteInvalidation, PromotionRefused, PauseExpired, ledgerVars
<1>7. RecordLeaseLostStep(a, RowOf(n), err[a][n]) => attemptState'[a] = "paused"
  BY DEF RecordLeaseLostStep, MayRecordLoss, PausedOn, attemptVars
<1>8. PromoteInvalidation(a, n) => attemptState'[a] # "completed" /\ Unsettled(a)'
  <2> SUFFICES ASSUME PromoteInvalidation(a, n)
               PROVE  attemptState'[a] # "completed" /\ Unsettled(a)'
    OBVIOUS
  <2>1. attemptState[a] # "completed"
    BY DEF PromoteInvalidation, Promotable, HoldsLease, LeaseExpired, PausedOn, Runs
  <2>2. row'[a][n] = "artifact_invalidation"
    <3>1. PICK before : before = IF LeaseExpired(a) THEN Interrupted(a) ELSE row[a]
      OBVIOUS
    <3>2. before \in [Rows -> RowStates]
      BY <1>0, <3>1, InterruptedType DEF TypeOK
    <3>3. row' = [row EXCEPT ![a] = [before EXCEPT ![n] = "artifact_invalidation"]]
      BY <3>1 DEF PromoteInvalidation
    <3> QED BY <1>0, <1>2, <3>2, <3>3 DEF TypeOK
  <2> QED BY <1>2, <1>3, <2>1, <2>2 DEF Unsettled, Touches
<1>9. LegalEnd(a, n, to)
  BY <1>4, <1>6, <1>7, <1>8 DEF LegalEnd, Overtaken
<1>10. LegalReport(a, n, to)
  BY <1>4, <1>7, <1>8 DEF LegalReport, Unsealed
<1> QED BY <1>1, <1>3, <1>4, <1>5, <1>9, <1>10, ShiftKeeps DEF Legal

\* The Evidence Manifest.
LEMMA ManifestCompletes ==
    ASSUME Fine, NEW a \in Attempts, BeginManifest(a) \/ CheckManifest(a)
    PROVE  CompletionInv'
<1> USE SlotKinds, SlotFacts
<1>0. TypeOK
  BY DEF Fine, Lifecycle
<1>1. stage[a] = "running" /\ pc[a][Manifest] \in {"todo", "check"}
  BY DEF BeginManifest, CheckManifest, At
<1>2. Touches(a, Manifest)
  BY <1>0, AttemptTouches DEF BeginManifest, CheckManifest
<1>3. LegalOrder(a, Manifest)
  BY <1>1 DEF BeginManifest, CheckManifest, At, LegalOrder
<1>4. PICK to : /\ Shifts(a, Manifest, to) /\ to \in {"create", "fail", "done"}
                /\ to = "done" => UNCHANGED ledgerVars /\ pc[a][Manifest] = "check"
  BY ShiftFacts DEF BeginManifest, CheckManifest, At
<1>5. LegalOutput(a, Manifest, to)
  <2>1. CASE to # "done"
    BY <1>4, <2>1 DEF LegalOutput
  <2>2. CASE to = "done"
    <3>1. UNCHANGED <<attemptState, art>> /\ pc[a][Manifest] = "check"
      BY <1>4, <2>2 DEF ledgerVars, attemptVars
    <3>2. InPlace(a) /\ KeepsOutputs(a)
      BY DEF Fine, CompletionInv, Accounted
    <3>3. pc[a][Report] = "todo"
      BY <3>1, <3>2 DEF InPlace
    <3> QED BY <3>1, <3>2, <3>3 DEF LegalOutput, KeepsOutputs, OnCourse
  <2> QED BY <2>1, <2>2
<1>6. LegalEnd(a, Manifest, to) /\ LegalReport(a, Manifest, to)
  BY DEF LegalEnd, LegalReport
<1> QED BY <1>1, <1>2, <1>3, <1>4, <1>5, <1>6, ShiftKeeps DEF Legal

\* The report, up to its publication.
LEMMA ReportCompletes ==
    ASSUME Fine, NEW a \in Attempts,
           BeginReport(a) \/ Review(a) \/ Compose(a) \/ ReviewPauses(a) \/ Publish(a)
    PROVE  CompletionInv'
<1> USE SlotKinds, SlotFacts
<1>0. TypeOK /\ Report \in Rows
  BY LedgerFacts DEF Fine, Lifecycle
<1>1. stage[a] = "running" /\ pc[a][Report] \in {"todo", "review", "compose", "publish"}
  BY DEF BeginReport, Review, Compose, Transition, ReviewPauses, Publish, At
<1>2. Touches(a, Report)
  <2>1. CASE BeginReport(a) \/ Publish(a)
    BY <1>0, <2>1, AttemptTouches DEF BeginReport, Publish
  <2>2. CASE Review(a) \/ Compose(a)
    BY <1>0, <2>2, AttemptTouches, TaskTouches DEF Review, Compose, Transition
  <2>3. CASE ReviewPauses(a)
    BY <1>0, <2>3, AttemptTouches, RowTouches DEF ReviewPauses, RowStates, FailedRows, Unretryable
  <2> QED BY <2>1, <2>2, <2>3
<1>3. art' = art
  BY DEF BeginReport, Review, Compose, Transition, TransitionTask, ReviewPauses, Publish,
         RecordStep, Refused, PauseExpired, ledgerVars
<1>4. PICK to : /\ Shifts(a, Report, to)
                /\ to \in {"create", "fail", "review", "withdraw", "compose", "publish", "paused"}
  <2>1. CASE BeginReport(a)
    BY <2>1, ShiftFacts DEF BeginReport
  <2>2. CASE Publish(a) \/ ReviewPauses(a)
    BY <2>2, ShiftFacts DEF Publish, ReviewPauses
  <2>3. CASE Review(a) \/ Compose(a)
    <3>1. \A from, to, at, next : Transition(a, from, to, at, next) =>
              Shifts(a, Report, next) \/ Shifts(a, Report, "withdraw")
      BY ShiftFacts DEF Transition, Shifts
    <3> QED BY <2>3, <3>1 DEF Review, Compose
  <2> QED BY <2>1, <2>2, <2>3
<1>5. LegalOrder(a, Report)
  BY <1>1 DEF LegalOrder, BeginReport, Review, Compose, Transition, ReviewPauses, Publish, At
<1>6. LegalOutput(a, Report, to) /\ LegalEnd(a, Report, to) /\ LegalReport(a, Report, to)
  BY <1>1, <1>2, <1>3, <1>4, LegalFacts DEF OnCourse, Overtaken, Unsealed
<1> QED BY <1>1, <1>2, <1>4, <1>5, <1>6, ShiftKeeps DEF Legal

\* A conflict before anything is tracked for compensation.
LEMMA WithdrawCompletes ==
    ASSUME Fine, NEW a \in Attempts, Withdraw(a)
    PROVE  CompletionInv'
<1> USE SlotKinds, SlotFacts
<1>0. TypeOK /\ EngineInv
  BY DEF Fine, Lifecycle
<1>1. stage[a] = "running" /\ pc[a][Report] = "withdraw"
  BY DEF Withdraw, At
<1>2. CASE UNCHANGED ledgerVars /\ Shifts(a, Report, "rejected")
  <2>1. Touches(a, Report)
    BY <1>0, <1>2, AttemptTouches
  <2>2. Legal(a, Report, "rejected")
    BY <1>1, <2>1, LegalFacts DEF Legal, OnCourse, Holding, Overtaken, Unsealed
  <2> QED BY <1>1, <1>2, <2>1, <2>2, ShiftKeeps
<1>3. CASE InvalidateTerminal(a) /\ Shifts(a, Report, "fail")
  <2>1. /\ UNCHANGED <<taskVars, attemptVars, row, stage, recovery>>
        /\ \A b \in Attempts : b # a => art'[b] = art[b]
        /\ art'[a][Report] # "sealed"
    BY <1>0, <1>3 DEF InvalidateTerminal, Invalidated, TypeOK, Live, Shifts
  <2>2. /\ \A m \in Slots : pc'[a][m] = IF m = Report THEN "fail" ELSE pc[a][m]
        /\ \A b \in Attempts : b # a => pc'[b] = pc[b] /\ err'[b] = err[b]
    BY <1>0, <1>3, ShiftShape
  <2>3. SameTask
    BY <2>1, TaskStays DEF taskVars, attemptVars
  <2>4. ASSUME NEW b \in Attempts, b # a
        PROVE  Accounted(b)'
    BY <2>1, <2>2, <2>3, <2>4, UntouchedAccounted
       DEF Fine, CompletionInv, SameTask, SameAttempt, attemptVars
  <2>5. InPlace(a) /\ EndsWhole(a)
    BY DEF Fine, CompletionInv, Accounted
  <2>6. InPlace(a)'
    BY <1>1, <2>1, <2>2, <2>5 DEF InPlace, attemptVars
  <2>7. KeepsOutputs(a)'
    BY <2>2 DEF KeepsOutputs, OnCourse
  <2>8. EndsWhole(a)'
    BY <1>1, <2>1, <2>5 DEF EndsWhole, Overtaken, attemptVars
  <2>9. ReportIsKnown(a)'
    BY <2>1 DEF ReportIsKnown
  <2>10. TaskInv'
    BY <2>1 DEF Fine, CompletionInv, TaskInv, taskVars, attemptVars
  <2> QED BY <2>4, <2>6, <2>7, <2>8, <2>9, <2>10 DEF CompletionInv, Accounted
<1> QED BY <1>2, <1>3, ShiftFacts DEF Withdraw

-----------------------------------------------------------------------------
(* The beginning and the end of an execution.                              *)

\* Loading.
LEMMA LoadCompletes ==
    ASSUME Fine, NEW a \in Attempts, Load(a)
    PROVE  CompletionInv'
<1> USE SlotKinds
<1>0. TypeOK
  BY DEF Fine, Lifecycle
<1>1. /\ stage[a] = "loading" /\ UNCHANGED <<pc, err, recovery>>
      /\ \/ UNCHANGED ledgerVars /\ HoldsLease(a) /\ stage' = [stage EXCEPT ![a] = "running"]
         \/ Refused(a) /\ stage' = [stage EXCEPT ![a] = "ended"]
  BY DEF Load
<1>2. Touches(a, Report) /\ art' = art
  BY <1>0, <1>1, AttemptTouches DEF Refused, PauseExpired, ledgerVars
<1>3. /\ stage' \in [Attempts -> Stages] /\ stage'[a] \in {"running", "ended"}
      /\ \A b \in Attempts : b # a => stage'[b] = stage[b]
      /\ stage'[a] = "running" => attemptState'[a] = "active"
  BY <1>1 DEF Fine, CompletionInv, TaskInv, Stages, HoldsLease, Runs, ledgerVars, attemptVars
<1>4. TaskInv'
  BY <1>1, <1>2, <1>3, TaskKnows
<1>5. ASSUME NEW b \in Attempts, b # a
      PROVE  Accounted(b)'
  BY <1>1, <1>2, <1>3, <1>5, UntouchedAccounted DEF Fine, CompletionInv, Touches, SameTask
<1>6. InPlace(a) /\ EndsWhole(a) /\ (~Native => ReportIsKnown(a))
  BY DEF Fine, CompletionInv, Accounted
<1>7. \A m \in Slots : pc'[a][m] = "todo"
  BY <1>1, <1>6 DEF InPlace
<1>8. InPlace(a)' /\ KeepsOutputs(a)'
  BY <1>1, <1>2, <1>3, <1>6, <1>7, SlotFacts DEF InPlace, KeepsOutputs, Holding, Touches
<1>9. EndsWhole(a)'
  BY <1>2, <1>3, <1>6, SlotFacts, LedgerFacts DEF EndsWhole, Whole, Touches, FinalRows
<1>10. ~Native => ReportIsKnown(a)'
  <2>1. ~Native => art'[a][Report] # "sealed"
    BY <1>1, <1>2, <1>6 DEF ReportIsKnown
  <2> QED BY <2>1 DEF ReportIsKnown
<1> QED BY <1>4, <1>5, <1>8, <1>9, <1>10 DEF CompletionInv, Accounted

\* The worker of a is gone, and left its attempt in order.
LEMMA EndsInOrder ==
    ASSUME Fine, NEW a \in Attempts, End(a),
           \A b \in Attempts : b # a => SameAttempt(b),
           \A b \in Attempts : ResumedFrom(b)' => ResumedFrom(b),
           attemptState'[a] # "none",
           attemptState'[a] = "completed" => Whole(a)' /\ (Spared => art'[a][Report] = "sealed"),
           ~Native => /\ attemptState'[a] = "paused" /\ failureKind'[a] # "worker_loss"
                            /\ art'[a][Report] = "sealed" => Unsettled(a)'
                      /\ ResumedFrom(a)' => art'[a][Report] # "sealed"
    PROVE  stage' \in [Attempts -> Stages] /\ \A b \in Attempts : Accounted(b)'
<1> USE SlotKinds
<1>1. /\ stage' \in [Attempts -> Stages] /\ stage'[a] = "ended"
      /\ \A m \in Slots : pc'[a][m] = "todo"
      /\ \A b \in Attempts : b # a => stage'[b] = stage[b] /\ pc'[b] = pc[b] /\ err'[b] = err[b]
  BY DEF End, Fine, EngineInv, CompletionInv, TaskInv, Stages
<1>2. ASSUME NEW b \in Attempts, b # a
      PROVE  Accounted(b)'
  BY <1>1, <1>2, UntouchedAccounted DEF Fine, CompletionInv
<1>3. InPlace(a)' /\ KeepsOutputs(a)'
  BY <1>1, SlotFacts DEF InPlace, KeepsOutputs, Holding
<1>4. EndsWhole(a)' /\ (~Native => ReportIsKnown(a)')
  BY <1>1 DEF EndsWhole, ReportIsKnown
<1> QED BY <1>1, <1>2, <1>3, <1>4 DEF Accounted

\* completeExecution, where it is called.
LEMMA CompletionIsWhole ==
    ASSUME Fine, NEW a \in Attempts, stage[a] = "running", pc[a][Report] = "complete",
           CompleteExecution(a), stage' \in [Attempts -> Stages], UNCHANGED recovery
    PROVE  /\ TaskInv' /\ ~ResumedFrom(a)'
           /\ attemptState'[a] = "completed" /\ Whole(a)' /\ art'[a][Report] = "sealed"
           /\ \A b \in Attempts : b # a => SameAttempt(b)
           /\ \A b \in Attempts : ResumedFrom(b)' => ResumedFrom(b)
<1>1. /\ attemptState[a] = "active" /\ currentAttempt' = a /\ taskState' = "completed"
      /\ attemptState'[a] = "completed" /\ art[a][Report] = "sealed"
      /\ UNCHANGED <<currentAttempt, retryOf, failureKind, row, art>>
      /\ \A b \in Attempts : b # a => attemptState'[b] = attemptState[b]
  BY DEF CompleteExecution, HoldsLease, Runs, Fine, Lifecycle, TypeOK
<1>2. \A b \in Attempts : ResumedFrom(b)' => ResumedFrom(b)
  BY <1>1 DEF ResumedFrom
<1>3. ~ResumedFrom(a)
  BY ResumedIsOver DEF Fine, CompleteExecution, HoldsLease
<1>4. TaskInv'
  BY <1>1 DEF Fine, EngineInv, CompletionInv, TaskInv
<1>5. Whole(a)
  <2>1. InPlace(a) /\ KeepsOutputs(a)
    BY DEF Fine, CompletionInv, Accounted
  <2>2. pc[a][Manifest] = "done" /\ \A s \in Steps : pc[a][s] \in {"done", "skipped"}
    BY <2>1 DEF InPlace
  <2> QED BY <1>1, <2>1, <2>2 DEF KeepsOutputs, Whole, OnCourse, Holding
<1>6. Whole(a)'
  BY <1>1, <1>5 DEF Whole
<1> QED BY <1>1, <1>2, <1>3, <1>4, <1>6 DEF SameAttempt

\* Completing, with or without an answer.
LEMMA CompleteCompletes ==
    ASSUME Fine, NEW a \in Attempts, Complete(a)
    PROVE  CompletionInv'
<1> USE SlotKinds, SlotFacts
<1>0. TypeOK /\ EngineInv /\ stage \in [Attempts -> Stages]
  BY DEF Fine, Lifecycle, CompletionInv, TaskInv
<1>1. stage[a] = "running" /\ pc[a][Report] = "complete"
  BY DEF Complete, At
<1>2. CASE CompleteExecution(a) /\ End(a)
  <2>1. stage' \in [Attempts -> Stages] /\ UNCHANGED recovery
    BY <1>0, <1>2 DEF End, Stages
  <2>2. TaskInv' /\ \A b \in Attempts : Accounted(b)'
    BY <1>1, <1>2, <2>1, CompletionIsWhole, EndsInOrder
  <2> QED BY <2>2 DEF CompletionInv
<1>3. ASSUME NEW to \in {"undo", "fail", "withdraw"}, Shifts(a, Report, to),
             Native => to # "undo", ~Native => to = "undo",
             UNCHANGED ledgerVars \/ Refused(a)
      PROVE  CompletionInv'
  <2>1. Touches(a, Report)
    BY <1>0, <1>3, AttemptTouches
  <2>2. LegalOrder(a, Report) /\ LegalOutput(a, Report, to) /\ LegalEnd(a, Report, to)
    BY <1>1, <2>1, LegalFacts DEF OnCourse, Holding, Overtaken
  <2>3. LegalReport(a, Report, to)
    BY <1>3 DEF LegalReport, Unsealed
  <2> QED BY <1>1, <1>3, <2>1, <2>2, <2>3, ShiftKeeps DEF Legal
<1>4. ASSUME NEW to \in {"undo", "fail"}, Shifts(a, Report, to), Native => to # "undo",
             CompleteExecution(a), MaxFaults # 0
      PROVE  CompletionInv'
  <2>1. UNCHANGED <<stage, recovery>>
    BY <1>4 DEF Shifts
  <2>2. /\ \A m \in Slots : pc'[a][m] = IF m = Report THEN to ELSE pc[a][m]
        /\ \A b \in Attempts : b # a => pc'[b] = pc[b] /\ err'[b] = err[b]
    BY <1>0, <1>4, ShiftShape
  <2>3. /\ TaskInv' /\ ~ResumedFrom(a)'
        /\ attemptState'[a] = "completed" /\ Whole(a)' /\ art'[a][Report] = "sealed"
        /\ \A b \in Attempts : b # a => SameAttempt(b)
        /\ \A b \in Attempts : ResumedFrom(b)' => ResumedFrom(b)
    BY <1>0, <1>1, <1>4, <2>1, CompletionIsWhole
  <2>4. ASSUME NEW b \in Attempts, b # a
        PROVE  Accounted(b)'
    BY <2>1, <2>2, <2>3, <2>4, UntouchedAccounted DEF Fine, CompletionInv
  <2>5. InPlace(a)
    BY DEF Fine, CompletionInv, Accounted
  <2>6. InPlace(a)' /\ KeepsOutputs(a)'
    BY <1>1, <2>1, <2>2, <2>3, <2>5 DEF InPlace, KeepsOutputs
  <2>7. EndsWhole(a)' /\ (~Native => ReportIsKnown(a)')
    BY <1>1, <1>4, <2>1, <2>2, <2>3 DEF EndsWhole, Spared, ReportIsKnown, Overtaken
  <2> QED BY <2>3, <2>4, <2>6, <2>7 DEF CompletionInv, Accounted
<1>5. /\ FailAt(Report, "lease_lost") = IF Native THEN "withdraw" ELSE "undo"
      /\ FailAt(Report, "retryable") = IF Native THEN "fail" ELSE "undo"
  BY DEF FailAt
<1>6. CASE Refused(a) /\ Throw(a, Report, FailAt(Report, "lease_lost"), "lease_lost")
  BY <1>3, <1>5, <1>6, ShiftFacts
<1>7. CASE /\ CompleteExecution(a) \/ UNCHANGED ledgerVars
           /\ FaultTo(a, Report, FailAt(Report, "retryable"), "retryable")
  <2>1. MaxFaults # 0
    BY <1>7, EngineAssumption DEF Fine, FaultsInv, FaultTo
  <2> QED BY <1>3, <1>4, <1>5, <1>7, <2>1, ShiftFacts
<1> QED BY <1>2, <1>6, <1>7 DEF Complete

\* Settling what failed.
LEMMA SettleCompletes ==
    ASSUME Fine, NEW a \in Attempts, Settle(a)
    PROVE  CompletionInv'
<1> USE SlotKinds, SlotFacts
<1>0. TypeOK /\ Accounted(a)
  BY DEF Fine, Lifecycle, CompletionInv
<1>1. /\ stage[a] = "running" /\ End(a)
      /\ \A n \in Slots : pc[a][n] \in {"todo", "done", "skipped", "paused", "rejected"}
  BY DEF Settle, Settled
<1>2. attemptState[a] # "none"
  BY <1>0, <1>1 DEF Accounted, InPlace
<1>3. CASE UNCHANGED ledgerVars
  <2>1. Touches(a, Report) /\ UNCHANGED <<attemptState, failureKind, row, art>>
    BY <1>0, <1>3, AttemptTouches DEF ledgerVars, attemptVars
  <2>2. stage' \in [Attempts -> Stages] /\ \A b \in Attempts : Accounted(b)'
    <3>1. attemptState'[a] = "completed" => Whole(a)' /\ (Spared => art'[a][Report] = "sealed")
      BY <1>0, <2>1 DEF Accounted, EndsWhole, Whole
    <3>2. ~Native => /\ attemptState'[a] = "paused" /\ failureKind'[a] # "worker_loss"
                              /\ art'[a][Report] = "sealed" => Unsettled(a)'
                     /\ ResumedFrom(a)' => art'[a][Report] # "sealed"
      BY <1>0, <2>1 DEF Accounted, ReportIsKnown, Unsettled, Touches, SameTask
    <3> QED BY <1>1, <1>2, <2>1, <3>1, <3>2, EndsInOrder DEF Touches, SameTask
  <2>3. TaskInv'
    BY <1>1, <2>1, <2>2, TaskKnows DEF End
  <2> QED BY <2>2, <2>3 DEF CompletionInv
<1>4. ASSUME PauseExecution(a, known[a], PauseReason(a)), \E n \in Slots : pc[a][n] = "paused"
      PROVE  CompletionInv'
  <2>1. /\ attemptState[a] = "active" /\ attemptState'[a] = "paused" /\ taskState' = "paused"
        /\ UNCHANGED <<currentAttempt, retryOf, row, art>>
        /\ \A b \in Attempts : b # a =>
              attemptState'[b] = attemptState[b] /\ failureKind'[b] = failureKind[b]
    BY <1>0, <1>4 DEF PauseExecution, MayPause, TypeOK
  <2>2. \A b \in Attempts : ResumedFrom(b)' => ResumedFrom(b)
    BY <2>1 DEF ResumedFrom
  <2>3. ~Native /\ art[a][Report] = "sealed" => Unsettled(a)
    <3> SUFFICES ASSUME ~Native, art[a][Report] = "sealed"
                 PROVE  Unsettled(a)
      OBVIOUS
    <3>1. pc[a][Report] \notin Unsealed /\ (pc[a][Report] = "paused" => Unsettled(a))
      BY <1>0, <1>1, <2>1 DEF Accounted, ReportIsKnown
    <3>2. pc[a][Report] \in {"paused", "rejected"}
      BY <1>1, <3>1 DEF Unsealed
    <3>3. pc[a][Manifest] = "done" /\ \A s \in Steps : pc[a][s] \in {"done", "skipped"}
      BY <1>0, <3>2 DEF Accounted, InPlace
    <3> QED BY <1>4, <3>1, <3>2, <3>3
  <2>4. ~Native /\ ResumedFrom(a) => art[a][Report] # "sealed"
    BY <1>0 DEF Accounted, ReportIsKnown
  <2>5. stage' \in [Attempts -> Stages] /\ \A b \in Attempts : Accounted(b)'
    BY <1>1, <2>1, <2>2, <2>3, <2>4, EndsInOrder DEF SameAttempt, Unsettled
  <2>6. TaskInv'
    BY <1>1, <2>1, <2>5 DEF End, Fine, EngineInv, CompletionInv, TaskInv
  <2> QED BY <2>5, <2>6 DEF CompletionInv
<1> QED BY <1>3, <1>4 DEF Settle

\* A crash.
LEMMA CrashCompletes ==
    ASSUME Fine, Crash
    PROVE  CompletionInv'
<1> USE SlotKinds, SlotFacts
<1>1. /\ UNCHANGED <<taskState, currentAttempt, retryOf, attemptState, failureKind, row, art>>
      /\ \A a \in Attempts : IF stage[a] = "idle" THEN stage'[a] = "idle" ELSE stage'[a] = "ended"
      /\ stage' \in [Attempts -> Stages]
      /\ \A a \in Attempts, n \in Slots : pc'[a][n] = "todo"
      /\ recovery'.at = "idle"
  BY IdleFacts DEF Crash, Stages, ledgerVars, taskVars, attemptVars
<1>2. TaskInv'
  BY <1>1 DEF Fine, CompletionInv, TaskInv
<1>3. ASSUME NEW a \in Attempts
      PROVE  Accounted(a)'
  <2>1. Accounted(a) /\ (ResumedFrom(a)' => ResumedFrom(a))
    BY <1>1 DEF Fine, CompletionInv, ResumedFrom
  <2>2. InPlace(a)' /\ KeepsOutputs(a)'
    BY <1>1, <2>1 DEF Accounted, InPlace, KeepsOutputs, Holding
  <2>3. EndsWhole(a)'
    BY <1>1, <2>1 DEF Accounted, EndsWhole, Whole
  <2>4. ~Native => ReportIsKnown(a)'
    BY <1>1, <2>1 DEF Accounted, ReportIsKnown, Unsettled
  <2> QED BY <2>2, <2>3, <2>4 DEF Accounted
<1> QED BY <1>2, <1>3 DEF CompletionInv

\* A claimed attempt has no history.
LEMMA ClaimCompletes ==
    ASSUME Fine, NEW a \in Attempts, NEW p \in Plans, Claim(a, p)
    PROVE  CompletionInv'
<1> USE SlotKinds, SlotFacts
<1>1. /\ UNCHANGED <<row, art, failureKind, pc, err, recovery>> /\ attemptState[a] = "none"
      /\ taskState = "ready" /\ taskState' = "executing"
      /\ attemptState' = [attemptState EXCEPT ![a] = "active"]
      /\ retryOf' = [retryOf EXCEPT ![a] = currentAttempt] /\ currentAttempt' = a
      /\ stage' = [stage EXCEPT ![a] = "loading"]
  BY DEF Claim, ClaimExecution
<1>2. /\ attemptState'[a] = "active" /\ stage'[a] = "loading"
      /\ stage' \in [Attempts -> Stages]
      /\ \A b \in Attempts : b # a => attemptState'[b] = attemptState[b] /\ stage'[b] = stage[b]
  BY <1>1 DEF Fine, Lifecycle, TypeOK, CompletionInv, TaskInv, Stages
<1>3. ASSUME NEW b \in Attempts, ResumedFrom(b)'
      PROVE  ResumedFrom(b)
  <2>1. \E c \in Attempts : retryOf'[c] = b
    BY <1>1, <1>3 DEF ResumedFrom
  <2> QED BY <1>1, <2>1 DEF ResumedFrom, Fine, Lifecycle, TypeOK
<1>4. TaskInv'
  BY <1>1, <1>2 DEF Fine, EngineInv, CompletionInv, TaskInv
<1>5. ASSUME NEW b \in Attempts, b # a
      PROVE  Accounted(b)'
  BY <1>1, <1>2, <1>3, <1>5, UntouchedAccounted DEF Fine, CompletionInv, SameAttempt
<1>6. Accounted(a)
  BY DEF Fine, CompletionInv
<1>7. /\ \A m \in Slots : pc'[a][m] = "todo"
      /\ ~Native => art'[a][Report] # "sealed"
  BY <1>1, <1>6 DEF Accounted, InPlace, ReportIsKnown
<1>8. InPlace(a)' /\ KeepsOutputs(a)'
  BY <1>2, <1>7 DEF InPlace, KeepsOutputs, Holding
<1>9. EndsWhole(a)' /\ (~Native => ReportIsKnown(a)')
  BY <1>2, <1>7 DEF EndsWhole, ReportIsKnown
<1> QED BY <1>4, <1>5, <1>8, <1>9 DEF CompletionInv, Accounted

-----------------------------------------------------------------------------
(* Recovery, and the users.                                                *)

\* Transactions of others than the workers.
LEMMA OthersComplete ==
    ASSUME Fine, NEW a \in Attempts, NEW n \in Slots, Touches(a, n),
           UNCHANGED <<stage, pc, err>>,
           attemptState[a] \in {"paused", "cancelled"} \/ art' = art,
           recovery'.at # "idle" =>
              \/ recovery.at # "idle" /\ recovery'.on = recovery.on
              \/ recovery'.on \in Attempts /\ attemptState'[recovery'.on] \in {"paused", "cancelled"}
    PROVE  CompletionInv'
<1>1. TaskInv'
  BY TaskKnows DEF Fine, CompletionInv, TaskInv
<1>2. \A b \in Attempts : Accounted(b)'
  BY StillKeeps
<1> QED BY <1>1, <1>2 DEF CompletionInv

\* A cycle begins on an attempt that stopped.
LEMMA PickUpCompletes ==
    ASSUME Fine, NEW a \in Attempts, PickUp(a)
    PROVE  CompletionInv'
<1>0. TypeOK
  BY DEF Fine, Lifecycle
<1>1. /\ UNCHANGED <<stage, pc, err>>
      /\ recovery' = [Idle EXCEPT !.on = a, !.at = "refs"]
  BY DEF PickUp, RecoveryStep, workerVars
<1>2. recovery'.on = a
  BY <1>1 DEF Idle
<1>3. /\ attemptState'[a] \in {"paused", "cancelled"} /\ art' = art
      /\ ExpireExecutionLease(a) \/ UNCHANGED ledgerVars
  BY <1>0 DEF PickUp, ExpireExecutionLease, PauseForWorkerLoss, Recoverable, ledgerVars, attemptVars,
              TypeOK
<1> QED BY <1>0, <1>1, <1>2, <1>3, SlotKinds, AttemptTouches, OthersComplete

\* A cycle goes on, or ends.
LEMMA CycleCompletes ==
    ASSUME Fine, ListReferences \/ ListArtifacts \/ EndCycle
    PROVE  CompletionInv'
<1>1. TypeOK /\ recovery \in Cycles /\ recovery.at # "idle" /\ recovery.on \in Attempts
  BY DEF Fine, Lifecycle, EngineInv, ListReferences, ListArtifacts, EndCycle
<1>2. UNCHANGED ledgerVars /\ UNCHANGED <<stage, pc, err>>
  BY DEF ListReferences, ListArtifacts, EndCycle, RecoveryStep, RecoveryFault, workerVars
<1>3. recovery'.at # "idle" => recovery'.on = recovery.on
  <2>1. CASE ListReferences
    BY <1>1, <2>1 DEF ListReferences, RecoveryStep, RecoveryFault, Cycles
  <2>2. CASE ListArtifacts
    BY <1>1, <2>2, IdleFacts DEF ListArtifacts, RecoveryStep, RecoveryFault, Cycles
  <2>3. CASE EndCycle
    BY <2>3, IdleFacts DEF EndCycle, RecoveryStep
  <2> QED BY <2>1, <2>2, <2>3
<1>4. Touches(recovery.on, Report) /\ art' = art
  BY <1>1, <1>2, SlotKinds, AttemptTouches DEF ledgerVars
<1> QED BY <1>1, <1>2, <1>3, <1>4, SlotKinds, OthersComplete

\* Recovery settles one Artifact, of an attempt that stopped.
LEMMA RecoverArtifactCompletes ==
    ASSUME Fine, NEW n \in Slots, RecoverArtifact(n)
    PROVE  CompletionInv'
<1>1. TypeOK /\ recovery \in Cycles /\ recovery.at = "items" /\ recovery.on \in Attempts
  BY DEF Fine, Lifecycle, EngineInv, RecoverArtifact
<1>2. /\ UNCHANGED <<stage, pc, err>>
      /\ recovery' = [recovery EXCEPT !.todo[n] = "skip"]
  BY DEF RecoverArtifact, RecoveryStep, RecoveryFault, workerVars
<1>3. recovery'.on = recovery.on
  BY <1>1, <1>2 DEF Cycles
<1>4. attemptState[recovery.on] \in {"paused", "cancelled"}
  BY <1>1 DEF Fine, CompletionInv, TaskInv
<1>5. Touches(recovery.on, n)
  BY <1>1, AttemptTouches, ArtifactTouches DEF RecoverArtifact
<1> QED BY <1>1, <1>2, <1>3, <1>4, <1>5, OthersComplete

\* A retry is refused as long as the report is sealed.
LEMMA RetryCompletes ==
    ASSUME Fine, NEW a \in Attempts, RetryPausedExecution(a), UNCHANGED <<workerVars, recovery>>
    PROVE  CompletionInv'
<1>1. /\ attemptState[a] = "paused" /\ RetryAllowed(a) /\ currentAttempt = a
      /\ failureKind[a] = "worker_loss" => ~Residue(a)
      /\ taskState' = "ready" /\ UNCHANGED <<currentAttempt, attemptVars, row, art>>
  BY DEF RetryPausedExecution, PausedOn
<1>2. UNCHANGED <<attemptState, failureKind, retryOf, stage, pc, err>>
  BY <1>1 DEF attemptVars, workerVars
<1>3. TaskInv'
  BY <1>1, <1>2 DEF Fine, CompletionInv, TaskInv
<1>4. ~Native => art[a][Report] # "sealed"
  <2> SUFFICES ASSUME ~Native, art[a][Report] = "sealed"
               PROVE  FALSE
    OBVIOUS
  <2>1. CASE failureKind[a] = "worker_loss"
    BY <1>1, <2>1, SlotKinds DEF Residue, ListedTerminal
  <2>2. CASE failureKind[a] # "worker_loss"
    <3>1. Unsettled(a)
      BY <1>1, <2>2 DEF Fine, CompletionInv, Accounted, ReportIsKnown
    <3> QED BY <1>1, <3>1, NoRetryWhileInvalidating DEF Unsettled, Invalidating
  <2> QED BY <2>1, <2>2
<1>5. ASSUME NEW b \in Attempts
      PROVE  Accounted(b)'
  <2>1. Accounted(b) /\ SameAttempt(b) /\ stage'[b] = stage[b] /\ pc'[b] = pc[b] /\ err'[b] = err[b]
    BY <1>1, <1>2 DEF Fine, CompletionInv, SameAttempt
  <2>2. CASE b # a
    <3>1. ResumedFrom(b)' => ResumedFrom(b)
      BY <1>1, <1>2, <2>2 DEF ResumedFrom
    <3> QED BY <2>1, <3>1, UntouchedAccounted
  <2>3. CASE b = a
    <3>1. InPlace(a)' /\ KeepsOutputs(a)' /\ EndsWhole(a)'
      BY <1>1, <1>2, <2>1, <2>3 DEF Accounted, InPlace, KeepsOutputs, EndsWhole
    <3>2. ~Native => ReportIsKnown(a)'
      BY <1>1, <1>4 DEF ReportIsKnown
    <3> QED BY <2>3, <3>1, <3>2 DEF Accounted
  <2> QED BY <2>2, <2>3
<1> QED BY <1>3, <1>5 DEF CompletionInv

\* Users and the clock.
LEMMA UsersComplete ==
    ASSUME Fine, Command \/ \E a \in Attempts : LeaseExpires(a)
    PROVE  CompletionInv'
<1>0. TypeOK /\ 1 \in Attempts /\ Report \in Slots
  BY LedgerAssumption, LedgerFacts DEF Fine, Lifecycle, Attempts
<1>1. UNCHANGED <<workerVars, recovery>> /\ UNCHANGED <<stage, pc, err>>
  BY DEF Command, LeaseExpires, workerVars
<1>2. ASSUME NEW a \in Attempts, Touches(a, Report), art' = art
      PROVE  CompletionInv'
  BY <1>0, <1>1, <1>2, OthersComplete
<1>3. CASE \/ \E to \in {"awaiting_approval", "ready"} : CompleteConfirmation(to)
           \/ \E to \in {"awaiting_approval", "ready", "rejected"} : Approve(to)
           \/ CreatePlanRevision
  <2>1. art' = art
    BY <1>3 DEF CompleteConfirmation, Approve, TransitionTask, CreatePlanRevision
  <2> QED BY <1>0, <1>2, <1>3, <2>1, TaskTouches
<1>4. ASSUME NEW a \in Attempts, CancelExecution(a) \/ CancelPausedExecution(a) \/ LeaseExpires(a)
      PROVE  CompletionInv'
  <2>1. art' = art /\ Touches(a, Report)
    BY <1>0, <1>4, AttemptTouches DEF CancelExecution, CancelPausedExecution, LeaseExpires, LeaseRunsOut
  <2> QED BY <1>2, <2>1
<1> QED BY <1>1, <1>3, <1>4, RetryCompletes DEF Command

-----------------------------------------------------------------------------

\* Nothing is completed at the start.
LEMMA CompletionStarts == EngineInit => CompletionInv
<1> SUFFICES ASSUME EngineInit
             PROVE  CompletionInv
  OBVIOUS
<1> USE SlotKinds, SlotFacts
<1>1. /\ stage \in [Attempts -> Stages] /\ recovery.at = "idle" /\ taskState # "completed"
      /\ \A a \in Attempts : /\ stage[a] = "idle" /\ attemptState[a] = "none"
                             /\ \A n \in Slots : pc[a][n] = "todo" /\ art[a][n] = "none"
  BY IdleFacts DEF EngineInit, Init, Stages
<1>2. TaskInv
  BY <1>1 DEF TaskInv
<1>3. ASSUME NEW a \in Attempts
      PROVE  Accounted(a)
  BY <1>1 DEF Accounted, InPlace, KeepsOutputs, EndsWhole, ReportIsKnown, Holding
<1> QED BY <1>2, <1>3 DEF CompletionInv

\* Every step of the engine keeps the invariant.
LEMMA CompletionSteps ==
    ASSUME Fine, [EngineNext]_vars
    PROVE  CompletionInv'
<1>1. ASSUME NEW a \in Attempts, Work(a)
      PROVE  CompletionInv'
  <2>1. CASE Load(a) \/ Settle(a)
    BY <2>1, LoadCompletes, SettleCompletes
  <2>2. CASE ReportWork(a)
    BY <2>2, ManifestCompletes, ReportCompletes, WithdrawCompletes, CompleteCompletes DEF ReportWork
  <2>3. ASSUME NEW s \in Steps, StepWork(a, s)
        PROVE  CompletionInv'
    BY <2>3, BeginCompletes, RecordSuccessCompletes DEF StepWork
  <2>4. ASSUME NEW n \in Slots, SlotWork(a, n)
        PROVE  CompletionInv'
    BY <2>4, CreateCompletes, SealCompletes, UndoCompletes, RecordFailureCompletes,
       RecordFailureLateCompletes DEF SlotWork
  <2> QED BY <1>1, <2>1, <2>2, <2>3, <2>4 DEF Work
<1>2. CASE Recover
  BY <1>2, CycleCompletes, RecoverArtifactCompletes DEF Recover
<1>3. CASE UNCHANGED vars
  <2>1. UNCHANGED ledgerVars /\ UNCHANGED <<stage, pc, err, recovery>>
    BY <1>3 DEF vars, workerVars
  <2>2. TypeOK /\ 1 \in Attempts
    BY LedgerAssumption DEF Fine, Lifecycle, Attempts
  <2>3. Touches(1, Report) /\ art' = art
    BY <2>1, <2>2, SlotKinds, AttemptTouches DEF ledgerVars
  <2> QED BY <2>1, <2>2, <2>3, SlotKinds, OthersComplete
<1> QED BY <1>1, <1>2, <1>3, CrashCompletes, UsersComplete, ClaimCompletes, PickUpCompletes
        DEF EngineNext

\* Faults are counted.
LEMMA FaultsCounted == EngineSpec => []FaultsInv
<1>1. ASSUME FaultsInv, [EngineNext]_vars
      PROVE  FaultsInv'
  <2>1. /\ \A a, n, to : Goto(a, n, to) => faults' = faults
        /\ \A a, n, to, e : Throw(a, n, to, e) => faults' = faults
        /\ \A a, n, to, e : FaultTo(a, n, to, e) => faults' = faults + 1
        /\ \A next : RecoveryFault(next) => faults' = faults + 1
    BY DEF Goto, Throw, FaultTo, RecoveryFault
  <2>2. ASSUME NEW a \in Attempts, Work(a)
        PROVE  faults' \in {faults, faults + 1}
    <3>1. CASE Load(a) \/ Settle(a)
      BY <3>1 DEF Load, Settle, budgetVars
    <3>2. CASE ReportWork(a)
      BY <2>1, <3>2 DEF ReportWork, BeginManifest, CheckManifest, BeginReport, Review, Compose,
         Transition, ReviewPauses, Publish, Withdraw, Complete, budgetVars
    <3>3. ASSUME NEW s \in Steps, StepWork(a, s)
          PROVE  faults' \in {faults, faults + 1}
      BY <2>1, <3>3 DEF StepWork, BeginStep, BeginReuse, Act, RecordSuccess, RecordAgain, ReadBack,
         Cleanup, Clear, Promote
    <3>4. ASSUME NEW n \in Slots, SlotWork(a, n)
          PROVE  faults' \in {faults, faults + 1}
      BY <2>1, <3>4 DEF SlotWork, Create, Write, Seal, Tidy, Undo, RecordFailure, RecordFailureLate
    <3> QED BY <2>2, <3>1, <3>2, <3>3, <3>4 DEF Work
  <2>3. ASSUME Recover
        PROVE  faults' \in {faults, faults + 1}
    BY <2>1, <2>3 DEF Recover, ListReferences, ListArtifacts, EndCycle, RecoverArtifact
  <2>4. ASSUME Command \/ Crash \/ UNCHANGED vars
        PROVE  faults' = faults
    BY <2>4 DEF Command, Crash, vars, budgetVars
  <2>5. ASSUME NEW a \in Attempts,
               PickUp(a) \/ LeaseExpires(a) \/ \E p \in Plans : Claim(a, p)
        PROVE  faults' = faults
    BY <2>5 DEF PickUp, LeaseExpires, Claim, budgetVars
  <2>6. faults' \in {faults, faults + 1}
    BY <1>1, <2>1, <2>2, <2>3, <2>4, <2>5 DEF EngineNext
  <2> QED BY <1>1, <2>6 DEF FaultsInv
<1>2. EngineInit => FaultsInv
  BY DEF EngineInit, FaultsInv
<1> QED BY <1>1, <1>2, PTL DEF EngineSpec

\* So all of it holds all the time.
LEMMA CompletionInvariant == EngineSpec => []Fine
<1>1. EngineSpec => []Lifecycle
  BY EngineImplementsLedger, LifecycleInvariant, PTL DEF ImplementsLedger
<1>2. Lifecycle /\ EngineInv /\ CompletionInv /\ FaultsInv /\ [EngineNext]_vars
          => CompletionInv'
  BY CompletionSteps DEF Fine
<1>3. Lifecycle /\ EngineInv /\ CompletionInv /\ FaultsInv => Fine
  BY DEF Fine
<1> QED
  BY <1>1, <1>2, <1>3, EngineInvariant, FaultsCounted, CompletionStarts, PTL DEF EngineSpec

\* Whenever the task is completed, its execution is whole: the manifest is sealed,
\* and every step either succeeded and has its sealed output, or is the gap of an
\* optional contributor.  Late workers, lost COMMIT answers, crashes and recovery
\* cycles before and after the completion change nothing of that.
THEOREM CompletedIsWholeAlways == EngineSpec => []CompletedIsWhole
<1>1. Fine => CompletedIsWhole
  BY DEF Fine, CompletionInv, TaskInv, Accounted, EndsWhole, Whole, CompletedIsWhole
<1> QED BY <1>1, CompletionInvariant, PTL

\* The report that a completed task is bound to is sealed and stays so: for a native
\* plan always, even when the worker saw the completing COMMIT fail, and for an
\* editorial plan as long as no query fails and no COMMIT answer is lost, whatever
\* leases run out and processes die.  (The fault is needed: an editorial worker that
\* does not hear of its COMMIT compensates the report of the completed task.)
THEOREM CompletedReportIsSealedAlways ==
    ASSUME Native \/ MaxFaults = 0
    PROVE  EngineSpec => []CompletedReportIsSealed
<1>1. Fine => CompletedReportIsSealed
  BY DEF Fine, CompletionInv, TaskInv, Accounted, EndsWhole, Spared, CompletedReportIsSealed
<1> QED BY <1>1, CompletionInvariant, PTL

\* For an editorial plan, an attempt that another one continues has no sealed
\* report: it was compensated, or invalidated by recovery before a retry was
\* offered, or there was never one.
THEOREM RetriedHasNoReportAlways ==
    ASSUME ~Native
    PROVE  EngineSpec => []RetriedHasNoReport
<1>1. Fine => RetriedHasNoReport
  BY DEF Fine, CompletionInv, Accounted, ReportIsKnown, ResumedFrom, RetriedHasNoReport
<1> QED BY <1>1, CompletionInvariant, PTL
=============================================================================
