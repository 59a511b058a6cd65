# A verification project for the control plane of ai-x-lightweight

The program is a TypeScript monorepo: a user describes a research task, models
draft a plan, people supply inputs, confirm and approve it, and a worker executes
it step by step and publishes a report.  What must never go wrong lies between
PostgreSQL (the *ledger*), the server processes that handle commands, the worker
that holds a lease on an execution attempt, the recovery timers that take over
when a process is gone, and the browsers, file systems and services outside.
This project models that part in TLA+, checks it with TLC and proves the safety
properties that the runs check with TLAPS.

Paths below are relative to the repository; `CP` is `database/control-plane.ts`,
and `ENG`, `ST`, `REC`, `WF` are `lease-execution-engine.ts`, `artifact-store.ts`,
`execution-recovery-service.ts` and `task-workflow.ts` in
`apps/orchestrator-runtime/src/control/`.

## 1. Inventory

| Part | State it keeps | Operations | Talks to | Hard behaviour | What makes it correct |
|---|---|---|---|---|---|
| Execution ledger (CP) | rows of tasks, plan versions, attempts, steps, Artifacts | one transaction per method: claim, heartbeat, record, seal, promote, pause, expire, cancel, retry, complete | PostgreSQL | any caller, in any order, with a token that may be stale | one active attempt; stale callers publish nothing; no retry over unfinished cleanup |
| Execution engine (ENG, execution-scheduler.ts) | in memory: the active version, reusable steps, failures per step | load, waves of steps, manifest, report, completion, pause | ledger, store, actors | steps run concurrently; every query may fail; the answer to a COMMIT may be lost | completed executions are whole; checkpoints survive; failed publications are compensated |
| Artifact store (ST) | files, beside Artifact rows | create, write, seal, read back, quarantine | ledger, file system | file and row change at different times; late writers | what is not sealed is cleaned up |
| Publication group (artifact-publication-group.ts) | the Artifacts of one report | track, compensate, commit | store | compensation itself fails | all or nothing |
| Recovery (REC) | none across cycles | expire leases, list residue, quarantine, invalidate | ledger, store | crashes between its own steps; the old worker is still there | a lost worker is replaced, its residue cleaned |
| Workflow commands (WF) | `control_commands`, claim rows, approval gates | approve, execute, resume, cancel, revise | ledger, engine | repeated and concurrent commands; reads outside the transaction | what runs was approved; one driver per attempt; replies are true |
| Inputs and their gates (control-runtime.ts in agent-api, WF, *-gate-store.ts) | command reservations, input gates, uploads | upload, confirm, reserve, wait, complete, release, invalidate | ledger, store | reservations expire; several confirmations; lost answers of a COMMIT | a plan is confirmed once, with evidence uploaded for it |
| Visual publication (CP, migration 010) | `control_visual_publications` and their members | reserve, begin, stage, seal, complete, settle, recover | ledger | crash between begin and settle; an owner about to commit | whole as evidence, or nothing live is left |
| Zero publication (zero-publication-service.ts, CP) | `control_zero_publications`, nodes of Zero | create, claim, update, complete, fail, recover | external service | a lease on the row, none on the nodes; lost answers | one final node; only the owner ends it |
| Editorial store (editorial-report-store.ts, -pipeline.ts) | lock, reap guard, staging directories, slot | acquire, reap, clean up, publish, release | file system, ledger | processes that die; stale locks; the source moves on | one owner; only it publishes; nothing after a switch |
| Tool calls (lease-execution-engine.ts, tool-retry-policy.ts, tool-adapter.ts, playwright-page-capture-adapter.ts, browser-execution-gate.ts) | scope and tries of a call, the gate's count and queue, browsers | require lease, acquire, launch, pages, close, back off, publish | Chromium, lease, clock | a launch or close that is late or never answered; timers racing slots | browsers are counted; no call over a browser that may live; every call ends |
| Planning and clarification (agent-api server.ts and routes/control-tasks.ts, requirement-refinement-service.ts, control-planning-service.ts, CP) | requirement versions, candidates, clarification commands | create, understand, clarify, plan, persist, select | model, ledger | long model calls between a read and a write; two handlers on one task | answers come from the active requirement; one version per clarification |
| Report composition | none | pure functions of content | engine | content | |
| Evidence, knowledge, skills, runners | none | actors of steps | engine | content | |
| Gold batches, audit, cutover, migrations, API routes, web client | | | | offline, pass-through or display | |

`PROJECT.json` lists the same parts with their status, and the hazards of the
code at the line where each bites, with the property that covers it.

## 2. Modules

| Module | Models | Extends |
|---|---|---|
| `ControlPlane` | the ledger: one action per transaction, called by anybody | |
| `ExecutionAuthority` | the abstract promise: who may execute a task | |
| `ExecutionEngine` | the callers: workers, recovery, users, crashes, faults | `ControlPlane` |
| `TaskCommands` | approve, execute, resume and cancel with idempotency and gates | |
| `InputGates` | uploads and the confirmation that binds them | |
| `VisualPublication` | the transactions on visual publications, called by anybody | |
| `ZeroPublication` | workers, recovery and the nodes of Zero | |
| `EditorialStore` | runs that share a directory: lock, guard, slot | |
| `ToolCalls` | calls of browser Tools, the gate and the life of a Chromium | |
| `Planning` | the planning request, clarifications and the selection | |
| `MC...` | bounds and definitions for TLC, one for each module that is run | the module |
| `ExecutionProofs` | theorems about the ledger and the engine, in four parts | `ExecutionEngine`, TLAPS |
| `TaskCommandsProofs`, `InputGatesProofs`, `VisualPublicationProofs`, `ZeroPublicationProofs`, `EditorialStoreProofs`, `ToolCallsProofs`, `PlanningProofs` | theorems about these modules | the module, TLAPS |

### ControlPlane: the rows and their transactions

The state is the rows of one task.  `taskState`, `version`, `activePlan` and
`currentAttempt` are the columns of `control_tasks`; `attemptState`,
`attemptPlan`, `retryOf`, `failureKind` those of `control_execution_attempts`;
`leaseLive` is `lease_expires_at > now()`, and `LeaseRunsOut` the clock passing it;
a heartbeat that succeeds changes nothing that the model sees.
`row[a][n]` is step row `n` of attempt `a` and `art[a][n]` the Artifact it seals,
file included.  Slots `1..NumSteps` are the plan's steps; the Evidence Manifest
and the report root have the two slots after them.  The secondary Artifacts of a
step are folded into its slot.

A failed row is represented by what later transactions read back of its
`failure_json`: whether it allows a retry, whether it stems from a lost worker, a
lost lease or a failed invalidation, and whether it still carries the
`artifactInvalidationPromotion` marker of a deferred cleanup.

Two behaviours of the transactions are easy to miss and are part of the actions:
a caller that finds its lease expired *pauses the attempt* before it gets its
conflict (`Refused`, `SealRefused`, `PromotionRefused`); and a promotion pauses an
expired attempt in the same transaction in which it promotes.
`TransitionTask` is a compare-and-set without a lease check, as in the code, and
`ClaimExecution` takes the plan from its caller.

Callers are unconstrained here: every action is enabled for every attempt whose
rows allow it.  So the properties hold whatever workers, recovery and users do.
`createPlanVersion` has no caller outside tests and is left out.

### ExecutionEngine: who calls what, and when

A worker is named by its attempt.  `pc[a][n]` is where it stands on slot `n`: the
steps of one wave move concurrently, each through
`todo - act - create - write - seal - record - done` and, after a failure, through
compensation (`undo`), the record of the failure (`fail`, `fail_late`), and the
deferred cleanup (`cleanup`, `clear`, `promote`).  The manifest and the report use the
same publication actions and differ in where a failure goes (`FailAt`).  One action
is one await on the ledger or the store, so everything that can come between two
awaits does.

An actor's failure is `retryable`, `fatal` or, for an optional contributor, `unsound`:
one of integrity or safety, which is recorded like a fatal one and never becomes a gap.

A fault is a query that fails, a COMMIT whose answer is lost (the transaction
happened, the worker sees an error), or a failed invalidation.  `Crash` stops the
process: workers and the recovery cycle go, rows and files stay.
`recovery` is one cycle of the timer: it picks an execution, lists the Artifacts
that succeeded rows refer to, lists residue, and treats it item by item with what
it listed earlier.  Attempts are claimed, cancelled, resumed and revised by
`Claim` and `Command`.

`Native` selects between the two shapes of a plan: native plans seal `skill_result`
per step and one `final_report`; the others seal `skill_output` and a
`report_package`.  Cleanup treats them differently, and so do two of the disagreements of section 5.

### TaskCommands: commands and their records

A request is one HTTP call, with the `pc` of its handler: each read and each
transaction of `WF` is a step, and other requests, the engine (`EngineEnds`), a
revision (`Revise`) and the death of the process (`Crash`) come in between.
`command[kind][k]` is the answered row of a key, `claims[k]` the `execution_claim`
row that lets a repeated `execute` find the attempt of the first, `gates` the
approval rows, unique per gate and version.  `Replay` and `ReplayAgain` are the
lookups before and after the work.  An attempt has only a state here: what the
transactions do to its rows is `ControlPlane`.  A client chooses key, kind, input
and version freely, and may send the same again (`Resend`).

### InputGates: inputs and confirmation

`command[k]` is the `control_commands` row with its reservation, `gate[p]` the
evidence that the gate of plan `p` records, `evidence[e]` the Artifact that upload
`e` seals and `boundTo[e]` the plan it was uploaded for.  The steps of a request are
those of `reserveCommand` and the loop around it: replay, read, prepare, reserve or
wait, work, complete, and on failure release, look up, list and invalidate.
`ExpireReservation` is the clock; a COMMIT may succeed and its answer be lost
(`Complete(r, FALSE)`).

### VisualPublication

Actions are transactions and callers are arbitrary, as in `ControlPlane`: `begin`
and `settle` have no caller outside tests at this commit, and so whoever ever held a
token may call anything.  A publication is named after its token; `grant[t]` is
what the token was issued for, `member[t]` the state of its Artifacts.

### ZeroPublication

`row` is the row, `node[n]` what the external service shows, `receipt` the SEALED
Artifact at the fixed path, `worker[w]` one call of `execute` with the draft it knows.
Calls to Zero take effect, fail, or take effect *and* fail.  Heartbeats keep the
lease, unless `LeaseRunsOut` says they do not: freely for a dead worker, as a fault
for a live one.

### EditorialStore

A run is a process of the command-line tool, one action per await of
`acquireRequestLock`, `tryReap`, `cleanup`, `publish` and `release`.  `lock` may be
half-written (`whole`), `aged` is older than `LOCK_STALE_MS`, `guard` is the reap
guard, `Hidden` are runs whose pid the others cannot see, so that a live owner can be
taken for dead.  `SourceMoves` is the task leaving the report package.

### ToolCalls

One step runs from one await to the next; continuations that run in the same turn
of the event loop are one action (`Release` drains the queue and resumes the next waiter).
`scope[c]` is the step's deadline and abort signal, `browser[r]` the Chromium of try
`r`, `held` the tries that hold a slot and `watched` those whose slot is given back
only when the process is gone.  A launch or close may never be answered.

### Planning

`reqs` are the requirement versions, `task` the task row, `planned` the content that the
stored candidates were made for.  The handler of the planning request (`First`) and
those of clarifications (`Requests`) share the steps `Refine`, `Plan` and `Guide`.  The
model's answer is a choice: a requirement that is open, loose or final, a plan or a
question.

### Abstractions

Left out of the modelled parts: digests, events and audit rows; optional Tools
and chart publication inside a step; pauses before the first step (preflight,
materialization) and `skill_needs_input`, which are one more `PauseExecution`;
the stages of an invocation that are skipped because an earlier one became a gap;
executions without a report package; `completed_with_gaps`, which is the same
transition as `completed`; the model's `reportReview` is present for editorial plans
and absent for native ones.  Content is a member of a small set wherever a
property tells two contents apart, and absent elsewhere.

## 3. Runs

Each run asks one question.  Bounds are constants or constraints with a name.
Deadlock is not checked because each of these systems really may stop: a task is
completed, requests are over, users do nothing.  What must still happen is stated as
liveness.

| Run | Instance | States | Properties |
|---|---|---|---|
| `Ledger` | 1 step, 2 attempts, 2 plans; one slot in use (`MaxUsed`), slots or revisions (`SlotsOrPlans`), approvals of the first plan only | 217,000 | `OneActiveAttempt`, `SupersededIsOver`, `NoRetryOverInvalidation`, `RetryStartsClean`, `StaleCallersAreFenced`, `ImplementsAuthority` |
| `EngineWave` | a required Tool step and an optional one in one wave, 1 fault, 1 crash, fairness | 174,000 | `CompletedIsWhole`, `CheckpointsSurvive`, `ImplementsLedger`, `LostWorkerIsReplaced`, `ResidueIsCleaned`, `LostReportIsInvalidated` |
| `EngineRetry` | 1 step, 2 attempts, 1 fault, no approval, nothing claimed after a cancellation | 851,000 | `RetriedHasNoReport` |
| `EngineNative` | native, 2 steps in series, 2 plans, 2 faults, 1 crash, approvals | 361,000 | `CompletedReportIsSealed` |
| `Commands` | 3 requests, 2 keys, 2 gates, 2 attempts, up to version 5, symmetry | 490,000 | `ReadyIsApproved`, `ApprovalsAdvanceOnce`, `OneDriver`, `AnswersStandAndAreTrue` |
| `InputCommands` | 1 upload, 2 confirmations under 2 keys, 2 revisions, crashes, fairness | 16,000 | `ConfirmedByOneCommand`, `EvidenceBelongsToPlan`, `AnswersAreTrue`, `EveryRequestEnds` |
| `VisualLedger` | 2 keys, 3 reservations, 1 revision, fairness | 42,000 | `AllOrNothing`, `SettledForGood`, `LiveIsLeftAlone`, `EveryPublicationSettles` |
| `ZeroLedger` | 3 workers, 4 nodes, 2 faults, fairness | 77,000 | `OnePublishedNode`, `OnlyOwnerEnds`, `EveryRunEnds` |
| `EditorialSlot` | 3 runs, one of them hidden | 1,000,000 | `OneOwner`, `PublishedByOwner`, `NothingAfterSwitch` |
| `ToolCalls` | 3 calls, one tried twice, 1 slot, queue of 2, fairness | 390,000 | `BrowsersAreCounted`, `NoWaitForFreeSlot`, `GoneBeforeGoingOn`, `NothingNewOnceStopped`, `EveryCallEnds` |
| `Clarify` | planning request, 2 clarifications, 2 keys, 1 selection, 3 requirement versions, 1 lost answer, fairness | 612,000 | `ClarifiedPlanIsActive`, `AppliedOnce`, `EveryRequestEnds` |
| `StuckRetry` | the smallest instance that shows a disagreement | | `RetryBecomesPossible`, violated |

Types are proved rather than checked, for every module; the state that `ExecutionEngine`
adds to the ledger is typed by `EngineInv` and `TaskInv`.

Why the bounds suffice.  *Ledger*: two attempts are what a retry relates; a third
one repeats the relation.  One slot at a time is enough because no transaction but the
pause, the retry check and the terminal invalidation looks at more than one slot,
and these are covered for every number of slots by the proofs.  *Engine*: a wave of
two steps has one that fails and one that goes on.  One fault reaches the second try
of recording a success, two the read-back.  One crash suffices as the state after it
(ended worker, rows as they are) is the state that recovery starts from.
Steps are reused from a second attempt on, which `EngineWave` has not: that a completed
execution is whole with reuse is shown by the proof alone (`CompletedIsWholeAlways`).
`MaxVersion` bounds the approvals that leave others open, which only advance the
version.  *Commands*: three requests are one that acts, one that repeats it and one
that moves the task in between; plans with gates and executions are looked at apart
(`GatedOrRun`), as an approval touches no attempt.  *InputCommands*: two confirmations
and one upload are the parties to every race over a binding; revisions make two plans
for it to belong to.  *VisualLedger*: three tokens on two keys are an owner, a
successor on its key and a rival.  *ZeroLedger*: an owner, a successor, and a third
that is behind both; two faults lose an answer and a lease.  *EditorialSlot*: a dead
owner and two reclaimers.  *ToolCalls*: one call holds the slot and two wait, so that one
may be passed over; the branch of `Acquire` that finds the queue full needs a fourth
call and gives the capacity error that `QueueTimer` gives.  *Clarify*: two clarifications, under
one key or two, beside the planning request; while that one runs, one other
(`FirstOrMore`).  Theorems remove these bounds wherever section 4 lists one.

Each property of a passing run has a mutant, an operator defined just before the
definition it replaces: what a plausible slip in that code would do.  They are
marked `Mutant of` in the modules and are used nowhere else.

### Fairness

- Engine (`EngineFairness`): weak fairness of each worker (an async function whose
  awaits settle) and of the recovery cycle, strong fairness of picking up each
  execution (a cycle handles every execution it lists; the model's cycle handles one),
  and a lease nobody renews runs out.
- Inputs and planning: a live handler takes its next step and a reservation expires.  A
  handler that died takes none.
- Visual publications: the recovery timer runs and reservations expire; callers may
  stop anywhere.
- Zero: live workers step, the recovery timer runs, and the lease of a *dead* worker runs
  out.
- Tool calls: the process runs its continuations and deadlines pass.  Neither a launch nor
  a close is ever sure to be answered.
- Commands and the editorial store state no liveness: an engine may work for ever, and a
  guard left by a crash stays until an operator removes it, by design.

Users need not do anything, and faults, crashes and failures are never forced.

## 4. Proofs

The theorems hold for every value of the constants: any number of steps, attempts,
plans, requests, keys, workers, runs, faults and crashes.  They rest on the named
assumptions `LedgerAssumption`, `EngineAssumption`, `CommandAssumption`,
`InputAssumption`, `PublicationAssumption`, `ZeroAssumption`, `StoreAssumption`,
`CallsAssumption` and `PlanningAssumption`, which say what the constants are; where a
theorem needs a hypothesis on a constant besides, the table names it.

| Module | Theorem | States |
|---|---|---|
| `ExecutionProofs` | `TypeCorrect` | `Spec => []TypeOK` |
| | `OneActiveAttemptAlways`, `SupersededIsOverAlways` | the lifecycle of attempts |
| | `StaleCallersAreFencedAlways` | `Spec => StaleCallersAreFenced` |
| | `NoRetryOverInvalidationAlways`, `RetryStartsCleanAlways` | the two retry properties |
| | `LedgerImplementsAuthority` | `Spec => ImplementsAuthority` |
| | `EngineImplementsLedger` | `EngineSpec => ImplementsLedger`, that is `EngineSpec => Spec` |
| | `EngineKeepsLedgerPromises` | all of the above, typing aside, of `EngineSpec` |
| | `CheckpointsSurviveAlways` | `EngineSpec => []CheckpointsSurvive` when `~Native` |
| | `CompletedIsWholeAlways` | `EngineSpec => []CompletedIsWhole` |
| | `CompletedReportIsSealedAlways` | `EngineSpec => []CompletedReportIsSealed` when `Native \/ MaxFaults = 0` |
| | `RetriedHasNoReportAlways` | `EngineSpec => []RetriedHasNoReport` when `~Native` |
| `TaskCommandsProofs` | `CommandsTypeCorrect`, `ReadyIsApprovedAlways`, `OneDriverAlways`, `ApprovalsAdvanceOnceAlways`, `AnswersStandAndAreTrueAlways` | typing and all properties of `Commands` |
| `InputGatesProofs` | `InputsTypeCorrect`, `ConfirmedByOneCommandAlways`, `EvidenceBelongsToPlanAlways`, `AnswersAreTrueAlways` | typing and all safety of `InputCommands` |
| `VisualPublicationProofs` | `PublicationTypeCorrect`, `AllOrNothingAlways`, `SettledForGoodAlways`, `LiveIsLeftAloneAlways` | typing and all safety of `VisualLedger` |
| `ZeroPublicationProofs` | `ZeroTypeCorrect`, `OnePublishedNodeAlways`, `OnlyOwnerEndsAlways` | typing and all safety of `ZeroLedger` |
| `EditorialStoreProofs` | `StoreTypeCorrect`, `OneOwnerAlways`, `PublishedByOwnerAlways`, `NothingAfterSwitchEver` | typing and all properties of `EditorialSlot` |
| `ToolCallsProofs` | `TypeCorrect`, `Counted`, `NoneWaitsInVain`, `NoTryOverABrowser`, `StoppedForGood` | typing and all safety of `ToolCalls` |
| `PlanningProofs` | `TypeCorrect`, `CandidatesAreCurrent`, `OneVersionPerBody` | typing and all safety of `Clarify` |

*The life of an attempt.*  `OneActiveAttempt` is not inductive: a claim could
pick up the attempt that another one continues, and a retry could find its attempt
active.  `Lifecycle`, its conjunction with `TypeOK` and `SupersededIsOver`, is: an
executing task runs its current attempt and no other, an attempt that another one
continues is over and is not current, so that a claim always starts from an attempt that
stopped.  `LifecycleStep` has one step per transaction.

*Retries.*  Both retry properties speak of an attempt that was left behind, and
what must be shown is that nothing dirties such an attempt any more
(`CleanlyResumed`).  By `ResumedIsOver` it neither runs nor is it what a paused task waits
for, so no row of it changes and no Artifact of it comes to life: what the retry check
saw stays true.  At the retry itself the check gives the property: directly for
`Residue`; for the rows by `NoRetryWhileInvalidating`, where the lowest of the
invalidation rows (the least-number principle) is the authoritative one and offers no
retry.

*Refinement.*  The refinement maps the active attempts to holders and the claimed
ones to spent; every transaction is a step of `ExecutionAuthority` or a stutter.

*The engine on top of the ledger.*  That each action of the engine is one transaction of
the ledger, or none, needs to know what the engine holds in memory: the failure that a
worker is about to record must be one that a row can hold, and a recovery cycle
must be about an attempt.  `EngineInv` says so; the lemmas named `...Sound` take the
actions in groups.  Composed with the ledger's theorems this gives
`EngineKeepsLedgerPromises`.

*Checkpoints.*  A sealed output is invalidated by its worker and by recovery, in
transactions that check no lease.  `CheckpointInv` ties both to the row.  The worker
(`WorkerInv`): as long as `pc` stands before the record of the success (`Unrecorded`) the row
is not succeeded, and where it may record it (`Recording`) an attempt that is still
active has its output sealed; the read-back after a lost answer is the
place in neither set, and leads to cleanup only by way of a failure row, which a
succeeded row never becomes.  Recovery (`CycleInv`): its attempt has stopped, so no step of
it succeeds any more, and the references it listed are still right when it acts on
them.  All other transactions are `Harmless`.  Native plans are excluded because
`Withdraw` takes the outputs of succeeded steps there (section 5).

*Completion.*  `CompletionInv` follows a worker from its first slot to the report, one attempt
at a time.  The slots come in order (`InPlace`).  While the attempt is active and its report
may still be completed, what was published is there (`KeepsOutputs`): this is the
hypothesis under which `completeExecution` makes the attempt whole.  After completion it
stays whole (`EndsWhole`), since a worker that is still at work then does not know that its
COMMIT went through, stands at the failure of its report, and compensates nothing but that
report.  A report that is sealed although the attempt has stopped is on record as a failed
invalidation before anybody may continue it (`ReportIsKnown`), unless the worker was lost,
and then the retry check sees it; so no retried attempt has one.  The steps of the
proof are grouped by what they can disturb: a move of a worker changes one slot
(`Shifts`) and keeps the invariant if the move is `Legal`, which speaks of that slot and
its neighbours only; a transaction changes one attempt (`Touches`).  That the
report itself stays sealed holds for native plans, which never compensate it, and for
the others without faults (`Spared`); with a fault it does not hold, see section 5.
`RetriedHasNoReport` does not hold of native plans, since a scan leaves their reports
alone, see there too.

*Commands.*  `OneDriver` and the truth of replies speak of several requests and of
rows that other requests wrote; neither is inductive.  `IInv` adds that a `pc` tells the
command kind (`KindsMatch`), that a version stands for one plan (`Sighted`), so that
what a request read is what it was approved for (`Decided`, `PlanApproved`), that
attempts are claimed in order and only the last may run (`Numbered`,
`DrivenIsClaimed`), and that the version an approval answered is a token that no
later approval can get (`AdvancedOnce`).  `Truth` says of each `pc` what its handler
knows of the rows it will answer from.

*Inputs.*  A confirmation commits only under its own live reservation and the version
it read: `Counted` bounds plans by versions, `Sent` ties a request to the key and hash
it reserved, `ConfirmedHolds` ties the confirmed plan to the command on record, and
`GateHolds` and `YesHolds` tie the gate and the answers to that command.  `UploadHolds` is the same
for uploads, whose own cleanup must not touch what their COMMIT made durable.

*Visual publications.*  `MemberFollows` says which states of the members go with which
state of a publication, and `GatesFollow` that gates and committed publications are one
to one; `Issued` and `Bounded` give the tokens and versions that this needs.

*Zero.*  Only the node of the receipt carries the final name (`FinalIsReceipt`), and the
receipt at its path never changes once it is there.  That each worker, also one without the
lease, finalizes this node needs `WorkerKnows`; that the row names it, `OwnerMatches` and
`RowNamesReceipt`.  `OnlyOwnerEnds` follows from `Holds`.

*Editorial store.*  What was compared under the guard stays true under it
(`GuardHeld`, `PublisherHasLock`): the lock that a reclaimer is about to move is whole and
of nobody who works (`MovedIsStale`), so that a run whose pid the others see keeps its
lock while it works (`WorkerHasLock`).

*Tool calls.*  All properties speak of slots and browsers, which belong to tries, and of
calls, which know where they are: `SlotInv` says for each try whether its slot is
held, its browser up and its end watched, by the `pc` of its call.  A slot is
given back by its call or by the watch, never by both, and only a call that has failed or
stopped leaves a browser behind; so the next try of a call starts over none.
`GateInv` makes the count of the gate the number of held slots; a call waits
only while all are held (`NoWaitForFreeSlot`), because whoever releases one drains the queue in the
same turn.  `QueueInv` has each waiter in the queue once; its lemmas are about removing
an element of a sequence without repetitions.  `TriesInv` bounds the tries, so that
`NothingNewOnceStopped` follows.

*Planning.*  As long as a task can be clarified its version counts its requirements
(`VersionInv`), so that a persist under a version is one under a requirement.
`MadeByInv` puts the requirement that a body made where the body expected it, from
which `AppliedOnce` follows.  `HandlerInv` says what each handler read that is still
true: `MayPlan` is what a handler under key `k` may plan, the requirement that was made
for its body or the direction that it confirms.  Requirements, bodies
and answers only grow (`Grows`), which carries this over the steps of all others.

Only model-checked: liveness (`LostWorkerIsReplaced`, `ResidueIsCleaned`,
`LostReportIsInvalidated`, both of the name `EveryRequestEnds`, `EveryPublicationSettles`,
`EveryRunEnds`, `EveryCallEnds`), which rests on fairness and so on ENABLED, out of this prover's reach;
and that `StuckRetry` is violated.  Every safety property of a passing run is proved.

## 5. Disagreements

`StuckRetry` is a run: a worker lost between the staging row and the file leaves a
quarantine that never ends (`ST` 418 finds nothing to move and keeps the row pending); the
retry that the row offers is refused for ever.

### Disagreements without a run

Each is stated by a definition of the module named, which no run checks: the code
violates it.  All were found as TLC counterexamples on small instances.

- `ExecutionEngine`, `LostReportIsInvalidated` with `Native`: recovery (`CP` 1968) does not list
  `final_report`; a native worker lost before completing leaves its report sealed.
- `ExecutionEngine`, `CompletedReportIsSealed` with faults and without `Native`:
  `completeExecution` has no read-back (`ENG` 4455-4466): when its COMMIT went through and the answer
  was lost, the report of the completed task is compensated.  Without faults it holds,
  `CompletedReportIsSealedAlways`.
- `ExecutionEngine`, `NoUnpublishedOutput`: an optional contributor becomes a gap (`ENG` 3315) before its
  deferred cleanup, and its sealed output stays.
- `InputGates`, `ConfirmedEvidenceSealed`: a confirmation that fails releases its reservation (`WF`
  931) and only then invalidates the uploads it bound (968), although another may have
  committed them meanwhile.
- `TaskCommands`, `RejectionStops`: `approve` records a rejection, lists gates and transitions in
  three steps (`WF` 994-1015); a rejection whose transition lost its version stays without effect, and the
  approvals of the others make the task ready.  The migration guide (line 95) has any rejection reject.
- `TaskCommands`, `ApprovedIsReady`: two approvers at the same version can leave everything approved
  and the task waiting; nobody is offered the approval again.
- `ZeroPublication`, `OneDraft`: a draft made by a worker that dies before it saves the id
  (`zero-publication-service.ts` 572-577) is not searched for, and the next worker makes another, although
  the plan for Zero (line 81) excludes duplicates.
- `ZeroPublication`, `PublishedInTheEnd` under `RetrySpec`: a row that keeps a removed draft, or a
  sealed receipt that it does not record (686-719), fails every later try.
- `ZeroPublication`, `CompletedIsVisible`: the catch block (737) of a slow worker removes the node that its
  successor published.
- `Planning`, `RefusedForACause`: when guidance is asked for
  (`requirement-refinement-service.ts` 780-799), or the refined requirement is a loose one, the candidates of a
  clarification are refused (`CP` 1362, 1441) though nothing moved, whereas
  `tests/requirement-refinement-service.test.ts` 515 says that blocking issues proceed to planning.
- `Planning`, `PlannedFromActive`: the planning request reads the task again after its
  model call (`server.ts` 112-127) and persists at the version it finds, which a clarification may have
  made: candidates of the first requirement stand over the second.  A clarification that only
  confirms the chosen direction again (`requirement-refinement-service.ts` 780-799) makes no
  version and plans the requirement that it read; when another one made the next version meanwhile,
  its candidates pass the check of the version (`CP` 1361), which was read again, and
  stand over that requirement (three requests under three keys; `Clarify` has two).
  `ClarifiedPlanIsActive` therefore excepts it (`Confirms`).  Likewise
  `failIncompletePlanningTask` (70-83) fails a task whose clarification runs.  The
  design (line 48) has changed answers make new requirement and plan versions.
- `EditorialStore`: the comment at `editorial-report-store.ts` 1298-1304 calls the fence the
  last awaited predicate before the rename; two reads of files follow it.  `NothingAfterSwitch` therefore
  speaks of runs that had not passed the fence.

### Observed

- On the native path a conflict at completion withdraws the outputs of *succeeded*
  steps, which a retry then runs again, although the design (line 49) has retries keep them.
  `CheckpointsSurvive` is therefore stated for editorial plans.
- `claimExecution` does not compare the plan it is given with the active plan; the
  workflow does, outside the transaction.
- An `execute` that is repeated with the key of one that never finished is refused
  as "still in progress" for good.
- A worker that dies in a *cancelled* task leaves residue that no scan lists: the
  attempt has no `failure_kind`.
- A lease lost while the manifest is published allows an abort only
  (`lease_lost_final`), where a lost step allows a retry.
- A crash under the reap guard leaves it for good; the development guide (line 2338)
  has an operator remove it.

## 6. Not modelled

- *Report composition, evidence, knowledge, skills, runners, planners' and models' content*: pure functions
  of text or answers of models; no protocol between actors, and whether their results are published is modelled.
- *Gold batches, audit packages, cutover, migrations, API routes, web client*: offline, run once, pass-through, or
  display; the parts of routes that order calls belong to `InputGates`, `Planning` and `TaskCommands`.
- *In modelled parts*: the cleanup of a worker in a cancelled task (`CP` 5151), the artifact reconciliation that
  only tests call, the path walk and fsync order of the store, failure diagnostics of the editorial store, HTTP
  Tool adapters and the pages of a browser, retries of model calls, several input roles and waivers,
  several publications and targets of Zero, conversation messages, capability resolution.

## 7. Plan

1. The abstract promise of a fenced publication, implemented by `ControlPlane`,
   `ZeroPublication` and `EditorialStore` alike, and its refinement proved.
2. `ArtifactStore`: file system and rows as two states, the paths of a file (live,
   quarantine), and the reconciliation.
3. `Scheduler`: waves and reuse as functions, against a reference definition.
4. `NoUnpublishedOutput` of workers whose contributors are all required, which needs what
   the deferred cleanup leaves behind.
