--------------------------- MODULE ZeroPublication ---------------------------
(***************************************************************************)
(* One publication of a completed report to the design tool Zero           *)
(* (zero-publication-service.ts) and its row in control_zero_publications. *)
(*                                                                         *)
(* A worker is one call of ZeroPublicationService.execute, made by the     *)
(* POST route or by the recovery timer.  The row is fenced by a lease; the *)
(* nodes in Zero are not: an external call takes effect or fails, and it   *)
(* may take effect and still fail, when its answer is lost or too late.    *)
(***************************************************************************)
EXTENDS Naturals, FiniteSets

CONSTANTS
    Workers,    \* calls of execute at a time; each claims under its own token
    MaxNodes,   \* bound on nodes of Zero that are in use at a time
    MaxFaults   \* bound on crashes, external failures and leases that run out

Nodes == 1 .. MaxNodes
NoOne == "nobody"      \* no lease_owner

ASSUME ZeroAssumption ==
    MaxNodes \in Nat \ {0} /\ MaxFaults \in Nat /\ NoOne \notin Workers

VARIABLES
    row,      \* status, owner, live, draft, receipt and final of the row
    node,     \* node[n]: what Zero shows of node n
    receipt,  \* the root named by the receipt Artifact SEALED at its path, or 0
    worker,   \* worker[w]: local state
    faults    \* faults so far

vars == <<row, node, receipt, worker, faults>>

Idle == [pc |-> "idle", draft |-> 0]

Init ==
    /\ row = [status |-> "none", owner |-> NoOne, live |-> FALSE,
              draft |-> 0, receipt |-> 0, final |-> 0]
    /\ node = [n \in Nodes |-> "none"]
    /\ receipt = 0
    /\ worker = [w \in Workers |-> Idle]
    /\ faults = 0

-----------------------------------------------------------------------------
Go(w, pc)  == worker' = [worker EXCEPT ![w].pc = pc]
Throw(w)   == Go(w, "catch")
Fault      == faults < MaxFaults /\ faults' = faults + 1
NoFault    == UNCHANGED faults

\* Mutant of Holds: any worker may write while the publication runs.
HoldsAnyone(w) == row.status = "running" /\ row.live /\ w \in Workers

\* The condition of updateZeroPublication, heartbeat and complete.
Holds(w) == row.status = "running" /\ row.owner = w /\ row.live

\* A step that only writes the row, or nothing when the lease is lost.
Update(w, from, to, r) ==
    /\ worker[w].pc = from
    /\ IF Holds(w) THEN Go(w, to) /\ row' = r ELSE Throw(w) /\ UNCHANGED row
    /\ NoFault
    /\ UNCHANGED <<node, receipt>>

\* An external call that fails without effect.
Fails(w, from) ==
    /\ worker[w].pc = from /\ Throw(w) /\ Fault
    /\ UNCHANGED <<row, node, receipt>>

-----------------------------------------------------------------------------
(* Starting a worker.                                                      *)

\* createZeroPublication: the row is made, or a failed one is queued again,
\* with what it knows of its draft and its receipt.
CreateZeroPublication ==
    IF row.status \in {"none", "failed"} THEN row' = [row EXCEPT !.status = "queued"]
    ELSE UNCHANGED row

\* A token is never used twice: a slot is free when no row names it.
Free(w) == worker[w].pc = "idle" /\ row.owner # w

\* POST, always with the same Idempotency-Key.
Post(w) ==
    /\ Free(w) /\ row.status # "completed"
    /\ CreateZeroPublication
    /\ Go(w, "claim")
    /\ UNCHANGED <<node, receipt, faults>>

Expired == row.status = "running" /\ ~row.live

\* Mutant of RecoverExpired: only queued publications are picked up.
RecoverQueued(w) ==
    /\ Free(w) /\ row.status = "queued" /\ Go(w, "claim")
    /\ UNCHANGED <<row, node, receipt, faults>>

\* The recovery timer lists the expired publications and executes them.
RecoverExpired(w) ==
    /\ Free(w) /\ Expired /\ Go(w, "claim")
    /\ UNCHANGED <<row, node, receipt, faults>>

MayClaim == row.status = "queued" \/ Expired

\* claimZeroPublication, and where execute goes on from: a draft that has its
\* receipt is finalized, another one is removed and made anew.
Claim(w) ==
    /\ worker[w].pc = "claim"
    /\ IF MayClaim
       THEN /\ row' = [row EXCEPT !.status = "running", !.owner = w, !.live = TRUE]
            /\ worker' = [worker EXCEPT ![w] =
                 [pc |-> IF row.draft = 0 THEN "render"
                         ELSE IF row.receipt # 0 THEN "finalize" ELSE "clean",
                  draft |-> row.draft]]
       ELSE worker' = [worker EXCEPT ![w] = Idle] /\ UNCHANGED row
    /\ UNCHANGED <<node, receipt, faults>>

-----------------------------------------------------------------------------
(* The stages of execute.                                                  *)

Removed(n) == [node EXCEPT ![n] = "removed"]

\* cleanupDraft of a draft that an earlier worker left.
CleanOldDraft(w) ==
    /\ worker[w].pc = "clean"
    /\ \/ worker' = [worker EXCEPT ![w] = [pc |-> "render", draft |-> 0]] /\ NoFault
       \/ Throw(w) /\ Fault
    /\ node' = Removed(worker[w].draft)
    /\ UNCHANGED <<row, receipt>>

\* reading_report, transcoding_images, rendering_html.
Render(w) == Update(w, "render", "create", row)

InUse(n) ==
    \/ node[n] \in {"draft", "final"} \/ n \in {row.draft, row.receipt, row.final, receipt}
    \/ \E w \in Workers : worker[w].draft = n

\* createHtmlDraft: the worker learns the node's id only from the answer.
CreateDraft(w) ==
    /\ worker[w].pc = "create"
    /\ \E n \in Nodes :
         /\ ~InUse(n) /\ \A m \in 1 .. n - 1 : InUse(m)
         /\ node' = [node EXCEPT ![n] = "draft"]
         /\ \/ worker' = [worker EXCEPT ![w] = [pc |-> "save", draft |-> n]] /\ NoFault
            \/ Throw(w) /\ Fault
    /\ UNCHANGED <<row, receipt>>

SaveDraft(w) == Update(w, "save", "fill", [row EXCEPT !.draft = worker[w].draft])

\* writing_images to capturing_screenshots, under heartbeats: all of it needs
\* the node, and the lease.
Fill(w) ==
    /\ worker[w].pc = "fill"
    /\ Go(w, IF node[worker[w].draft] = "draft" /\ Holds(w) THEN "receipt" ELSE "catch")
    /\ UNCHANGED <<row, node, receipt, faults>>

\* writeJson: no second live Artifact at publications/zero/<publication id>.json.
WriteReceipt(w) ==
    /\ worker[w].pc = "receipt"
    /\ IF receipt = 0 THEN receipt' = worker[w].draft /\ Go(w, "record")
       ELSE Throw(w) /\ UNCHANGED receipt
    /\ UNCHANGED <<row, node, faults>>

RecordReceipt(w) == Update(w, "record", "finalize", [row EXCEPT !.receipt = receipt])

\* finalizeDraft gives the node its final name; doing it again changes nothing.
Finalize(w) ==
    /\ worker[w].pc = "finalize"
    /\ IF node[worker[w].draft] \in {"draft", "final"}
       THEN /\ node' = [node EXCEPT ![worker[w].draft] = "final"]
            /\ \/ Go(w, "complete") /\ NoFault
               \/ Throw(w) /\ Fault
       ELSE Throw(w) /\ UNCHANGED node /\ NoFault
    /\ UNCHANGED <<row, receipt>>

\* completeZeroPublication; its error leaves execute past the catch block.
Complete(w) ==
    /\ worker[w].pc = "complete"
    /\ row' = IF Holds(w) /\ row.receipt # 0
              THEN [row EXCEPT !.status = "completed", !.owner = NoOne, !.live = FALSE,
                               !.final = worker[w].draft]
              ELSE row
    /\ worker' = [worker EXCEPT ![w] = Idle]
    /\ UNCHANGED <<node, receipt, faults>>

\* The catch block removes the draft that the worker knows of.
CatchCleanup(w) ==
    /\ worker[w].pc = "catch" /\ Go(w, "fail")
    /\ \/ worker[w].draft # 0 /\ node' = Removed(worker[w].draft) /\ NoFault
       \/ worker[w].draft # 0 /\ UNCHANGED node /\ Fault
       \/ worker[w].draft = 0 /\ UNCHANGED node /\ NoFault
    /\ UNCHANGED <<row, receipt>>

\* Mutant of MayFail: the owner is not compared.
MayFailAnyone(w) == row.status \in {"queued", "running"} /\ w \in Workers

MayFail(w) == row.status = "running" /\ row.owner = w

\* failZeroPublication, also with an expired lease, unless another took over.
Fail(w) ==
    /\ worker[w].pc = "fail"
    /\ row' = IF MayFail(w)
              THEN [row EXCEPT !.status = "failed", !.owner = NoOne, !.live = FALSE]
              ELSE row
    /\ worker' = [worker EXCEPT ![w] = Idle]
    /\ UNCHANGED <<node, receipt, faults>>

-----------------------------------------------------------------------------
Working(w) == worker[w].pc # "idle"

\* The process of w dies.
Crash(w) ==
    /\ Working(w) /\ worker' = [worker EXCEPT ![w] = Idle] /\ Fault
    /\ UNCHANGED <<row, node, receipt>>

\* Sixty seconds without a heartbeat; it is a fault when the owner is at work,
\* for then a single call of its took that long.
LeaseRunsOut ==
    /\ row.status = "running" /\ row.live
    /\ row' = [row EXCEPT !.live = FALSE]
    /\ IF \E w \in Workers : row.owner = w /\ Working(w) THEN Fault ELSE NoFault
    /\ UNCHANGED <<node, receipt, worker>>

Step(w) ==
    \/ Claim(w) \/ CleanOldDraft(w) \/ Fails(w, "clean")
    \/ Render(w) \/ Fails(w, "render")
    \/ CreateDraft(w) \/ Fails(w, "create") \/ SaveDraft(w)
    \/ Fill(w) \/ Fails(w, "fill")
    \/ WriteReceipt(w) \/ Fails(w, "receipt") \/ RecordReceipt(w)
    \/ Finalize(w) \/ Fails(w, "finalize") \/ Complete(w)
    \/ CatchCleanup(w) \/ Fail(w)

Next ==
    \/ \E w \in Workers : RecoverExpired(w) \/ Post(w) \/ Step(w) \/ Crash(w)
    \/ LeaseRunsOut

Spec == Init /\ [][Next]_vars

\* Workers work, time passes and the recovery timer runs.
Fairness ==
    /\ \A w \in Workers : WF_vars(Step(w))
    /\ WF_vars(\E w \in Workers : RecoverExpired(w))
    /\ WF_vars(LeaseRunsOut /\ NoFault)

FairSpec == Spec /\ Fairness

\* The user, besides, sends a failed or queued publication again.
RetrySpec ==
    FairSpec /\ WF_vars(\E w \in Workers : Post(w) /\ row.status \in {"none", "failed", "queued"})

-----------------------------------------------------------------------------
TypeOK ==
    /\ row \in [status : {"none", "queued", "running", "completed", "failed"},
                owner : Workers \cup {NoOne}, live : BOOLEAN,
                draft : Nodes \cup {0}, receipt : Nodes \cup {0}, final : Nodes \cup {0}]
    /\ (row.owner # NoOne) = (row.status = "running")      \* CHECK of migration 014
    /\ node \in [Nodes -> {"none", "draft", "final", "removed"}]
    /\ receipt \in Nodes \cup {0}
    /\ worker \in [Workers -> [draft : Nodes \cup {0},
         pc : {"idle", "claim", "clean", "render", "create", "save", "fill", "receipt",
               "record", "finalize", "complete", "catch", "fail"}]]
    /\ faults \in 0 .. MaxFaults

\* However many workers take over from one another and draw a draft each, at
\* most one node of Zero ever carries the report's final name, and a completed
\* publication has the receipt of the very node it published (execute, update).
OnePublishedNode ==
    /\ Cardinality({n \in Nodes : node[n] = "final"}) <= 1
    /\ row.status = "completed" => row.receipt = row.final /\ receipt = row.final

\* A worker that lost its lease takes nothing from the one that has it now:
\* only the owner of the row, or time, ends what runs.
OnlyOwnerEnds ==
    [][ \A w \in Workers : row.status = "running" /\ row.owner = w /\ row.live
          => row'.owner = w \/ worker'[w].pc = "idle" ]_vars

\* A publication that runs ends, although its workers may die: the timer takes
\* over (recoverExpired).
EveryRunEnds == row.status = "running" ~> row.status \in {"completed", "failed"}

\* docs/plans/2026-08-20-zero-report-publication-development.md, section 5:
\* the same key makes no second draft; once nobody is at work Zero has one
\* node of the publication at most.
OneDraft ==
    (\A w \in Workers : ~Working(w)) /\ row.status = "completed" =>
        Cardinality({n \in Nodes : node[n] \in {"draft", "final"}}) <= 1

\* Section 4: a completed publication is a manuscript in Zero.
CompletedIsVisible == row.status = "completed" => node[row.final] = "final"

\* Section 18.2 and the test of a retried publication: with faults over and
\* the user trying again, the publication completes.
PublishedInTheEnd == <>(row.status = "completed")

=============================================================================
