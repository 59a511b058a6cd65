----------------------- MODULE ZeroPublicationProofs -----------------------
(***************************************************************************)
(* Theorems of ZeroPublication, for any workers, nodes and faults.         *)
(*                                                                         *)
(* The invariant: the receipt is written once, and the row names it only   *)
(* together with the draft it was written for; the worker that owns the    *)
(* row works on the row's draft; and every worker that may finalize, owner *)
(* or not, works on the node of the receipt.                               *)
(***************************************************************************)
EXTENDS ZeroPublication, FiniteSetTheorems, TLAPS

USE ZeroAssumption DEF Nodes

Stages == {"idle", "claim", "clean", "render", "create", "save", "fill", "receipt",
           "record", "finalize", "complete", "catch", "fail"}

\* The parts of the type invariant.
RowTyped ==
    /\ row \in [status : {"none", "queued", "running", "completed", "failed"},
                owner : Workers \cup {NoOne}, live : BOOLEAN,
                draft : Nodes \cup {0}, receipt : Nodes \cup {0}, final : Nodes \cup {0}]
    /\ (row.owner # NoOne) = (row.status = "running")

NodeTyped == node \in [Nodes -> {"none", "draft", "final", "removed"}]

WorkerTyped == worker \in [Workers -> [draft : Nodes \cup {0}, pc : Stages]]

RestTyped == receipt \in Nodes \cup {0} /\ faults \in 0 .. MaxFaults

\* What the row records: the receipt at its path, of the row's own draft.
RowNamesReceipt ==
    row.receipt # 0 => row.receipt = receipt /\ row.draft = row.receipt

\* What a worker knows of the receipt, whether or not it has the lease.
WorkerKnows ==
    \A w \in Workers :
        /\ worker[w].pc \in {"record", "finalize", "complete"} =>
             worker[w].draft = receipt /\ receipt # 0
        /\ worker[w].pc \in {"save", "fill", "receipt"} => worker[w].draft # 0

\* The owner's draft is the row's, until the owner makes a new one.
OwnerMatches ==
    \A w \in Workers : row.status = "running" /\ row.owner = w =>
        /\ worker[w].pc \in {"clean", "render", "create", "save", "fill", "receipt", "record"} =>
             row.receipt = 0
        /\ worker[w].pc \in {"fill", "receipt", "record"} => row.draft = worker[w].draft
        /\ worker[w].pc \in {"finalize", "complete"} => row.receipt # 0

\* Only the node of the receipt carries the final name.
FinalIsReceipt == \A n \in Nodes : node[n] = "final" => n = receipt

CompletedMatches ==
    row.status = "completed" => row.receipt # 0 /\ row.receipt = row.final

Inv ==
    /\ RowTyped /\ NodeTyped /\ WorkerTyped /\ RestTyped /\ RowNamesReceipt /\ WorkerKnows /\ OwnerMatches
    /\ FinalIsReceipt /\ CompletedMatches

LEMMA InitInv == Init => Inv
BY DEF Init, Idle, Stages, NoOne, Inv, RowTyped, NodeTyped, WorkerTyped, RestTyped, RowNamesReceipt, WorkerKnows, OwnerMatches, FinalIsReceipt, CompletedMatches

-----------------------------------------------------------------------------
\* Where a worker is after it has moved on.
LEMMA GoIs ==
    ASSUME WorkerTyped, NEW w \in Workers, NEW pc \in Stages, Go(w, pc)
    PROVE  /\ WorkerTyped' /\ \A v \in Workers \ {w} : worker'[v] = worker[v]
           /\ worker'[w].pc = pc /\ worker'[w].draft = worker[w].draft
BY DEF WorkerTyped, Go

LEMMA SetIs ==
    ASSUME WorkerTyped, NEW w \in Workers, NEW pc \in Stages, NEW d \in Nodes \cup {0},
           worker' = [worker EXCEPT ![w] = [pc |-> pc, draft |-> d]]
    PROVE  /\ WorkerTyped' /\ \A v \in Workers \ {w} : worker'[v] = worker[v]
           /\ worker'[w].pc = pc /\ worker'[w].draft = d
BY DEF WorkerTyped

\* A worker that only gives up, or goes to a stage that promises nothing.
LEMMA GivesUp ==
    ASSUME Inv, NEW w \in Workers, Throw(w),
           UNCHANGED <<row, receipt>>, NodeTyped', FinalIsReceipt', faults' \in 0 .. MaxFaults
    PROVE  Inv'
<1>1. "catch" \in Stages BY DEF Stages
<1>2. /\ WorkerTyped' /\ \A v \in Workers \ {w} : worker'[v] = worker[v]
      /\ worker'[w].pc = "catch"
  BY <1>1, GoIs DEF Throw, Inv
<1>3. RowTyped' /\ RestTyped' BY DEF Inv, RowTyped, RestTyped
<1>4. RowNamesReceipt' /\ CompletedMatches' BY DEF Inv, RowNamesReceipt, CompletedMatches
<1>5. WorkerKnows' BY <1>2 DEF Inv, WorkerKnows
<1>6. OwnerMatches' BY <1>2 DEF Inv, OwnerMatches
<1> QED BY <1>2, <1>3, <1>4, <1>5, <1>6 DEF Inv

\* An external call that fails without effect.
LEMMA FailsStep ==
    ASSUME Inv, NEW w \in Workers, NEW from, Fails(w, from)
    PROVE  Inv'
<1>1. NodeTyped' /\ FinalIsReceipt' /\ faults' \in 0 .. MaxFaults
  BY DEF Fails, Fault, Inv, NodeTyped, FinalIsReceipt, RestTyped
<1> QED BY <1>1, GivesUp DEF Fails

\* An update of the row whose lease is lost.
LEMMA UpdateRefused ==
    ASSUME Inv, NEW w \in Workers, NEW from, NEW to, NEW r, Update(w, from, to, r), ~Holds(w)
    PROVE  Inv'
<1>1. NodeTyped' /\ FinalIsReceipt' /\ faults' \in 0 .. MaxFaults
  BY DEF Update, NoFault, Inv, NodeTyped, FinalIsReceipt, RestTyped
<1> QED BY <1>1, GivesUp DEF Update

\* The worker takes the row, and goes on from what the row records.
LEMMA ClaimStep ==
    ASSUME Inv, NEW w \in Workers, Claim(w)
    PROVE  Inv'
<1>1. NodeTyped' /\ RestTyped' /\ FinalIsReceipt'
  BY DEF Claim, Inv, NodeTyped, RestTyped, FinalIsReceipt
<1>2. CASE MayClaim
  <2> DEFINE pc == IF row.draft = 0 THEN "render"
                   ELSE IF row.receipt # 0 THEN "finalize" ELSE "clean"
  <2>1. pc \in Stages /\ row.draft \in Nodes \cup {0} BY DEF Stages, Inv, RowTyped
  <2>2. /\ WorkerTyped' /\ \A v \in Workers \ {w} : worker'[v] = worker[v]
        /\ worker'[w].pc = pc /\ worker'[w].draft = row.draft
    BY <1>2, <2>1, SetIs DEF Claim, Inv
  <2>3. /\ RowTyped' /\ row'.status = "running" /\ row'.owner = w
        /\ row'.draft = row.draft /\ row'.receipt = row.receipt
    BY <1>2, ZeroAssumption DEF Claim, Inv, RowTyped
  <2>4. UNCHANGED receipt BY DEF Claim
  <2>5. RowNamesReceipt' /\ CompletedMatches'
    BY <2>3, <2>4 DEF Inv, RowNamesReceipt, CompletedMatches
  <2>6. WorkerKnows'
    <3>1. pc = "finalize" => row.draft = receipt /\ receipt # 0 BY DEF Inv, RowNamesReceipt
    <3> QED BY <2>2, <2>4, <3>1 DEF Inv, WorkerKnows
  <2>7. OwnerMatches'
    <3>1. pc \in {"render", "clean"} => row.receipt = 0 BY <2>1 DEF Inv, RowNamesReceipt
    <3>2. pc \in {"render", "clean", "finalize"} OBVIOUS
    <3>3. pc = "finalize" => row.receipt # 0 OBVIOUS
    <3> QED BY <2>2, <2>3, <3>1, <3>2, <3>3 DEF OwnerMatches
  <2> QED BY <1>1, <2>2, <2>3, <2>5, <2>6, <2>7 DEF Inv
<1>3. CASE ~MayClaim
  <2>1. UNCHANGED <<row, receipt>> BY <1>3 DEF Claim
  <2>2. /\ WorkerTyped' /\ \A v \in Workers \ {w} : worker'[v] = worker[v]
        /\ worker'[w].pc = "idle"
    BY <1>3, SetIs DEF Claim, Idle, Inv, Stages
  <2>3. RowTyped' /\ RowNamesReceipt' /\ CompletedMatches'
    BY <2>1 DEF Inv, RowTyped, RowNamesReceipt, CompletedMatches
  <2>4. WorkerKnows' /\ OwnerMatches' BY <2>1, <2>2 DEF Inv, WorkerKnows, OwnerMatches
  <2> QED BY <1>1, <2>2, <2>3, <2>4 DEF Inv
<1> QED BY <1>2, <1>3

\* The draft of an earlier worker is not the node of the receipt.
LEMMA CleanOldDraftStep ==
    ASSUME Inv, NEW w \in Workers, CleanOldDraft(w)
    PROVE  Inv'
<1>0. node' = [node EXCEPT ![worker[w].draft] = "removed"] /\ UNCHANGED receipt
  BY DEF CleanOldDraft, Removed
<1>a. NodeTyped' BY <1>0 DEF Inv, NodeTyped
<1>b. \A n \in Nodes : node'[n] = "final" => node[n] = "final" BY <1>0 DEF Inv, NodeTyped
<1>c. FinalIsReceipt' BY <1>0, <1>b DEF Inv, FinalIsReceipt
<1>d. faults' \in 0 .. MaxFaults BY DEF CleanOldDraft, Fault, NoFault, Inv, RestTyped
<1>1. NodeTyped' /\ FinalIsReceipt' /\ faults' \in 0 .. MaxFaults BY <1>a, <1>c, <1>d
<1>2. CASE Throw(w) BY <1>1, <1>2, GivesUp DEF CleanOldDraft
<1>3. CASE worker' = [worker EXCEPT ![w] = [pc |-> "render", draft |-> 0]]
  <2>1. UNCHANGED <<row, receipt>> /\ worker[w].pc = "clean" BY DEF CleanOldDraft
  <2>2. /\ WorkerTyped' /\ \A v \in Workers \ {w} : worker'[v] = worker[v]
        /\ worker'[w].pc = "render"
    BY <1>3, SetIs DEF Inv, Stages
  <2>3. RowTyped' /\ RestTyped' /\ RowNamesReceipt' /\ CompletedMatches'
    BY <1>1, <2>1 DEF Inv, RowTyped, RestTyped, RowNamesReceipt, CompletedMatches
  <2>4. WorkerKnows' /\ OwnerMatches' BY <2>1, <2>2 DEF Inv, WorkerKnows, OwnerMatches
  <2> QED BY <1>1, <2>2, <2>3, <2>4 DEF Inv
<1> QED BY <1>2, <1>3 DEF CleanOldDraft

LEMMA RenderStep ==
    ASSUME Inv, NEW w \in Workers, Render(w)
    PROVE  Inv'
<1>1. CASE ~Holds(w) BY <1>1, UpdateRefused DEF Render
<1>2. CASE Holds(w)
  <2>1. UNCHANGED <<row, receipt, node, faults>> /\ Go(w, "create") /\ worker[w].pc = "render"
    BY <1>2 DEF Render, Update, NoFault
  <2>2. /\ WorkerTyped' /\ \A v \in Workers \ {w} : worker'[v] = worker[v]
        /\ worker'[w].pc = "create"
    BY <2>1, GoIs DEF Inv, Stages
  <2>3. /\ RowTyped' /\ RestTyped' /\ NodeTyped' /\ RowNamesReceipt' /\ CompletedMatches'
        /\ FinalIsReceipt'
    BY <2>1 DEF Inv, RowTyped, RestTyped, NodeTyped, RowNamesReceipt, CompletedMatches,
                FinalIsReceipt
  <2>4. WorkerKnows' /\ OwnerMatches' BY <2>1, <2>2 DEF Inv, WorkerKnows, OwnerMatches
  <2> QED BY <2>2, <2>3, <2>4 DEF Inv
<1> QED BY <1>1, <1>2

\* A new node is nobody's, so it is not the receipt's.
LEMMA CreateDraftStep ==
    ASSUME Inv, NEW w \in Workers, CreateDraft(w)
    PROVE  Inv'
<1>1. PICK n \in Nodes :
        /\ ~InUse(n) /\ node' = [node EXCEPT ![n] = "draft"]
        /\ \/ worker' = [worker EXCEPT ![w] = [pc |-> "save", draft |-> n]] /\ NoFault
           \/ Throw(w) /\ Fault
  BY DEF CreateDraft
<1>2. UNCHANGED <<row, receipt>> /\ worker[w].pc = "create" BY DEF CreateDraft
<1>3. NodeTyped' /\ FinalIsReceipt' /\ faults' \in 0 .. MaxFaults
  BY <1>1, <1>2 DEF Fault, NoFault, Inv, NodeTyped, RestTyped, FinalIsReceipt
<1>4. CASE Throw(w) BY <1>2, <1>3, <1>4, GivesUp
<1>5. CASE worker' = [worker EXCEPT ![w] = [pc |-> "save", draft |-> n]]
  <2>1. /\ WorkerTyped' /\ \A v \in Workers \ {w} : worker'[v] = worker[v]
        /\ worker'[w].pc = "save" /\ worker'[w].draft = n
    BY <1>5, SetIs DEF Inv, Stages
  <2>2. RowTyped' /\ RestTyped' /\ RowNamesReceipt' /\ CompletedMatches'
    BY <1>2, <1>3 DEF Inv, RowTyped, RestTyped, RowNamesReceipt, CompletedMatches
  <2>3. WorkerKnows' BY <1>2, <2>1 DEF Inv, WorkerKnows
  <2>4. OwnerMatches' BY <1>2, <2>1 DEF Inv, OwnerMatches
  <2> QED BY <1>3, <2>1, <2>2, <2>3, <2>4 DEF Inv
<1> QED BY <1>1, <1>4, <1>5

\* The owner's own draft becomes the row's, before there is a receipt.
LEMMA SaveDraftStep ==
    ASSUME Inv, NEW w \in Workers, SaveDraft(w)
    PROVE  Inv'
<1>1. CASE ~Holds(w) BY <1>1, UpdateRefused DEF SaveDraft
<1>2. CASE Holds(w)
  <2>1. /\ UNCHANGED <<receipt, node, faults>> /\ Go(w, "fill") /\ worker[w].pc = "save"
        /\ row' = [row EXCEPT !.draft = worker[w].draft]
    BY <1>2 DEF SaveDraft, Update, NoFault
  <2>2. /\ WorkerTyped' /\ \A v \in Workers \ {w} : worker'[v] = worker[v]
        /\ worker'[w].pc = "fill" /\ worker'[w].draft = worker[w].draft
    BY <2>1, GoIs DEF Inv, Stages
  <2>3. row.status = "running" /\ row.owner = w /\ row.receipt = 0 /\ worker[w].draft # 0
    BY <1>2, <2>1 DEF Holds, Inv, OwnerMatches, WorkerKnows
  <2>4. /\ RowTyped' /\ row'.status = "running" /\ row'.owner = w /\ row'.receipt = 0
        /\ row'.draft = worker[w].draft
    BY <2>1, <2>3 DEF Inv, RowTyped, WorkerTyped
  <2>5. RestTyped' /\ NodeTyped' /\ RowNamesReceipt' /\ CompletedMatches' /\ FinalIsReceipt'
    BY <2>1, <2>4 DEF Inv, RestTyped, NodeTyped, RowNamesReceipt, CompletedMatches,
                      FinalIsReceipt
  <2>6. WorkerKnows' BY <2>1, <2>2, <2>3 DEF Inv, WorkerKnows
  <2>7. OwnerMatches' BY <2>2, <2>4 DEF OwnerMatches
  <2> QED BY <2>2, <2>4, <2>5, <2>6, <2>7 DEF Inv
<1> QED BY <1>1, <1>2

\* The first receipt at the path stays.
LEMMA WriteReceiptStep ==
    ASSUME Inv, NEW w \in Workers, WriteReceipt(w)
    PROVE  Inv'
<1>1. CASE receipt # 0
  <2>1. NodeTyped' /\ FinalIsReceipt' /\ faults' \in 0 .. MaxFaults
    BY <1>1 DEF WriteReceipt, Inv, NodeTyped, FinalIsReceipt, RestTyped
  <2> QED BY <1>1, <2>1, GivesUp DEF WriteReceipt
<1>2. CASE receipt = 0
  <2>1. /\ UNCHANGED <<row, node, faults>> /\ Go(w, "record") /\ worker[w].pc = "receipt"
        /\ receipt' = worker[w].draft
    BY <1>2 DEF WriteReceipt
  <2>2. /\ WorkerTyped' /\ \A v \in Workers \ {w} : worker'[v] = worker[v]
        /\ worker'[w].pc = "record" /\ worker'[w].draft = worker[w].draft
    BY <2>1, GoIs DEF Inv, Stages
  <2>3. worker[w].draft # 0 /\ worker[w].draft \in Nodes
    BY <2>1 DEF Inv, WorkerKnows, WorkerTyped
  <2>4. row.receipt = 0 BY <1>2 DEF Inv, RowNamesReceipt
  <2>5. RowTyped' /\ RestTyped' /\ NodeTyped' /\ RowNamesReceipt' /\ CompletedMatches'
    BY <2>1, <2>3, <2>4 DEF Inv, RowTyped, RestTyped, NodeTyped, RowNamesReceipt,
                            CompletedMatches
  <2>6. FinalIsReceipt' BY <1>2, <2>1 DEF Inv, FinalIsReceipt
  <2>7. WorkerKnows' BY <1>2, <2>1, <2>2, <2>3 DEF Inv, WorkerKnows
  <2>8. OwnerMatches' BY <2>1, <2>2 DEF Inv, OwnerMatches
  <2> QED BY <2>2, <2>5, <2>6, <2>7, <2>8 DEF Inv
<1> QED BY <1>1, <1>2

\* The owner records the receipt of its own draft.
LEMMA RecordReceiptStep ==
    ASSUME Inv, NEW w \in Workers, RecordReceipt(w)
    PROVE  Inv'
<1>1. CASE ~Holds(w) BY <1>1, UpdateRefused DEF RecordReceipt
<1>2. CASE Holds(w)
  <2>1. /\ UNCHANGED <<receipt, node, faults>> /\ Go(w, "finalize") /\ worker[w].pc = "record"
        /\ row' = [row EXCEPT !.receipt = receipt]
    BY <1>2 DEF RecordReceipt, Update, NoFault
  <2>2. /\ WorkerTyped' /\ \A v \in Workers \ {w} : worker'[v] = worker[v]
        /\ worker'[w].pc = "finalize" /\ worker'[w].draft = worker[w].draft
    BY <2>1, GoIs DEF Inv, Stages
  <2>3. /\ row.status = "running" /\ row.owner = w /\ row.draft = worker[w].draft
        /\ worker[w].draft = receipt /\ receipt # 0
    BY <1>2, <2>1 DEF Holds, Inv, OwnerMatches, WorkerKnows
  <2>4. /\ RowTyped' /\ row'.status = "running" /\ row'.owner = w
        /\ row'.receipt = receipt /\ row'.draft = row.draft
    BY <2>1, <2>3 DEF Inv, RowTyped, RestTyped
  <2>5. RestTyped' /\ NodeTyped' /\ RowNamesReceipt' /\ CompletedMatches' /\ FinalIsReceipt'
    BY <2>1, <2>3, <2>4 DEF Inv, RestTyped, NodeTyped, RowNamesReceipt, CompletedMatches,
                            FinalIsReceipt
  <2>6. WorkerKnows' BY <2>1, <2>2, <2>3 DEF Inv, WorkerKnows
  <2>7. OwnerMatches' BY <2>2, <2>3, <2>4 DEF OwnerMatches
  <2> QED BY <2>2, <2>4, <2>5, <2>6, <2>7 DEF Inv
<1> QED BY <1>1, <1>2

\* Whoever finalizes gives the final name to the node of the receipt.
LEMMA FinalizeStep ==
    ASSUME Inv, NEW w \in Workers, Finalize(w)
    PROVE  Inv'
<1>1. /\ UNCHANGED <<row, receipt>> /\ worker[w].pc = "finalize"
      /\ worker[w].draft = receipt /\ receipt # 0 /\ receipt \in Nodes
  BY DEF Finalize, Inv, WorkerKnows, RestTyped
<1>2. node' = [node EXCEPT ![receipt] = "final"] \/ UNCHANGED node BY <1>1 DEF Finalize
<1>3. faults' \in 0 .. MaxFaults BY DEF Finalize, Fault, NoFault, Inv, RestTyped
<1>4. NodeTyped' /\ FinalIsReceipt' BY <1>1, <1>2 DEF Inv, NodeTyped, FinalIsReceipt
<1>5. CASE Throw(w) BY <1>1, <1>3, <1>4, <1>5, GivesUp
<1>6. CASE Go(w, "complete")
  <2>1. /\ WorkerTyped' /\ \A v \in Workers \ {w} : worker'[v] = worker[v]
        /\ worker'[w].pc = "complete" /\ worker'[w].draft = worker[w].draft
    BY <1>6, GoIs DEF Inv, Stages
  <2>2. RowTyped' /\ RestTyped' /\ RowNamesReceipt' /\ CompletedMatches'
    BY <1>1, <1>3 DEF Inv, RowTyped, RestTyped, RowNamesReceipt, CompletedMatches
  <2>3. WorkerKnows' BY <1>1, <2>1 DEF Inv, WorkerKnows
  <2>4. OwnerMatches' BY <1>1, <2>1 DEF Inv, OwnerMatches
  <2> QED BY <1>4, <2>1, <2>2, <2>3, <2>4 DEF Inv
<1> QED BY <1>5, <1>6 DEF Finalize

LEMMA CompleteStep ==
    ASSUME Inv, NEW w \in Workers, Complete(w)
    PROVE  Inv'
<1>1. UNCHANGED <<node, receipt, faults>> /\ worker[w].pc = "complete" BY DEF Complete
<1>2. /\ WorkerTyped' /\ \A v \in Workers \ {w} : worker'[v] = worker[v]
      /\ worker'[w].pc = "idle"
  BY SetIs DEF Complete, Idle, Inv, Stages
<1>3. RestTyped' /\ NodeTyped' /\ FinalIsReceipt'
  BY <1>1 DEF Inv, RestTyped, NodeTyped, FinalIsReceipt
<1>4. WorkerKnows' BY <1>1, <1>2 DEF Inv, WorkerKnows
<1>5. worker[w].draft = receipt BY <1>1 DEF Inv, WorkerKnows
<1>6. CASE Holds(w) /\ row.receipt # 0
  <2>1. row' = [row EXCEPT !.status = "completed", !.owner = NoOne, !.live = FALSE,
                           !.final = worker[w].draft]
    BY <1>6 DEF Complete
  <2>2. /\ row'.status = "completed" /\ row'.receipt = row.receipt /\ row'.draft = row.draft
        /\ row'.final = worker[w].draft
    BY <2>1 DEF Inv, RowTyped
  <2>3. RowTyped' BY <2>1 DEF Inv, RowTyped, WorkerTyped
  <2>4. RowNamesReceipt' /\ CompletedMatches' /\ OwnerMatches'
    BY <1>1, <1>5, <1>6, <2>2 DEF Inv, RowNamesReceipt, CompletedMatches, OwnerMatches
  <2> QED BY <1>2, <1>3, <1>4, <2>3, <2>4 DEF Inv
<1>7. CASE ~(Holds(w) /\ row.receipt # 0)
  <2>1. UNCHANGED row BY <1>7 DEF Complete
  <2>2. RowTyped' /\ RowNamesReceipt' /\ CompletedMatches' /\ OwnerMatches'
    BY <1>1, <1>2, <2>1 DEF Inv, RowTyped, RowNamesReceipt, CompletedMatches, OwnerMatches
  <2> QED BY <1>2, <1>3, <1>4, <2>2 DEF Inv
<1> QED BY <1>6, <1>7

USE DEF Stages

LEMMA PostStep ==
    ASSUME Inv, NEW w \in Workers, Post(w)
    PROVE  Inv'
<1> USE DEF Inv, RowTyped, NodeTyped, WorkerTyped, RestTyped, Post, Free, CreateZeroPublication, Go
<1>1. RowTyped' BY DEF RowTyped
<1>2. NodeTyped' BY DEF NodeTyped
<1>3. WorkerTyped' BY DEF WorkerTyped
<1>4. RestTyped' BY DEF RestTyped
<1>5. RowNamesReceipt' BY DEF RowNamesReceipt
<1>6. WorkerKnows' BY DEF WorkerKnows
<1>7. OwnerMatches' BY DEF OwnerMatches
<1>8. FinalIsReceipt' BY DEF FinalIsReceipt
<1>9. CompletedMatches' BY DEF CompletedMatches
<1> QED BY <1>1, <1>2, <1>3, <1>4, <1>5, <1>6, <1>7, <1>8, <1>9

LEMMA RecoverExpiredStep ==
    ASSUME Inv, NEW w \in Workers, RecoverExpired(w)
    PROVE  Inv'
<1> USE DEF Inv, RowTyped, NodeTyped, WorkerTyped, RestTyped, RecoverExpired, Free, Expired, Go
<1>1. RowTyped' BY DEF RowTyped
<1>2. NodeTyped' BY DEF NodeTyped
<1>3. WorkerTyped' BY DEF WorkerTyped
<1>4. RestTyped' BY DEF RestTyped
<1>5. RowNamesReceipt' BY DEF RowNamesReceipt
<1>6. WorkerKnows' BY DEF WorkerKnows
<1>7. OwnerMatches' BY DEF OwnerMatches
<1>8. FinalIsReceipt' BY DEF FinalIsReceipt
<1>9. CompletedMatches' BY DEF CompletedMatches
<1> QED BY <1>1, <1>2, <1>3, <1>4, <1>5, <1>6, <1>7, <1>8, <1>9

LEMMA FillStep ==
    ASSUME Inv, NEW w \in Workers, Fill(w)
    PROVE  Inv'
<1> USE DEF Inv, RowTyped, NodeTyped, WorkerTyped, RestTyped, Fill, Holds, Go
<1>1. RowTyped' BY DEF RowTyped
<1>2. NodeTyped' BY DEF NodeTyped
<1>3. WorkerTyped' BY DEF WorkerTyped
<1>4. RestTyped' BY DEF RestTyped
<1>5. RowNamesReceipt' BY DEF RowNamesReceipt
<1>6. WorkerKnows' BY DEF WorkerKnows
<1>7. OwnerMatches' BY DEF OwnerMatches
<1>8. FinalIsReceipt' BY DEF FinalIsReceipt
<1>9. CompletedMatches' BY DEF CompletedMatches
<1> QED BY <1>1, <1>2, <1>3, <1>4, <1>5, <1>6, <1>7, <1>8, <1>9

LEMMA CatchCleanupStep ==
    ASSUME Inv, NEW w \in Workers, CatchCleanup(w)
    PROVE  Inv'
<1> USE DEF Inv, RowTyped, NodeTyped, WorkerTyped, RestTyped, CatchCleanup, Go, Removed, Fault, NoFault
<1>1. RowTyped' BY DEF RowTyped
<1>2. NodeTyped' BY DEF NodeTyped
<1>3. WorkerTyped' BY DEF WorkerTyped
<1>4. RestTyped' BY DEF RestTyped
<1>5. RowNamesReceipt' BY DEF RowNamesReceipt
<1>6. WorkerKnows' BY DEF WorkerKnows
<1>7. OwnerMatches' BY DEF OwnerMatches
<1>8. FinalIsReceipt' BY DEF FinalIsReceipt
<1>9. CompletedMatches' BY DEF CompletedMatches
<1> QED BY <1>1, <1>2, <1>3, <1>4, <1>5, <1>6, <1>7, <1>8, <1>9

LEMMA FailStep ==
    ASSUME Inv, NEW w \in Workers, Fail(w)
    PROVE  Inv'
<1> USE DEF Inv, RowTyped, NodeTyped, WorkerTyped, RestTyped, Fail, MayFail, Idle
<1>1. RowTyped' BY DEF RowTyped
<1>2. NodeTyped' BY DEF NodeTyped
<1>3. WorkerTyped' BY DEF WorkerTyped
<1>4. RestTyped' BY DEF RestTyped
<1>5. RowNamesReceipt' BY DEF RowNamesReceipt
<1>6. WorkerKnows' BY DEF WorkerKnows
<1>7. OwnerMatches' BY DEF OwnerMatches
<1>8. FinalIsReceipt' BY DEF FinalIsReceipt
<1>9. CompletedMatches' BY DEF CompletedMatches
<1> QED BY <1>1, <1>2, <1>3, <1>4, <1>5, <1>6, <1>7, <1>8, <1>9

LEMMA CrashStep ==
    ASSUME Inv, NEW w \in Workers, Crash(w)
    PROVE  Inv'
<1> USE DEF Inv, RowTyped, NodeTyped, WorkerTyped, RestTyped, Crash, Working, Idle, Fault
<1>1. RowTyped' BY DEF RowTyped
<1>2. NodeTyped' BY DEF NodeTyped
<1>3. WorkerTyped' BY DEF WorkerTyped
<1>4. RestTyped' BY DEF RestTyped
<1>5. RowNamesReceipt' BY DEF RowNamesReceipt
<1>6. WorkerKnows' BY DEF WorkerKnows
<1>7. OwnerMatches' BY DEF OwnerMatches
<1>8. FinalIsReceipt' BY DEF FinalIsReceipt
<1>9. CompletedMatches' BY DEF CompletedMatches
<1> QED BY <1>1, <1>2, <1>3, <1>4, <1>5, <1>6, <1>7, <1>8, <1>9

LEMMA InvStep == Inv /\ [Next]_vars => Inv'
<1> SUFFICES ASSUME Inv, [Next]_vars PROVE Inv' OBVIOUS
<1>1. ASSUME NEW w \in Workers, RecoverExpired(w) \/ Post(w) \/ Crash(w) PROVE Inv'
  BY <1>1, RecoverExpiredStep, PostStep, CrashStep
<1>2. ASSUME NEW w \in Workers, Step(w) PROVE Inv'
  BY <1>2, ClaimStep, CleanOldDraftStep, RenderStep, CreateDraftStep, SaveDraftStep, FillStep,
     WriteReceiptStep, RecordReceiptStep, FinalizeStep, CompleteStep, CatchCleanupStep,
     FailStep, FailsStep
  DEF Step
<1>3. CASE LeaseRunsOut
  <2>1. /\ UNCHANGED <<node, receipt, worker>> /\ faults' \in 0 .. MaxFaults
        /\ row' = [row EXCEPT !.live = FALSE]
    BY <1>3 DEF LeaseRunsOut, Fault, NoFault, Inv, RestTyped
  <2>2. /\ RowTyped' /\ row'.status = row.status /\ row'.owner = row.owner
        /\ row'.draft = row.draft /\ row'.receipt = row.receipt /\ row'.final = row.final
    BY <2>1 DEF Inv, RowTyped
  <2> QED
    BY <2>1, <2>2
    DEF Inv, NodeTyped, WorkerTyped, RestTyped, RowNamesReceipt, WorkerKnows, OwnerMatches,
        FinalIsReceipt, CompletedMatches
<1>4. CASE UNCHANGED vars
  BY <1>4
  DEF vars, Inv, RowTyped, NodeTyped, WorkerTyped, RestTyped, RowNamesReceipt, WorkerKnows,
      OwnerMatches, FinalIsReceipt, CompletedMatches
<1> QED BY <1>1, <1>2, <1>3, <1>4 DEF Next

\* The inductive invariant holds in every reachable state.
LEMMA InvAlways == Spec => []Inv
BY InitInv, InvStep, PTL DEF Spec

\* The CHECK of migration 014 and the types of the row, for any workers.
THEOREM ZeroTypeCorrect == Spec => []TypeOK
<1>1. Inv => TypeOK BY DEF Inv, RowTyped, NodeTyped, WorkerTyped, RestTyped, TypeOK
<1> QED BY <1>1, InvAlways, PTL

\* Two workers never give the final name to two nodes (finalizeDraft), and the
\* receipt of a completed publication is that of the published node.
THEOREM OnePublishedNodeAlways == Spec => []OnePublishedNode
<1>1. Inv => OnePublishedNode
  <2> SUFFICES ASSUME Inv PROVE OnePublishedNode OBVIOUS
  <2> DEFINE S == {n \in Nodes : node[n] = "final"}
  <2>1. S \subseteq {receipt} BY DEF Inv, FinalIsReceipt
  <2>2. S = {} \/ S = {receipt} BY <2>1
  <2>3. Cardinality({}) = 0 /\ Cardinality({receipt}) = 1 BY FS_EmptySet, FS_Singleton
  <2>4. Cardinality(S) <= 1 BY <2>2, <2>3
  <2>5. row.status = "completed" => row.receipt = row.final /\ receipt = row.final
    BY DEF Inv, RowNamesReceipt, CompletedMatches
  <2> QED BY <2>4, <2>5 DEF OnePublishedNode
<1> QED BY <1>1, InvAlways, PTL

\* Only the owner of the row, or time, ends what runs: a worker that lost its
\* lease takes nothing from its successor.
THEOREM OnlyOwnerEndsAlways == Spec => OnlyOwnerEnds
<1>1. Inv /\ [Next]_vars => [ \A w \in Workers : row.status = "running" /\ row.owner = w /\ row.live
          => row'.owner = w \/ worker'[w].pc = "idle" ]_vars
  <2> SUFFICES ASSUME Inv, Next, NEW w \in Workers, row.status = "running", row.owner = w,
                      row.live
               PROVE  row'.owner = w \/ worker'[w].pc = "idle"
    OBVIOUS
  <2> USE DEF Inv, RowTyped, WorkerTyped
  <2>1. ASSUME NEW v \in Workers, RecoverExpired(v) \/ Crash(v) PROVE row' = row
    BY <2>1 DEF RecoverExpired, Crash
  <2>2. ASSUME NEW v \in Workers, Post(v) PROVE row' = row
    BY <2>2 DEF Post, CreateZeroPublication
  <2>3. ASSUME NEW v \in Workers, NEW from, Fails(v, from) PROVE row' = row BY <2>3 DEF Fails
  <2>4. ASSUME NEW v \in Workers, Claim(v) PROVE row' = row
    BY <2>4 DEF Claim, MayClaim, Expired
  <2>5. ASSUME NEW v \in Workers,
               \/ CleanOldDraft(v) \/ CreateDraft(v) \/ Fill(v) \/ WriteReceipt(v)
               \/ Finalize(v) \/ CatchCleanup(v)
        PROVE  row' = row
    BY <2>5 DEF CleanOldDraft, CreateDraft, Fill, WriteReceipt, Finalize, CatchCleanup
  <2>6. ASSUME NEW v \in Workers, Render(v) \/ SaveDraft(v) \/ RecordReceipt(v)
        PROVE  row'.owner = w
    BY <2>6 DEF Render, SaveDraft, RecordReceipt, Update
  <2>7. ASSUME NEW v \in Workers, Complete(v) PROVE row'.owner = w \/ worker'[w].pc = "idle"
    <3>1. CASE Holds(v) BY <2>7, <3>1 DEF Complete, Holds, Idle
    <3>2. CASE ~Holds(v) BY <2>7, <3>2 DEF Complete
    <3> QED BY <3>1, <3>2
  <2>8. ASSUME NEW v \in Workers, Fail(v) PROVE row'.owner = w \/ worker'[w].pc = "idle"
    <3>1. CASE MayFail(v) BY <2>8, <3>1 DEF Fail, MayFail, Idle
    <3>2. CASE ~MayFail(v) BY <2>8, <3>2 DEF Fail
    <3> QED BY <3>1, <3>2
  <2>9. ASSUME LeaseRunsOut PROVE row'.owner = w BY <2>9 DEF LeaseRunsOut
  <2> QED BY <2>1, <2>2, <2>3, <2>4, <2>5, <2>6, <2>7, <2>8, <2>9 DEF Next, Step
<1> QED BY <1>1, InvAlways, PTL DEF Spec, OnlyOwnerEnds

=============================================================================
