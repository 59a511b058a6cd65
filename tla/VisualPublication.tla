------------------------- MODULE VisualPublication -------------------------
(***************************************************************************)
(* The ledger of visual publications (migration 010 and control-plane.ts): *)
(* the Artifacts that a confirmation writes under its reservation become   *)
(* evidence all together, when completeConfirmationCommand commits, or are *)
(* failed all together, by the caller's settle or by recovery.             *)
(*                                                                         *)
(* Every action is one transaction.  Callers are left unconstrained: who   *)
(* ever held a reservation token may still call anything with it.  A       *)
(* publication is named after the token it was begun with; its Artifacts   *)
(* are one member, which is staged, sealed and failed as the set is.       *)
(***************************************************************************)
EXTENDS Naturals, FiniteSets

CONSTANTS
    Keys,        \* Idempotency-Key values of confirmations
    MaxTokens,   \* bound: reservations taken
    MaxVersion   \* bound: the task is revised below this version

ASSUME PublicationAssumption ==
    Keys # {} /\ MaxTokens \in Nat \ {0} /\ MaxVersion \in Nat

Tokens   == 1 .. MaxTokens
None     == 0                       \* no token, no gate
Versions == 0 .. MaxVersion + 1
Plans    == 1 .. MaxVersion + 1

VARIABLES
    taskState, version, activePlan,  \* the task row
    holder,        \* holder[k]: token of the pending command of key k, None without
    live,          \* live[k]: that reservation has not expired
    issued,        \* tokens handed out so far
    grant,         \* grant[t]: the key, version and plan that t was issued for
    publication,   \* publication[t]: state of the publication begun with t
    member,        \* member[t]: state of its Artifacts
    gate           \* gate[p]: the publication whose evidence the gates of p hold

taskVars == <<taskState, version, activePlan>>
vars == <<taskVars, holder, live, issued, grant, publication, member, gate>>

Init ==
    /\ taskState = "awaiting_confirmation" /\ version = 0 /\ activePlan = 1
    /\ holder = [k \in Keys |-> None] /\ live = [k \in Keys |-> FALSE]
    /\ issued = 0
    /\ grant = [t \in Tokens |-> [key |-> CHOOSE k \in Keys : TRUE, version |-> 0, plan |-> 1]]
    /\ publication = [t \in Tokens |-> "none"] /\ member = [t \in Tokens |-> "none"]
    /\ gate = [p \in Plans |-> None]

\* The task still awaits confirmation of what t was issued for.
TaskFence(t) ==
    /\ taskState = "awaiting_confirmation"
    /\ version = grant[t].version /\ activePlan = grant[t].plan

OwnReservation(t) == t <= issued /\ holder[grant[t].key] = t

CanCommit(t) == TaskFence(t) /\ OwnReservation(t) /\ live[grant[t].key]

\* The Artifacts of the publications in T that are not failed yet are failed.
FailMembers(T) ==
    member' = [t \in Tokens |->
                 IF t \in T /\ member[t] \in {"staging", "sealed"} THEN "failed" ELSE member[t]]

-----------------------------------------------------------------------------
\* reserveConfirmationCommand, when it grants: no unexpired reservation of this
\* or another key, and what has expired under other keys is deleted.
Reserve(k) ==
    /\ taskState = "awaiting_confirmation" /\ issued < MaxTokens
    /\ \A j \in Keys : holder[j] # None => ~live[j]
    /\ issued' = issued + 1
    /\ holder' = [j \in Keys |-> IF j = k THEN issued + 1 ELSE None]
    /\ live' = [j \in Keys |-> j = k]
    /\ grant' = [grant EXCEPT ![issued + 1] =
                   [key |-> k, version |-> version, plan |-> activePlan]]
    /\ UNCHANGED <<taskVars, publication, member, gate>>

ExpireReservation(k) ==
    /\ holder[k] # None /\ live[k]
    /\ live' = [live EXCEPT ![k] = FALSE]
    /\ UNCHANGED <<taskVars, holder, issued, grant, publication, member, gate>>

\* releaseCommand, also from the branch that does not know of a publication.
ReleaseCommand(t) ==
    /\ OwnReservation(t)
    /\ holder' = [holder EXCEPT ![grant[t].key] = None]
    /\ live' = [live EXCEPT ![grant[t].key] = FALSE]
    /\ UNCHANGED <<taskVars, issued, grant, publication, member, gate>>

\* beginVisualPublication; begun before it is only found again.
BeginVisualPublication(t) ==
    /\ CanCommit(t) /\ publication[t] = "none"
    /\ publication' = [publication EXCEPT ![t] = "PUBLISHING"]
    /\ UNCHANGED <<taskVars, holder, live, issued, grant, member, gate>>

MayStage(t) == publication[t] = "PUBLISHING"

\* createStagingArtifact with a publicationId.
StageMember(t) ==
    /\ MayStage(t) /\ member[t] = "none"
    /\ member' = [member EXCEPT ![t] = "staging"]
    /\ UNCHANGED <<taskVars, holder, live, issued, grant, publication, gate>>

\* sealArtifact: a publication that is settled by then fails the Artifact.
SealMember(t) ==
    /\ member[t] = "staging"
    /\ member' = [member EXCEPT ![t] =
                    IF publication[t] = "PUBLISHING" THEN "sealed" ELSE "failed"]
    /\ UNCHANGED <<taskVars, holder, live, issued, grant, publication, gate>>

\* quarantineStagingArtifact, by whoever failed to write the member.
QuarantineMember(t) ==
    /\ member[t] = "staging"
    /\ member' = [member EXCEPT ![t] = "failed"]
    /\ UNCHANGED <<taskVars, holder, live, issued, grant, publication, gate>>

\* completeConfirmationCommand with a publicationId: gates, task, publication
\* and command in one transaction.
CompleteConfirmationCommand(t) ==
    /\ CanCommit(t) /\ gate[grant[t].plan] = None
    /\ publication[t] = "PUBLISHING" /\ member[t] = "sealed"
    /\ taskState' = "confirmed" /\ version' = version + 1
    /\ gate' = [gate EXCEPT ![grant[t].plan] = t]
    /\ publication' = [publication EXCEPT ![t] = "COMMITTED"]
    /\ holder' = [holder EXCEPT ![grant[t].key] = None]
    /\ live' = [live EXCEPT ![grant[t].key] = FALSE]
    /\ UNCHANGED <<activePlan, issued, grant, member>>

\* The caller's reservation, if it is still his, is deleted when he asks for it.
GiveUp(t, release) ==
    LET gone == {k \in Keys : release /\ OwnReservation(t) /\ k = grant[t].key}
    IN /\ holder' = [k \in Keys |-> IF k \in gone THEN None ELSE holder[k]]
       /\ live' = [k \in Keys |-> live[k] /\ k \notin gone]

\* Mutant of Settle: the publication is abandoned, its Artifacts are left.
SettleWithoutMembers(t, release) ==
    /\ publication[t] = "PUBLISHING" /\ (CanCommit(t) => release)
    /\ publication' = [publication EXCEPT ![t] = "ABANDONED"]
    /\ GiveUp(t, release) /\ UNCHANGED <<taskVars, issued, grant, member, gate>>

\* Mutant of Settle: an outcome that is already there is written over.
SettleAgain(t, release) ==
    /\ publication[t] \in {"PUBLISHING", "COMMITTED"} /\ (CanCommit(t) => release)
    /\ publication' = [publication EXCEPT ![t] = "ABANDONED"]
    /\ FailMembers({t})
    /\ GiveUp(t, release) /\ UNCHANGED <<taskVars, issued, grant, gate>>

\* Mutant of Settle: the caller's own failure is reason enough.
SettleAnyway(t, release) ==
    /\ publication[t] = "PUBLISHING"
    /\ publication' = [publication EXCEPT ![t] = "ABANDONED"]
    /\ FailMembers({t})
    /\ UNCHANGED <<taskVars, holder, live, issued, grant, gate>>

\* settleVisualPublicationAfterFailure, when it changes anything: one that is
\* settled keeps its outcome, and one that can still commit stays live unless
\* the caller gives its reservation up.
Settle(t, release) ==
    /\ publication[t] = "PUBLISHING" /\ (CanCommit(t) => release)
    /\ GiveUp(t, release)
    /\ FailMembers({t})
    /\ publication' = [publication EXCEPT ![t] = "ABANDONED"]
    /\ UNCHANGED <<taskVars, issued, grant, gate>>

\* Mutant of RecoverVisualPublications: only a reservation that is gone counts.
RecoverReleasedOnly ==
    LET lost == {t \in Tokens : publication[t] = "PUBLISHING" /\ ~OwnReservation(t)}
    IN /\ lost # {}
       /\ FailMembers(lost)
       /\ publication' = [t \in Tokens |-> IF t \in lost THEN "ABANDONED" ELSE publication[t]]
       /\ UNCHANGED <<taskVars, holder, live, issued, grant, gate>>

\* recoverVisualPublications: every publication whose reservation is gone,
\* expired, taken over, or for a task that has moved on.
RecoverVisualPublications ==
    LET lost == {t \in Tokens : publication[t] = "PUBLISHING" /\ ~CanCommit(t)}
    IN /\ lost # {}
       /\ FailMembers(lost)
       /\ publication' = [t \in Tokens |-> IF t \in lost THEN "ABANDONED" ELSE publication[t]]
       /\ UNCHANGED <<taskVars, holder, live, issued, grant, gate>>

\* createPlanRevision.
Revise ==
    /\ version < MaxVersion
    /\ taskState' = "awaiting_confirmation"
    /\ version' = version + 1 /\ activePlan' = activePlan + 1
    /\ UNCHANGED <<holder, live, issued, grant, publication, member, gate>>

Next ==
    \/ \E k \in Keys : Reserve(k) \/ ExpireReservation(k)
    \/ \E t \in Tokens :
         \/ ReleaseCommand(t) \/ BeginVisualPublication(t) \/ StageMember(t) \/ SealMember(t)
         \/ QuarantineMember(t) \/ CompleteConfirmationCommand(t)
         \/ \E release \in BOOLEAN : Settle(t, release)
    \/ RecoverVisualPublications \/ Revise

Spec == Init /\ [][Next]_vars

\* The recovery timer keeps running and time passes; callers may stop anywhere.
Fairness ==
    /\ WF_vars(RecoverVisualPublications)
    /\ \A k \in Keys : WF_vars(ExpireReservation(k))

FairSpec == Spec /\ Fairness

-----------------------------------------------------------------------------
TypeOK ==
    /\ taskState \in {"awaiting_confirmation", "confirmed"}
    /\ version \in Versions /\ activePlan \in Plans
    /\ holder \in [Keys -> Tokens \cup {None}] /\ live \in [Keys -> BOOLEAN]
    /\ issued \in 0 .. MaxTokens
    /\ grant \in [Tokens -> [key : Keys, version : Versions, plan : Plans]]
    /\ publication \in [Tokens -> {"none", "PUBLISHING", "COMMITTED", "ABANDONED"}]
    /\ member \in [Tokens -> {"none", "staging", "sealed", "failed"}]
    /\ gate \in [Plans -> Tokens \cup {None}]

\* A publication becomes evidence whole or leaves nothing: gates and a committed
\* publication come and stay together, the evidence they refer to is sealed
\* whatever late calls arrive, and an abandoned publication leaves no Artifact
\* that is or may become sealed, also when its writer goes on.
AllOrNothing ==
    /\ \A p \in Plans : gate[p] # None =>
         publication[gate[p]] = "COMMITTED" /\ grant[gate[p]].plan = p
    /\ \A t \in Tokens : publication[t] = "COMMITTED" =>
         gate[grant[t].plan] = t /\ member[t] = "sealed"
    /\ \A t \in Tokens : publication[t] = "ABANDONED" => member[t] \in {"none", "failed"}

\* Compensation by recovery and by a caller never meets a commit: a settled
\* publication keeps its outcome and its evidence.
SettledForGood ==
    [][\A t \in Tokens : publication[t] \in {"COMMITTED", "ABANDONED"} =>
          publication'[t] = publication[t] /\ (member[t] = "sealed" => member'[t] = "sealed")]_vars

\* Recovery and the caller's settle leave alone who can still commit, unless
\* he gives his own reservation up.
LiveIsLeftAlone ==
    [][\A t \in Tokens :
          publication[t] = "PUBLISHING" /\ publication'[t] = "ABANDONED"
          /\ TaskFence(t) /\ OwnReservation(t) /\ live[grant[t].key] => ~OwnReservation(t)']_vars

\* No publication stays half done: its caller commits or settles it, or the
\* reservation runs out and the recovery timer fails it.
EveryPublicationSettles ==
    \A t \in Tokens : publication[t] = "PUBLISHING" ~> publication[t] # "PUBLISHING"

=============================================================================
