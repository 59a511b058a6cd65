----------------------- MODULE VisualPublicationProofs -----------------------
(***************************************************************************)
(* Theorems of VisualPublication, for any keys, reservations and revisions.*)
(*                                                                         *)
(* The invariant: a publication exists only under a token that was issued, *)
(* so that the grant it is compared with no longer changes; its member is  *)
(* staged, sealed and failed with it; and the gates of a plan name exactly *)
(* the publication that was committed for the plan.                        *)
(***************************************************************************)
EXTENDS VisualPublication, TLAPS

USE PublicationAssumption DEF Tokens, None, Versions, Plans

\* What bounds the counters.
Bounded ==
    /\ activePlan <= version + 1
    /\ taskState = "awaiting_confirmation" => version <= MaxVersion

\* A publication is begun under an issued token.
Issued == \A t \in Tokens : publication[t] # "none" => t <= issued

\* The member never outlives its publication.
MemberFollows ==
    \A t \in Tokens :
        /\ publication[t] = "none" => member[t] = "none"
        /\ publication[t] = "COMMITTED" => member[t] = "sealed"
        /\ publication[t] = "ABANDONED" => member[t] \in {"none", "failed"}

\* Gates and committed publications are one to one.
GatesFollow ==
    /\ \A p \in Plans : gate[p] # None =>
         publication[gate[p]] = "COMMITTED" /\ grant[gate[p]].plan = p
    /\ \A t \in Tokens : publication[t] = "COMMITTED" => gate[grant[t].plan] = t

Inv == TypeOK /\ Bounded /\ Issued /\ MemberFollows /\ GatesFollow

-----------------------------------------------------------------------------
LEMMA InitInv == Init => Inv
<1> SUFFICES ASSUME Init PROVE Inv OBVIOUS
<1>1. (CHOOSE k \in Keys : TRUE) \in Keys OBVIOUS
<1>2. TypeOK BY <1>1 DEF Init, TypeOK
<1> QED BY <1>2 DEF Init, Inv, Bounded, Issued, MemberFollows, GatesFollow

\* Reservations, releases and revisions leave publications and gates alone;
\* a grant is only written for a token that is new.
Untouched ==
    /\ UNCHANGED <<publication, member, gate>>
    /\ issued <= issued'
    /\ \A t \in Tokens : t <= issued => grant'[t] = grant[t]

LEMMA UntouchedKeeps ==
    ASSUME Inv, Untouched, TypeOK', Bounded'
    PROVE  Inv'
<1>1. issued \in Nat /\ issued' \in Nat BY DEF Inv, TypeOK
<1>2. Issued' BY <1>1 DEF Inv, Issued, Untouched
<1>3. MemberFollows' BY DEF Inv, MemberFollows, Untouched
<1>4. \A t \in Tokens : publication[t] # "none" => grant'[t] = grant[t]
  BY DEF Inv, Issued, Untouched
<1>5. \A p \in Plans : gate[p] # None => gate[p] \in Tokens BY DEF Inv, TypeOK
<1>6. GatesFollow' BY <1>4, <1>5 DEF Inv, GatesFollow, Untouched
<1> QED BY <1>2, <1>3, <1>6 DEF Inv

\* Publications are abandoned with their members; what was committed is not
\* among them.
LEMMA AbandonKeeps ==
    ASSUME Inv, NEW T \in SUBSET Tokens, \A t \in T : publication[t] = "PUBLISHING",
           FailMembers(T),
           publication' = [t \in Tokens |-> IF t \in T THEN "ABANDONED" ELSE publication[t]],
           holder' \in [Keys -> Tokens \cup {None}], live' \in [Keys -> BOOLEAN],
           UNCHANGED <<taskVars, issued, grant, gate>>
    PROVE  Inv'
<1>1. TypeOK'
  <2>1. member' \in [Tokens -> {"none", "staging", "sealed", "failed"}]
    BY DEF Inv, TypeOK, FailMembers
  <2>2. publication' \in [Tokens -> {"none", "PUBLISHING", "COMMITTED", "ABANDONED"}]
    BY DEF Inv, TypeOK
  <2> QED BY <2>1, <2>2 DEF Inv, TypeOK, taskVars
<1>2. Bounded' BY DEF Inv, Bounded, taskVars
<1>3. Issued' BY DEF Inv, Issued
<1>4. MemberFollows' BY DEF Inv, TypeOK, MemberFollows, FailMembers
<1>5. \A p \in Plans : gate[p] # None => gate[p] \in Tokens BY DEF Inv, TypeOK
<1>6. GatesFollow' BY <1>5 DEF Inv, TypeOK, GatesFollow
<1> QED BY <1>1, <1>2, <1>3, <1>4, <1>6 DEF Inv

LEMMA InvStep == Inv /\ [Next]_vars => Inv'
<1> SUFFICES ASSUME Inv, [Next]_vars PROVE Inv' OBVIOUS
<1>1. ASSUME NEW k \in Keys, Reserve(k) PROVE Inv'
  <2>1. TypeOK' BY <1>1 DEF Inv, TypeOK, Reserve, taskVars
  <2>2. Bounded' BY <1>1 DEF Inv, Bounded, Reserve, taskVars
  <2>3. Untouched BY <1>1 DEF Inv, TypeOK, Untouched, Reserve
  <2> QED BY <2>1, <2>2, <2>3, UntouchedKeeps
<1>2. ASSUME NEW k \in Keys, ExpireReservation(k) PROVE Inv'
  <2>1. TypeOK' BY <1>2 DEF Inv, TypeOK, ExpireReservation, taskVars
  <2>2. Bounded' BY <1>2 DEF Inv, Bounded, ExpireReservation, taskVars
  <2>3. Untouched BY <1>2 DEF Inv, TypeOK, Untouched, ExpireReservation
  <2> QED BY <2>1, <2>2, <2>3, UntouchedKeeps
<1>3. ASSUME NEW t \in Tokens, ReleaseCommand(t) PROVE Inv'
  <2>1. TypeOK' BY <1>3 DEF Inv, TypeOK, ReleaseCommand, taskVars
  <2>2. Bounded' BY <1>3 DEF Inv, Bounded, ReleaseCommand, taskVars
  <2>3. Untouched BY <1>3 DEF Inv, TypeOK, Untouched, ReleaseCommand
  <2> QED BY <2>1, <2>2, <2>3, UntouchedKeeps
<1>4. ASSUME NEW t \in Tokens, BeginVisualPublication(t) PROVE Inv'
  <2>1. TypeOK' BY <1>4 DEF Inv, TypeOK, BeginVisualPublication, taskVars
  <2>2. t <= issued /\ publication[t] = "none"
    BY <1>4 DEF BeginVisualPublication, CanCommit, OwnReservation
  <2>3. Bounded' BY <1>4 DEF Inv, Bounded, BeginVisualPublication, taskVars
  <2>4. Issued' BY <1>4, <2>2 DEF Inv, TypeOK, Issued, BeginVisualPublication
  <2>5. MemberFollows' BY <1>4, <2>2 DEF Inv, TypeOK, MemberFollows, BeginVisualPublication
  <2>6. \A p \in Plans : gate[p] # None => gate[p] \in Tokens BY DEF Inv, TypeOK
  <2>7. GatesFollow' BY <1>4, <2>2, <2>6 DEF Inv, TypeOK, GatesFollow, BeginVisualPublication
  <2> QED BY <2>1, <2>3, <2>4, <2>5, <2>7 DEF Inv
<1>5. ASSUME NEW t \in Tokens, NEW state \in {"staging", "sealed", "failed"},
             member' = [member EXCEPT ![t] = state],
             UNCHANGED <<taskVars, holder, live, issued, grant, publication, gate>>,
             publication[t] # "none", publication[t] = "COMMITTED" => state = "sealed",
             publication[t] = "ABANDONED" => state = "failed"
      PROVE  Inv'
  <2>1. TypeOK' BY <1>5 DEF Inv, TypeOK, taskVars
  <2>2. Bounded' /\ Issued' /\ GatesFollow'
    BY <1>5 DEF Inv, Bounded, Issued, GatesFollow, taskVars
  <2>3. MemberFollows' BY <1>5 DEF Inv, TypeOK, MemberFollows
  <2> QED BY <2>1, <2>2, <2>3 DEF Inv
<1>6. ASSUME NEW t \in Tokens, StageMember(t) PROVE Inv'
  BY <1>5, <1>6 DEF StageMember, MayStage
<1>7. ASSUME NEW t \in Tokens, member[t] = "staging"
      PROVE  publication[t] = "PUBLISHING"
  BY <1>7 DEF Inv, TypeOK, MemberFollows
<1>8. ASSUME NEW t \in Tokens, SealMember(t) PROVE Inv'
  BY <1>5, <1>7, <1>8 DEF SealMember
<1>9. ASSUME NEW t \in Tokens, QuarantineMember(t) PROVE Inv'
  BY <1>5, <1>7, <1>9 DEF QuarantineMember
<1>10. ASSUME NEW t \in Tokens, CompleteConfirmationCommand(t) PROVE Inv'
  <2> USE <1>10 DEF CompleteConfirmationCommand
  <2>1. taskState = "awaiting_confirmation" BY DEF CanCommit, TaskFence
  <2>2. grant[t].plan \in Plans /\ grant[t].key \in Keys BY DEF Inv, TypeOK
  <2>3. TypeOK' BY <2>1, <2>2 DEF Inv, TypeOK, Bounded
  <2>4. Bounded' BY DEF Inv, TypeOK, Bounded
  <2>5. Issued' BY DEF Inv, TypeOK, Issued
  <2>6. MemberFollows' BY DEF Inv, TypeOK, MemberFollows
  <2>7. \A p \in Plans : gate[p] # None => gate[p] \in Tokens /\ gate[p] # t
    BY DEF Inv, TypeOK, GatesFollow
  <2>8. \A p \in Plans \ {grant[t].plan} : gate'[p] = gate[p] BY DEF Inv, TypeOK
  <2>9. gate'[grant[t].plan] = t /\ publication'[t] = "COMMITTED" BY <2>2 DEF Inv, TypeOK
  <2>10. \A u \in Tokens \ {t} : publication'[u] = publication[u] BY DEF Inv, TypeOK
  <2>11. \A u \in Tokens \ {t} : publication[u] = "COMMITTED" =>
            grant[u].plan # grant[t].plan /\ grant[u].plan \in Plans
    BY DEF Inv, TypeOK, GatesFollow
  <2>12. GatesFollow'
    <3>1. \A p \in Plans : gate'[p] # None =>
             publication'[gate'[p]] = "COMMITTED" /\ grant'[gate'[p]].plan = p
      BY <2>7, <2>8, <2>9, <2>10 DEF Inv, GatesFollow
    <3>2. \A u \in Tokens : publication'[u] = "COMMITTED" => gate'[grant'[u].plan] = u
      BY <2>8, <2>9, <2>10, <2>11 DEF Inv, GatesFollow
    <3> QED BY <3>1, <3>2 DEF GatesFollow
  <2> QED BY <2>3, <2>4, <2>5, <2>6, <2>12 DEF Inv
<1>11. ASSUME NEW t \in Tokens, NEW release \in BOOLEAN, Settle(t, release) PROVE Inv'
  <2>1. publication' = [u \in Tokens |-> IF u \in {t} THEN "ABANDONED" ELSE publication[u]]
    BY <1>11 DEF Settle, Inv, TypeOK
  <2>2. holder' \in [Keys -> Tokens \cup {None}] /\ live' \in [Keys -> BOOLEAN]
    BY <1>11 DEF Settle, GiveUp, Inv, TypeOK
  <2> QED BY <1>11, <2>1, <2>2, AbandonKeeps DEF Settle
<1>12. CASE RecoverVisualPublications
  <2> DEFINE lost == {t \in Tokens : publication[t] = "PUBLISHING" /\ ~CanCommit(t)}
  <2>1. /\ FailMembers(lost)
        /\ publication' = [t \in Tokens |-> IF t \in lost THEN "ABANDONED" ELSE publication[t]]
        /\ UNCHANGED <<taskVars, holder, live, issued, grant, gate>>
    BY <1>12 DEF RecoverVisualPublications
  <2>2. lost \in SUBSET Tokens /\ \A t \in lost : publication[t] = "PUBLISHING" OBVIOUS
  <2>3. holder' \in [Keys -> Tokens \cup {None}] /\ live' \in [Keys -> BOOLEAN]
    BY <2>1 DEF Inv, TypeOK
  <2> HIDE DEF lost
  <2> QED BY <2>1, <2>2, <2>3, AbandonKeeps
<1>13. CASE Revise
  <2>1. TypeOK' BY <1>13 DEF Inv, TypeOK, Bounded, Revise
  <2>2. Bounded' BY <1>13 DEF Inv, TypeOK, Bounded, Revise
  <2>3. Untouched BY <1>13 DEF Inv, TypeOK, Untouched, Revise
  <2> QED BY <2>1, <2>2, <2>3, UntouchedKeeps
<1>14. CASE UNCHANGED vars
  <2>1. TypeOK' /\ Bounded' BY <1>14 DEF vars, taskVars, Inv, TypeOK, Bounded
  <2>2. Untouched BY <1>14 DEF vars, Untouched, Inv, TypeOK
  <2> QED BY <2>1, <2>2, UntouchedKeeps
<1> QED
  BY <1>1, <1>2, <1>3, <1>4, <1>6, <1>8, <1>9, <1>10, <1>11, <1>12, <1>13, <1>14 DEF Next

\* The inductive invariant holds in every reachable state.
LEMMA InvAlways == Spec => []Inv
BY InitInv, InvStep, PTL DEF Spec

\* The types of the rows, for any number of reservations and revisions.
THEOREM PublicationTypeCorrect == Spec => []TypeOK
BY InvAlways, PTL DEF Inv

\* Gates and evidence come together and stay (completeConfirmationCommand); an
\* abandoned publication leaves nothing behind (settle, recover, sealArtifact).
THEOREM AllOrNothingAlways == Spec => []AllOrNothing
<1>1. Inv => AllOrNothing BY DEF Inv, MemberFollows, GatesFollow, AllOrNothing
<1> QED BY <1>1, InvAlways, PTL

\* A settled publication keeps its outcome and its evidence, whichever late
\* call arrives (settleVisualPublicationAfterFailure, recoverVisualPublications).
THEOREM SettledForGoodAlways == Spec => SettledForGood
<1>1. Inv /\ [Next]_vars => [\A t \in Tokens : publication[t] \in {"COMMITTED", "ABANDONED"} =>
          publication'[t] = publication[t] /\ (member[t] = "sealed" => member'[t] = "sealed")]_vars
  <2> SUFFICES ASSUME Inv, Next, NEW t \in Tokens,
                      publication[t] \in {"COMMITTED", "ABANDONED"}
               PROVE  /\ publication'[t] = publication[t]
                      /\ member[t] = "sealed" => member'[t] = "sealed"
    OBVIOUS
  <2> USE DEF Inv, TypeOK
  <2>1. ASSUME NEW k \in Keys, Reserve(k) \/ ExpireReservation(k)
        PROVE  publication' = publication /\ member' = member
    BY <2>1 DEF Reserve, ExpireReservation
  <2>2. ASSUME NEW u \in Tokens, ReleaseCommand(u)
        PROVE  publication' = publication /\ member' = member
    BY <2>2 DEF ReleaseCommand
  <2>3. ASSUME NEW u \in Tokens, BeginVisualPublication(u)
        PROVE  publication'[t] = publication[t] /\ member' = member
    BY <2>3 DEF BeginVisualPublication
  <2>4. ASSUME NEW u \in Tokens, StageMember(u) \/ SealMember(u) \/ QuarantineMember(u)
        PROVE  publication' = publication /\ (member[t] = "sealed" => member'[t] = "sealed")
    BY <2>4 DEF StageMember, SealMember, QuarantineMember
  <2>5. ASSUME NEW u \in Tokens, CompleteConfirmationCommand(u)
        PROVE  publication'[t] = publication[t] /\ member' = member
    BY <2>5 DEF CompleteConfirmationCommand
  <2>6. ASSUME NEW u \in Tokens, NEW release \in BOOLEAN, Settle(u, release)
        PROVE  publication'[t] = publication[t] /\ member'[t] = member[t]
    BY <2>6 DEF Settle, FailMembers
  <2>7. ASSUME RecoverVisualPublications
        PROVE  publication'[t] = publication[t] /\ member'[t] = member[t]
    BY <2>7 DEF RecoverVisualPublications, FailMembers
  <2>8. ASSUME Revise PROVE publication' = publication /\ member' = member BY <2>8 DEF Revise
  <2> QED BY <2>1, <2>2, <2>3, <2>4, <2>5, <2>6, <2>7, <2>8 DEF Next
<1> QED BY <1>1, InvAlways, PTL DEF Spec, SettledForGood

\* Who can still commit is abandoned only by giving its reservation up.
THEOREM LiveIsLeftAloneAlways == Spec => LiveIsLeftAlone
<1>1. Inv /\ [Next]_vars => [\A t \in Tokens :
          publication[t] = "PUBLISHING" /\ publication'[t] = "ABANDONED"
          /\ TaskFence(t) /\ OwnReservation(t) /\ live[grant[t].key] => ~OwnReservation(t)']_vars
  <2> SUFFICES ASSUME Inv, Next, NEW t \in Tokens, publication[t] = "PUBLISHING",
                      publication'[t] = "ABANDONED", CanCommit(t)
               PROVE  ~OwnReservation(t)'
    BY DEF CanCommit
  <2> USE DEF Inv, TypeOK
  <2>1. ASSUME NEW k \in Keys, Reserve(k) \/ ExpireReservation(k) PROVE FALSE
    BY <2>1 DEF Reserve, ExpireReservation
  <2>2. ASSUME NEW u \in Tokens,
               \/ ReleaseCommand(u) \/ BeginVisualPublication(u) \/ StageMember(u)
               \/ SealMember(u) \/ QuarantineMember(u) \/ CompleteConfirmationCommand(u)
        PROVE  FALSE
    BY <2>2 DEF ReleaseCommand, BeginVisualPublication, StageMember, SealMember,
                QuarantineMember, CompleteConfirmationCommand
  <2>3. ASSUME NEW u \in Tokens, NEW release \in BOOLEAN, Settle(u, release)
        PROVE  ~OwnReservation(t)'
    <3>1. u = t BY <2>3 DEF Settle
    <3>2. release /\ OwnReservation(t) BY <2>3, <3>1 DEF Settle, CanCommit
    <3>3. grant[t].key \in Keys OBVIOUS
    <3>4. holder'[grant[t].key] = None BY <2>3, <3>1, <3>2, <3>3 DEF Settle, GiveUp
    <3> QED BY <2>3, <3>4 DEF OwnReservation, Settle
  <2>4. ASSUME RecoverVisualPublications PROVE FALSE
    BY <2>4 DEF RecoverVisualPublications
  <2>5. ASSUME Revise PROVE FALSE BY <2>5 DEF Revise
  <2> QED BY <2>1, <2>2, <2>3, <2>4, <2>5 DEF Next
<1> QED BY <1>1, InvAlways, PTL DEF Spec, LiveIsLeftAlone

=============================================================================
