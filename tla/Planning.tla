------------------------------ MODULE Planning ------------------------------
(***************************************************************************)
(* How a task gets its requirement and its candidate plans: the planning   *)
(* request that made it and the clarifications that follow                 *)
(* (agent-api server.ts and routes/control-tasks.ts,                       *)
(* requirement-refinement-service.ts, control-planning-service.ts), with   *)
(* the transactions of control-plane.ts on the task, its requirement       *)
(* versions and the rows of control_commands, up to the selection of a     *)
(* candidate.                                                              *)
(*                                                                         *)
(* One step of a handler runs from one await to the next.  The model       *)
(* answers what it likes: a requirement that is open, loose or final, a    *)
(* plan or a question about the direction.  An idempotency key stands for  *)
(* one body, as the client uses it.                                        *)
(***************************************************************************)
EXTENDS Naturals, Sequences, FiniteSets

CONSTANTS
    Requests,    \* requests that clarify
    Selections,  \* requests that select a candidate
    Keys,        \* idempotency keys of clarifications
    Answers,     \* what a user may add to a requirement
    Scenarios,   \* directions that a user may be asked to choose from
    Candidates,  \* profiles of candidate plans
    First,       \* the planning request that made the task
    None,
    MaxLost      \* COMMIT answers that get lost

ASSUME PlanningAssumption ==
    /\ First \notin Requests \cup Keys
    /\ None \notin Keys \cup Scenarios \cup Candidates \cup {First} /\ MaxLost \in Nat

Handlers == Requests \cup {First}

VARIABLES
    task,      \* the row of control_tasks
    reqs,      \* control_requirement_versions
    planned,   \* the content that the candidates were made for
    body,      \* body[k]: the request that k stands for
    cmd,       \* cmd[k]: the row of the clarification command
    choice,    \* choice[s]: the row, and the answer, of a selection
    handler,   \* what each handler knows
    lost       \* COMMIT answers lost so far

taskVars == <<task, reqs, planned>>
vars == <<taskVars, body, cmd, choice, handler, lost>>

NoBody == [expected |-> 0, answers |-> {}, scenario |-> None]
NoRow == [status |-> "none", token |-> None, live |-> FALSE, answer |-> None]

\* key: what it was sent with; at: version read last; of: requirement it works on; content: what it plans;
\* chosen: the direction it plans for; recovery: clarificationRecovery.
Fresh == [pc |-> "idle", key |-> None, at |-> 0, of |-> 0, content |-> 0,
          chosen |-> None, recovery |-> FALSE, got |-> None, why |-> "none"]

\* createTask has committed and the planning request goes on to understand.
Init ==
    /\ task = [state |-> "awaiting_clarification", version |-> 1, active |-> 0,
               content |-> 0, plan |-> None]
    /\ reqs = <<>> /\ planned = 0
    /\ body = [k \in Keys |-> NoBody] /\ cmd = [k \in Keys |-> NoRow]
    /\ choice = [s \in Selections |-> None]
    /\ handler = [h \in Handlers |-> IF h = First THEN [Fresh EXCEPT !.pc = "refine", !.at = 1]
                                     ELSE Fresh]
    /\ lost = 0

At(h, pc) == handler[h].pc = pc
Clarifiable == task.state = "awaiting_clarification"
KeyOf(h) == handler[h].key
Body(h) == IF h = First THEN NoBody ELSE body[KeyOf(h)]
Row(h) == cmd[KeyOf(h)]
Holds(h) == Row(h).status = "pending" /\ Row(h).token = h

\* What a handler does next, and where an error leads it: the planning request
\* fails its task, a clarification sees to its reservation.
Go(h, pc) == handler' = [handler EXCEPT ![h].pc = pc]
Errs(h, why) ==
    handler' = [handler EXCEPT ![h] =
        [Fresh EXCEPT !.pc = IF h = First THEN "cleanup" ELSE "recover",
                      !.key = KeyOf(h), !.why = why]]
\* It ends with an answer, or without one: refused, failed or dead.
Reply(h, answer) == handler' = [handler EXCEPT ![h] = [Fresh EXCEPT !.pc = "over", !.key = KeyOf(h), !.got = answer]]
End(h) == Reply(h, None)

-----------------------------------------------------------------------------
(* A clarification arrives and reserves its command.                         *)

\* The page of version v shows requirement v - 1: every version of a task that
\* awaits clarification has activated one.
Bodies ==
    {b \in [expected : 2 .. Len(reqs) + 1, answers : SUBSET Answers,
            scenario : Scenarios \cup {None}] :
        (b.scenario # None) <=> reqs[b.expected - 1].guided}

\* prepareClarification: a key that is known, or a task that awaits answers and
\* gets those it requires.
Send(r) ==
    \E k \in Keys :
      /\ At(r, "idle") /\ reqs # <<>>
      /\ \E b \in IF body[k] = NoBody THEN Bodies ELSE {body[k]} :
           /\ body' = [body EXCEPT ![k] = b]
           /\ handler' = [handler EXCEPT ![r].key = k, ![r].pc =
                IF \/ cmd[k].status # "none"
                   \/ Clarifiable /\ (reqs[task.content].settled = "open" => b.answers # {})
                THEN "reserve" ELSE "over"]
      /\ UNCHANGED <<taskVars, cmd, choice, lost>>

\* Mutant of Reserve: a reservation is waited for although its time is over.
ReserveWaits(r) ==
    LET k == KeyOf(r)
    IN /\ At(r, "reserve") /\ cmd[k].status # "pending"
       /\ IF cmd[k].status = "completed" THEN Reply(r, cmd[k].answer) /\ UNCHANGED cmd
          ELSE IF Clarifiable /\ task.version = body[k].expected
               THEN /\ cmd' = [cmd EXCEPT ![k] = [status |-> "pending", token |-> r,
                                                  live |-> TRUE, answer |-> None]]
                    /\ Go(r, "read")
               ELSE End(r) /\ UNCHANGED cmd
       /\ UNCHANGED <<taskVars, body, choice, lost>>

\* reserveCommand and, while another holds the row, waitForCommand: the loop
\* around them ends when the row is completed, released or out of time.  What
\* reserveCommand throws is not for recoverCommandAfterFailure.
Reserve(r) ==
    LET k == KeyOf(r)
        row == cmd[k]
        resumes == row.status = "pending" /\ task.version = body[k].expected + 1
    IN /\ At(r, "reserve") /\ ~row.live
       /\ IF row.status = "completed" THEN Reply(r, row.answer) /\ UNCHANGED cmd
          ELSE IF Clarifiable /\ (task.version = body[k].expected \/ resumes)
               THEN /\ cmd' = [cmd EXCEPT ![k] = [status |-> "pending", token |-> r,
                                                  live |-> TRUE, answer |-> None]]
                    /\ Go(r, "read")
               ELSE End(r) /\ UNCHANGED cmd
       /\ UNCHANGED <<taskVars, body, choice, lost>>

\* Five minutes are over.
ExpireReservation(k) ==
    /\ cmd[k].status = "pending" /\ cmd[k].live
    /\ cmd' = [cmd EXCEPT ![k].live = FALSE]
    /\ UNCHANGED <<taskVars, body, choice, handler, lost>>

-----------------------------------------------------------------------------
(* Requirement versions.                                                     *)

\* clarify: getTaskDetail, and then getActiveRequirementVersion.
ReadTask(r) ==
    /\ At(r, "read")
    /\ handler' = [handler EXCEPT ![r].pc = "decide", ![r].at = task.version,
                                  ![r].of = IF Clarifiable THEN task.active ELSE 0]
    /\ UNCHANGED <<taskVars, body, cmd, choice, lost>>

\* finishRefinement with requirement n at version v.
Finish(h, n, v, chosen, recovery) ==
    handler' = [handler EXCEPT
        ![h].pc = IF reqs'[n].settled = "open" THEN "complete" ELSE "plan",
        ![h].at = v, ![h].of = n, ![h].content = reqs'[n].content,
        ![h].chosen = chosen, ![h].recovery = recovery]

\* What clarify stores of the answers to requirement n.
Stored(b, n) ==
    IF reqs[n].guided THEN [guided |-> TRUE, scenario |-> b.scenario, answers |-> b.answers]
    ELSE [guided |-> FALSE, scenario |-> None, answers |-> reqs[n].answers \cup b.answers]

Clarification(n) ==
    [guided |-> reqs[n].guided, scenario |-> reqs[n].scenario, answers |-> reqs[n].answers]

\* The rest of clarify up to its next await.  matches: the task that was read
\* has the requirement that is active now, and so its content, which the code also
\* compares.  Answers are those that change something: a selection that is stored
\* without any and one whose answers change nothing are the same.
Decide(r) ==
    LET b == Body(r)
        n == task.active
        matches == handler[r].of = n
        here == handler[r].at = b.expected
        next == handler[r].at = b.expected + 1
        settled == reqs[n].guided \/ reqs[n].settled # "open"
        same == IF reqs[n].guided THEN reqs[n].scenario = b.scenario ELSE TRUE
    IN /\ At(r, "decide") /\ UNCHANGED <<taskVars, body, cmd, choice, lost>>
       /\ CASE (b.scenario # None) # reqs[n].guided -> Errs(r, "fault")
            [] OTHER ->
                 CASE here /\ matches /\ settled /\ same /\ b.answers = {} ->
                        Finish(r, n, handler[r].at, b.scenario, ~reqs[n].guided)
                   [] ~here /\ matches /\ next /\ Clarification(n) = Stored(b, n) ->
                        Finish(r, n, handler[r].at, b.scenario, FALSE)
                   [] ~here /\ ~(matches /\ next /\ Clarification(n) = Stored(b, n)) ->
                        Errs(r, "conflict")
                   [] OTHER ->
                        handler' = [handler EXCEPT ![r].of = n,
                          ![r].pc = IF reqs[n].guided /\ b.answers = {} THEN "choose" ELSE "refine"]

\* Mutant of MayActivate: the version of the task is not compared.
MayActivateAnyVersion(v) == Clarifiable

\* createAndActivateRequirementVersion, under the version v it expects.
MayActivate(v) == Clarifiable /\ task.version = v
Activate(v, req) ==
    /\ MayActivate(v)
    /\ reqs' = Append(reqs, req)
    /\ task' = [task EXCEPT !.version = v + 1, !.active = Len(reqs) + 1, !.content = req.content]
    /\ UNCHANGED planned

\* The answer to a COMMIT gets lost.
Loses(h) == lost < MaxLost /\ lost' = lost + 1 /\ Errs(h, "fault")

\* refine: the model's requirement, a version of it, and on to finishRefinement.
\* A new task type drops a chosen direction.
Refine(h) ==
    LET b == Body(h)
        n == handler[h].of
        v == IF h = First THEN handler[h].at ELSE b.expected
        kept == IF h = First THEN [guided |-> FALSE, scenario |-> None, answers |-> {}]
                ELSE Stored(b, n)
        dropped == [guided |-> FALSE, scenario |-> None, answers |-> b.answers]
    IN /\ At(h, "refine")
       /\ \/ ~MayActivate(v) /\ Errs(h, "conflict") /\ UNCHANGED <<taskVars, lost>>
          \/ \E c \in {kept, dropped}, settled \in {"open", "loose", "final"} :
               /\ c # kept => kept.guided
               /\ Activate(v, [guided |-> c.guided, scenario |-> c.scenario, answers |-> c.answers,
                               content |-> Len(reqs) + 1, settled |-> settled,
                               by |-> IF h = First THEN First ELSE KeyOf(h)])
               /\ \/ Finish(h, Len(reqs) + 1, v + 1, c.scenario, FALSE) /\ UNCHANGED lost
                  \/ Loses(h)
       /\ UNCHANGED <<body, cmd, choice>>

\* The direction is chosen and nothing else changes.
Choose(r) ==
    LET b == Body(r)
        n == handler[r].of
    IN /\ At(r, "choose")
       /\ \/ ~MayActivate(b.expected) /\ Errs(r, "conflict") /\ UNCHANGED <<taskVars, lost>>
          \/ /\ Activate(b.expected, [guided |-> TRUE, scenario |-> b.scenario, answers |-> b.answers,
                                      content |-> reqs[n].content, settled |-> reqs[n].settled,
                                      by |-> KeyOf(r)])
             /\ \/ Finish(r, Len(reqs) + 1, b.expected + 1, b.scenario, FALSE) /\ UNCHANGED lost
                \/ Loses(r)
       /\ UNCHANGED <<body, cmd, choice>>

-----------------------------------------------------------------------------
(* Planning.                                                                 *)

\* The planner has a plan, and the port reads the task again for the version to
\* expect of it.
Plan(h) ==
    /\ At(h, "plan")
    /\ handler' = [handler EXCEPT ![h].pc = "persist", ![h].at = task.version]
    /\ UNCHANGED <<taskVars, body, cmd, choice, lost>>

\* The planner asks for a direction, if none is chosen: a version with the same
\* content.
Guide(h) ==
    LET n == handler[h].of
        v == handler[h].at
    IN /\ At(h, "plan") /\ handler[h].chosen = None /\ Scenarios # {}
       /\ \/ ~MayActivate(v) /\ Errs(h, "conflict") /\ UNCHANGED <<taskVars, lost>>
          \/ /\ Activate(v, [guided |-> TRUE, scenario |-> None, answers |-> {},
                             content |-> handler[h].content, settled |-> reqs[n].settled,
                             by |-> None])
             /\ \/ handler' = [handler EXCEPT ![h].pc = "complete"] /\ UNCHANGED lost
                \/ Loses(h)
       /\ UNCHANGED <<body, cmd, choice>>

\* Mutant of MayPersist: whichever version was read again will do.
MayPersistAtVersionRead(r) == Clarifiable /\ task.version = handler[r].at /\ Holds(r)

\* persistClarificationCandidatesAndCompleteCommand, before its transaction and
\* in it.
MayPersist(r) ==
    LET w == handler[r]
    IN /\ w.at = IF w.recovery THEN Body(r).expected ELSE Body(r).expected + 1
       /\ Clarifiable /\ task.version = w.at /\ Holds(r)
       /\ w.recovery => /\ task.active = w.of /\ task.content = w.content
                        /\ reqs[w.of].settled = "final"

\* The candidates and the new state of the task, as every persist writes them.
Candidate(h) ==
    /\ task' = [task EXCEPT !.state = "awaiting_selection", !.version = @ + 1,
                            !.content = handler[h].content]
    /\ planned' = handler[h].content
    /\ UNCHANGED reqs

\* The answer of a clarification that led to candidates, or to more questions.
Answer(kind, h) == [kind |-> kind, content |-> handler[h].content]
Completed(answer) == [status |-> "completed", token |-> None, live |-> FALSE, answer |-> answer]

Persist(r) ==
    /\ At(r, "persist") /\ r # First
    /\ \/ ~MayPersist(r) /\ Errs(r, "conflict") /\ UNCHANGED <<taskVars, cmd, lost>>
       \/ /\ MayPersist(r) /\ Candidate(r)
          /\ cmd' = [cmd EXCEPT ![KeyOf(r)] = Completed(Answer("candidates", r))]
          /\ \/ Reply(r, Answer("candidates", r)) /\ UNCHANGED lost
             \/ Loses(r)
    /\ UNCHANGED <<body, choice>>

\* persistExistingTaskWithCandidates.
PersistFirst ==
    /\ At(First, "persist")
    /\ \/ ~MayActivate(handler[First].at) /\ Errs(First, "conflict") /\ UNCHANGED <<taskVars, lost>>
       \/ /\ MayActivate(handler[First].at) /\ Candidate(First)
          /\ \/ Reply(First, Answer("candidates", First)) /\ UNCHANGED lost
             \/ Loses(First)
    /\ UNCHANGED <<body, cmd, choice>>

\* More questions: refinementResponse, and completeCommand for a clarification.
Complete(h) ==
    /\ At(h, "complete")
    /\ \/ h = First /\ Reply(h, Answer("questions", h)) /\ UNCHANGED <<cmd, lost>>
       \/ h # First /\ ~Holds(h) /\ Errs(h, "conflict") /\ UNCHANGED <<cmd, lost>>
       \/ /\ h # First /\ Holds(h)
          /\ cmd' = [cmd EXCEPT ![KeyOf(h)] = Completed(Answer("questions", h))]
          /\ \/ Reply(h, Answer("questions", h)) /\ UNCHANGED lost
             \/ Loses(h)
    /\ UNCHANGED <<taskVars, body, choice>>

-----------------------------------------------------------------------------
(* Failures.                                                                 *)

\* A call of the model, the planner or the database fails, without effect.
Fail(h) ==
    /\ handler[h].pc \in {"read", "decide", "refine", "choose", "plan",
                          "persist", "complete"}
    /\ Errs(h, "fault")
    /\ UNCHANGED <<taskVars, body, cmd, choice, lost>>

\* recoverCommandAfterFailure.
Recover(r) ==
    LET k == KeyOf(r)
    IN /\ At(r, "recover") /\ End(r)
       /\ cmd' = CASE Holds(r) /\ task.version = body[k].expected -> [cmd EXCEPT ![k] = NoRow]
                   [] /\ Holds(r) /\ Clarifiable
                      /\ task.version = body[k].expected + 1 -> [cmd EXCEPT ![k].live = FALSE]
                   [] OTHER -> cmd
       /\ UNCHANGED <<taskVars, body, choice, lost>>

\* failIncompletePlanningTask: reads the task, and fails it at that version.
CleanupRead ==
    /\ At(First, "cleanup")
    /\ IF Clarifiable
       THEN handler' = [handler EXCEPT ![First].pc = "giveup", ![First].at = task.version]
       ELSE End(First)
    /\ UNCHANGED <<taskVars, body, cmd, choice, lost>>

GiveUp ==
    /\ At(First, "giveup") /\ End(First)
    /\ IF MayActivate(handler[First].at)
       THEN task' = [task EXCEPT !.state = "failed", !.version = @ + 1]
       ELSE UNCHANGED task
    /\ UNCHANGED <<reqs, planned, body, cmd, choice, lost>>

\* The process of a handler dies.  A request that holds no reservation yet would
\* leave nothing behind.
Crash(h) ==
    /\ handler[h].pc \notin {"idle", "reserve", "over"} /\ End(h)
    /\ UNCHANGED <<taskVars, body, cmd, choice, lost>>

\* selectCandidate, one transaction: a key that is known gets its answer again.
Select(s) ==
    /\ task.state = "awaiting_selection" /\ task.plan = None /\ choice[s] = None
    /\ \E p \in Candidates :
         /\ task' = [task EXCEPT !.state = "awaiting_confirmation", !.version = @ + 1, !.plan = p]
         /\ choice' = [choice EXCEPT ![s] = p]
    /\ UNCHANGED <<reqs, planned, body, cmd, handler, lost>>

-----------------------------------------------------------------------------
Step(h) ==
    \/ Refine(h) \/ Plan(h) \/ Guide(h) \/ Complete(h)
    \/ h \in Requests /\
         (\/ Reserve(h) \/ ReadTask(h) \/ Decide(h)
          \/ Choose(h) \/ Persist(h) \/ Recover(h))
    \/ h = First /\ (PersistFirst \/ CleanupRead \/ GiveUp)

Next ==
    \/ \E h \in Handlers : Step(h) \/ Fail(h) \/ Crash(h)
    \/ \E r \in Requests : Send(r)
    \/ \E k \in Keys : ExpireReservation(k)
    \/ \E s \in Selections : Select(s)

Spec == Init /\ [][Next]_vars
FairSpec ==
    /\ Spec
    /\ \A h \in Handlers : WF_vars(Step(h))
    /\ \A k \in Keys : WF_vars(ExpireReservation(k))

-----------------------------------------------------------------------------
\* Key k only confirms the direction that requirement n, of its page, has chosen.
Confirms(k, n) ==
    reqs[n].guided /\ reqs[n].scenario = body[k].scenario /\ body[k].answers = {}

\* A clarification that was answered with candidates: they, and the task, are
\* made for the requirement that is active, whoever else planned or activated;
\* or, if it confirms a direction, for the one that its page showed.
ClarifiedPlanIsActive ==
    \A k \in Keys : cmd[k].status = "completed" /\ cmd[k].answer.kind = "candidates" =>
        /\ ~Clarifiable /\ planned = cmd[k].answer.content /\ task.content = planned
        /\ \/ reqs[task.active].content = planned
           \/ LET n == body[k].expected - 1 IN Confirms(k, n) /\ reqs[n].content = planned

\* However often a body is sent, resumed or recovered, it makes one version of
\* the requirement, and every sender of its key gets the one answer on record.
AppliedOnce ==
    /\ \A i, j \in DOMAIN reqs : reqs[i].by = reqs[j].by /\ reqs[i].by # None => i = j
    /\ \A r \in Requests : At(r, "over") /\ handler[r].got # None =>
          Row(r).status = "completed" /\ Row(r).answer = handler[r].got

\* Every handler ends, also one that waits for the reservation of a dead one.
EveryRequestEnds == <>[](\A h \in Handlers : handler[h].pc \in {"idle", "over"})

\* The candidates of a task are made for its active requirement.
PlannedFromActive ==
    ~Clarifiable /\ task.state # "failed" => planned = reqs[task.active].content

\* A clarification that holds its reservation is refused only if the task moved
\* on from the version that its page showed.
RefusedForACause ==
    [][\A r \in Requests : handler[r].why = "none" /\ handler'[r].why = "conflict" =>
         ~Clarifiable \/ task.version # Body(r).expected \/ ~Holds(r)]_vars
=============================================================================
