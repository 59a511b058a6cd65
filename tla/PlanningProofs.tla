--------------------------- MODULE PlanningProofs ---------------------------
(***************************************************************************)
(* Theorems about Planning, for all requests, keys, answers and numbers of *)
(* requirement versions.                                                   *)
(***************************************************************************)
EXTENDS Planning, SequenceTheorems, TLAPS

-----------------------------------------------------------------------------
(* The inductive invariant.                                                *)

States == {"awaiting_clarification", "awaiting_selection", "awaiting_confirmation", "failed"}
Directions == Scenarios \cup {None}
Requirement == [guided : BOOLEAN, scenario : Directions, answers : SUBSET Answers, content : Nat,
                settled : {"open", "loose", "final"}, by : Keys \cup {First, None}]
Replies == [kind : {"candidates", "questions"}, content : Nat]
Known == [pc : {"idle", "reserve", "read", "decide", "refine", "choose", "plan", "persist",
                "complete", "recover", "cleanup", "giveup", "over"},
          key : Keys \cup {None}, at : Nat, of : Nat, content : Nat, chosen : Directions,
          recovery : BOOLEAN, got : Replies \cup {None}, why : {"none", "fault", "conflict"}]

Tasks == [state : States, version : Nat, active : Nat, content : Nat,
          plan : Candidates \cup {None}]
Rows == [status : {"none", "pending", "completed"}, token : Requests \cup {None},
         live : BOOLEAN, answer : Replies \cup {None}]

TypeOK ==
    /\ task \in Tasks
    /\ reqs \in Seq(Requirement) /\ planned \in Nat
    /\ body \in [Keys -> [expected : Nat, answers : SUBSET Answers, scenario : Directions]]
    /\ cmd \in [Keys -> Rows]
    /\ choice \in [Selections -> Candidates \cup {None}]
    /\ handler \in [Handlers -> Known]
    /\ lost \in 0 .. MaxLost

\* The version of a task that can be clarified counts its requirements, the last
\* of which is active and gives the task its content.
VersionInv ==
    /\ task.active = Len(reqs)
    /\ Clarifiable => /\ task.version = Len(reqs) + 1
                      /\ reqs # <<>> => task.content = reqs[Len(reqs)].content

\* A requirement stands where the command that made it, or the planning request,
\* expected it.
MadeByInv ==
    \A i \in DOMAIN reqs :
        /\ reqs[i].by = First => i = 1
        /\ reqs[i].by \in Keys => body[reqs[i].by] # NoBody /\ i = body[reqs[i].by].expected

\* The page that a body answers showed a requirement.
BodyInv ==
    \A k \in Keys : body[k] # NoBody => body[k].expected \in 2 .. Len(reqs) + 1

\* What a handler that clarifies under key k may plan: the requirement that was
\* activated for the body, or the direction that it confirms.
MayPlan(k, content) ==
    LET n == body[k].expected
    IN \/ n \in DOMAIN reqs /\ content = reqs[n].content
       \/ Confirms(k, n - 1) /\ content = reqs[n - 1].content

\* What handler h knows when it is as in w.  The task that it has read, if it
\* could be clarified, had the requirement of its version; an answer is the one
\* on record.
HandlerOK(h, w) ==
    /\ w.pc # "over" => w.got = None
    /\ w.pc \in {"plan", "persist"} => w.of \in DOMAIN reqs
    /\ h = First =>
         /\ w.key = None /\ (w.pc = "refine" => w.at = 1)
         /\ w.pc \notin {"idle", "reserve", "read", "decide", "choose", "recover"}
    /\ h # First =>
         /\ w.pc # "idle" => w.key \in Keys /\ body[w.key] # NoBody
         /\ w.pc \notin {"cleanup", "giveup"}
         /\ w.pc = "decide" => w.of = 0 \/ (w.of = w.at - 1 /\ w.of \in DOMAIN reqs)
         /\ w.pc \in {"refine", "choose"} => w.of \in DOMAIN reqs
         /\ w.pc \in {"plan", "persist"} /\ ~w.recovery => MayPlan(w.key, w.content)
         /\ w.got # None => cmd[w.key].status = "completed" /\ cmd[w.key].answer = w.got
HandlerInv == \A h \in Handlers : HandlerOK(h, handler[h])

\* A command has a body, and is completed with an answer.
CommandInv ==
    \A k \in Keys :
        /\ cmd[k].status # "none" => body[k] # NoBody
        /\ cmd[k].status = "completed" => cmd[k].answer \in Replies

IInv == /\ TypeOK /\ VersionInv /\ MadeByInv /\ BodyInv /\ HandlerInv /\ CommandInv
        /\ ClarifiedPlanIsActive

-----------------------------------------------------------------------------
(* What stays as it is.                                                     *)

\* No step takes anything back: requirements are appended, a body is fixed by the
\* first request that sends it, and a completed command is left alone.
Grows ==
    /\ Len(reqs) <= Len(reqs') /\ \A i \in DOMAIN reqs : i \in DOMAIN reqs' /\ reqs'[i] = reqs[i]
    /\ \A k \in Keys : body[k] # NoBody => body'[k] = body[k]
    /\ \A k \in Keys : cmd[k].status = "completed" => cmd'[k] = cmd[k]

LEMMA ReqsFacts ==
    ASSUME TypeOK
    PROVE  /\ Len(reqs) \in Nat /\ DOMAIN reqs = 1 .. Len(reqs)
           /\ \A i \in DOMAIN reqs : reqs[i] \in Requirement
BY LenProperties, ElementOfSeq DEF TypeOK

LEMMA HandlerOKStays ==
    ASSUME TypeOK, BodyInv, Grows, NEW h \in Handlers, NEW w \in Known, HandlerOK(h, w)
    PROVE  HandlerOK(h, w)'
<1>1. ASSUME h # First, w.pc # "idle", MayPlan(w.key, w.content)
      PROVE  MayPlan(w.key, w.content)'
  <2>1. w.key \in Keys /\ body[w.key] # NoBody /\ body'[w.key] = body[w.key]
    BY <1>1 DEF HandlerOK, Grows
  <2>2. body[w.key].expected - 1 \in DOMAIN reqs
    BY <2>1, ReqsFacts DEF BodyInv
  <2> QED BY <1>1, <2>1, <2>2 DEF MayPlan, Confirms, Grows
<1> QED BY <1>1 DEF HandlerOK, Grows

\* Handler h alone moves, and knows w next.
Moves(h, w) ==
    /\ w \in Known /\ handler' \in [Handlers -> Known] /\ handler'[h] = w
    /\ \A g \in Handlers : g # h => handler'[g] = handler[g]

LEMMA HandlersKeep ==
    ASSUME IInv, Grows, NEW h \in Handlers, NEW w, Moves(h, w), HandlerOK(h, w)'
    PROVE  HandlerInv'
<1> SUFFICES ASSUME NEW g \in Handlers PROVE HandlerOK(g, handler[g])'
  BY DEF HandlerInv
<1>1. CASE g = h
  <2>1. w = handler'[g]
    BY <1>1 DEF Moves
  <2> QED BY <1>1, <2>1 DEF HandlerOK, MayPlan, Confirms
<1>2. CASE g # h
  <2>1. PICK u \in Known : u = handler[g] /\ u = handler'[g] /\ HandlerOK(g, u)
    BY <1>2 DEF Moves, IInv, TypeOK, HandlerInv
  <2>2. HandlerOK(g, u)'
    BY <2>1, HandlerOKStays DEF IInv
  <2> QED BY <2>1, <2>2 DEF HandlerOK, MayPlan, Confirms
<1> QED BY <1>1, <1>2

\* A step of handler h that adds to nothing but what it knows.
LEMMA LocalKeeps ==
    ASSUME IInv, NEW h \in Handlers, NEW w, Moves(h, w), HandlerOK(h, w),
           UNCHANGED <<taskVars, body, cmd, choice>>, lost' \in 0 .. MaxLost
    PROVE  IInv'
<1>1. TypeOK'
  BY DEF IInv, TypeOK, taskVars, Moves
<1>2. Grows
  BY ReqsFacts DEF IInv, Grows, taskVars
<1>3. VersionInv' /\ MadeByInv' /\ BodyInv' /\ CommandInv'
  BY DEF IInv, VersionInv, MadeByInv, BodyInv, CommandInv, Clarifiable, taskVars
<1>4. ClarifiedPlanIsActive'
  BY DEF IInv, ClarifiedPlanIsActive, Confirms, Clarifiable, taskVars
<1>5. HandlerInv'
  <2>1. HandlerOK(h, w)'
    BY <1>2, HandlerOKStays DEF IInv, Moves
  <2> QED BY <1>2, <2>1, HandlersKeep
<1> QED BY <1>1, <1>3, <1>4, <1>5 DEF IInv

\* Row k alone is written.
Writes(k, row) ==
    cmd' \in [Keys -> Rows] /\ cmd'[k] = row /\ \A j \in Keys : j # k => cmd'[j] = cmd[j]

\* A step of handler h with a change of the command k, that others hold no more
\* once it is completed.
LEMMA CommandKeeps ==
    ASSUME IInv, NEW h \in Handlers, NEW w, Moves(h, w),
           UNCHANGED <<taskVars, body, choice>>, lost' \in 0 .. MaxLost,
           NEW k \in Keys, cmd[k].status # "completed", body[k] # NoBody,
           NEW row \in Rows, Writes(k, row),
           row.status = "completed" => row.answer \in Replies /\ row.answer.kind = "questions",
           HandlerOK(h, w)'
    PROVE  IInv'
<1>1. TypeOK'
  BY DEF IInv, TypeOK, taskVars, Moves, Writes
<1>2. Grows
  BY ReqsFacts DEF IInv, TypeOK, Grows, taskVars, Writes
<1>3. VersionInv' /\ MadeByInv' /\ BodyInv'
  BY DEF IInv, VersionInv, MadeByInv, BodyInv, Clarifiable, taskVars
<1>4. \A j \in Keys : cmd'[j] = IF j = k THEN row ELSE cmd[j]
  BY DEF Writes
<1>5. CommandInv'
  BY <1>4 DEF IInv, CommandInv
<1>6. ClarifiedPlanIsActive'
  BY <1>4 DEF IInv, ClarifiedPlanIsActive, Confirms, Clarifiable, taskVars
<1>7. HandlerInv'
  BY <1>2, HandlersKeep
<1> QED BY <1>1, <1>3, <1>5, <1>6, <1>7 DEF IInv

\* A new requirement, at the version that its maker expected.
LEMMA ActivateKeeps ==
    ASSUME IInv, NEW h \in Handlers, NEW w, Moves(h, w),
           UNCHANGED <<body, cmd, choice>>, lost' \in 0 .. MaxLost,
           NEW v \in Nat, NEW req \in Requirement, Activate(v, req),
           req.by = First => v = 1,
           req.by \in Keys => body[req.by] # NoBody /\ v = body[req.by].expected,
           HandlerOK(h, w)'
    PROVE  IInv'
<1>0. /\ Len(reqs) \in Nat /\ DOMAIN reqs = 1 .. Len(reqs) /\ reqs \in Seq(Requirement)
      /\ task \in Tasks
      /\ Clarifiable /\ task.version = v /\ v = Len(reqs) + 1
  BY ReqsFacts DEF IInv, TypeOK, Activate, MayActivate, VersionInv
<1>1. /\ reqs' \in Seq(Requirement) /\ Len(reqs') = Len(reqs) + 1
      /\ DOMAIN reqs' = 1 .. Len(reqs) + 1 /\ reqs'[Len(reqs) + 1] = req
      /\ \A i \in DOMAIN reqs : i \in DOMAIN reqs' /\ reqs'[i] = reqs[i]
  <2>1. /\ reqs' \in Seq(Requirement) /\ Len(reqs') = Len(reqs) + 1
        /\ reqs'[Len(reqs) + 1] = req /\ \A i \in 1 .. Len(reqs) : reqs'[i] = reqs[i]
    BY <1>0, AppendProperties DEF Activate
  <2> QED BY <1>0, <2>1, LenProperties
<1>2. /\ task' \in Tasks
      /\ task'.state = task.state /\ task'.version = v + 1 /\ task'.active = Len(reqs) + 1
      /\ task'.content = req.content /\ planned' = planned
  <2>1. /\ task' = [task EXCEPT !.version = v + 1, !.active = Len(reqs) + 1, !.content = req.content]
        /\ planned' = planned /\ req.content \in Nat
    BY DEF Activate, Requirement
  <2>2. /\ task'.state = task.state /\ task'.version = v + 1 /\ task'.active = Len(reqs) + 1
        /\ task'.content = req.content /\ task'.plan = task.plan
        /\ task' = [state |-> task'.state, version |-> task'.version, active |-> task'.active,
                    content |-> task'.content, plan |-> task'.plan]
    BY <1>0, <2>1 DEF Tasks
  <2> QED BY <1>0, <2>1, <2>2 DEF Tasks
<1>3. TypeOK'
  BY <1>1, <1>2 DEF IInv, TypeOK, Moves
<1>4. Grows
  BY <1>0, <1>1 DEF Grows
<1>5. VersionInv'
  BY <1>0, <1>1, <1>2 DEF VersionInv, Clarifiable
<1>6. MadeByInv'
  <2> SUFFICES ASSUME NEW i \in DOMAIN reqs'
               PROVE  /\ reqs'[i].by = First => i = 1
                      /\ reqs'[i].by \in Keys => body[reqs'[i].by] # NoBody /\ i = body[reqs'[i].by].expected
    BY DEF MadeByInv
  <2>1. CASE i \in DOMAIN reqs
    BY <1>1, <2>1 DEF IInv, MadeByInv
  <2>2. CASE i = Len(reqs) + 1
    BY <1>0, <1>1, <2>2
  <2> QED BY <1>0, <1>1, <2>1, <2>2
<1>7. BodyInv'
  BY <1>0, <1>1 DEF IInv, BodyInv
<1>8. CommandInv'
  BY DEF IInv, CommandInv
<1>9. ClarifiedPlanIsActive'
  <2>1. \A k \in Keys : ~(cmd[k].status = "completed" /\ cmd[k].answer.kind = "candidates")
    BY <1>0 DEF IInv, ClarifiedPlanIsActive
  <2> QED BY <2>1 DEF ClarifiedPlanIsActive
<1>10. HandlerInv'
  BY <1>4, HandlersKeep
<1> QED BY <1>3, <1>5, <1>6, <1>7, <1>8, <1>9, <1>10 DEF IInv

\* The task leaves the state in which it can be clarified, or is past it.
LEMMA PastClarification ==
    ASSUME IInv, NEW h \in Handlers, NEW w, Moves(h, w), HandlerOK(h, w)', Grows,
           UNCHANGED <<reqs, body>>, lost' \in 0 .. MaxLost,
           task' \in Tasks, ~Clarifiable', task'.active = task.active, planned' \in Nat,
           cmd' \in [Keys -> Rows], choice' \in [Selections -> Candidates \cup {None}],
           CommandInv', ClarifiedPlanIsActive'
    PROVE  IInv'
<1>1. TypeOK'
  BY DEF IInv, TypeOK, Moves
<1>2. VersionInv' /\ MadeByInv' /\ BodyInv'
  BY DEF IInv, VersionInv, MadeByInv, BodyInv
<1>3. HandlerInv'
  BY HandlersKeep
<1> QED BY <1>1, <1>2, <1>3 DEF IInv

-----------------------------------------------------------------------------
(* What a handler knows next.                                               *)

LEMMA ErrsMoves ==
    ASSUME IInv, NEW h \in Handlers, handler[h].pc # "idle",
           NEW why \in {"fault", "conflict"}, Errs(h, why)
    PROVE  \E w : Moves(h, w) /\ HandlerOK(h, w)
<1>1. handler \in [Handlers -> Known] /\ handler[h].key \in Keys \cup {None} /\ HandlerOK(h, handler[h])
  BY DEF IInv, TypeOK, HandlerInv, Known
<1>2. PICK w : w = [Fresh EXCEPT !.pc = IF h = First THEN "cleanup" ELSE "recover",
                                 !.key = KeyOf(h), !.why = why]
  OBVIOUS
<1>3. /\ w \in Known /\ w.pc = (IF h = First THEN "cleanup" ELSE "recover")
      /\ w.key = handler[h].key /\ w.got = None
  BY <1>1, <1>2 DEF Fresh, KeyOf, Known, Directions
<1>4. Moves(h, w)
  BY <1>1, <1>2, <1>3 DEF Errs, Moves
<1>5. HandlerOK(h, w)
  BY <1>1, <1>3 DEF HandlerOK
<1> QED BY <1>4, <1>5

LEMMA ReplyMoves ==
    ASSUME IInv, NEW h \in Handlers, handler[h].pc # "idle",
           NEW answer \in Replies \cup {None}, Reply(h, answer)
    PROVE  \E w : /\ Moves(h, w) /\ w.pc = "over" /\ w.key = handler[h].key /\ w.got = answer
                  /\ h = First \/ answer = None => HandlerOK(h, w)
<1>1. handler \in [Handlers -> Known] /\ handler[h].key \in Keys \cup {None} /\ HandlerOK(h, handler[h])
  BY DEF IInv, TypeOK, HandlerInv, Known
<1>2. PICK w : w = [Fresh EXCEPT !.pc = "over", !.key = KeyOf(h), !.got = answer]
  OBVIOUS
<1>3. w \in Known /\ w.pc = "over" /\ w.key = handler[h].key /\ w.got = answer
  BY <1>1, <1>2 DEF Fresh, KeyOf, Known, Directions
<1>4. Moves(h, w)
  BY <1>1, <1>2, <1>3 DEF Reply, Moves
<1>5. ASSUME h = First \/ answer = None PROVE HandlerOK(h, w)
  BY <1>1, <1>3, <1>5 DEF HandlerOK
<1> QED BY <1>3, <1>4, <1>5

\* Handler h goes on, and forgets nothing.
LEMMA GoMoves ==
    ASSUME IInv, NEW h \in Handlers, NEW pc, Go(h, pc), pc \in {"read", "giveup", "complete"}
    PROVE  \E w : Moves(h, w) /\ w.pc = pc /\ w.key = handler[h].key /\ w.got = handler[h].got
<1>1. handler \in [Handlers -> Known] /\ handler[h] \in Known
  BY DEF IInv, TypeOK
<1>2. PICK w : w = [handler[h] EXCEPT !.pc = pc]
  OBVIOUS
<1>3. w \in Known /\ w.pc = pc /\ w.key = handler[h].key /\ w.got = handler[h].got
  BY <1>1, <1>2 DEF Known
<1>4. Moves(h, w)
  BY <1>1, <1>2, <1>3 DEF Go, Moves
<1> QED BY <1>3, <1>4

LEMMA FinishMoves ==
    ASSUME IInv, NEW h \in Handlers, NEW n \in Nat, NEW v \in Nat, NEW chosen \in Directions,
           NEW recovery \in BOOLEAN, NEW c \in Nat, reqs'[n].content = c,
           Finish(h, n, v, chosen, recovery)
    PROVE  \E w : /\ Moves(h, w) /\ w.pc \in {"complete", "plan"} /\ w.key = handler[h].key
                  /\ w.at = v /\ w.of = n /\ w.content = c
                  /\ w.got = handler[h].got
<1>1. handler \in [Handlers -> Known] /\ handler[h] \in Known
  BY DEF IInv, TypeOK
<1>2. PICK pc \in {"complete", "plan"} : pc = IF reqs'[n].settled = "open" THEN "complete" ELSE "plan"
  OBVIOUS
<1>3. PICK w : w = [handler[h] EXCEPT !.pc = pc, !.at = v, !.of = n, !.content = c,
                                      !.chosen = chosen, !.recovery = recovery]
  OBVIOUS
<1>4. /\ w \in Known /\ w.pc = pc /\ w.key = handler[h].key /\ w.at = v /\ w.of = n
      /\ w.content = c /\ w.recovery = recovery /\ w.got = handler[h].got
  BY <1>1, <1>3 DEF Known
<1>5. Moves(h, w)
  BY <1>1, <1>2, <1>3, <1>4 DEF Finish, Moves
<1> QED BY <1>4, <1>5

-----------------------------------------------------------------------------
(* The steps of the commands.                                               *)

LEMMA SendKeeps ==
    ASSUME IInv, NEW r \in Requests, Send(r)
    PROVE  IInv'
<1>0. r \in Handlers /\ r # First /\ handler \in [Handlers -> Known] /\ handler[r] \in Known
      /\ HandlerOK(r, handler[r]) /\ handler[r].pc = "idle"
  BY PlanningAssumption DEF Handlers, IInv, TypeOK, HandlerInv, Send, At
<1>1. PICK k \in Keys : \E b \in IF body[k] = NoBody THEN Bodies ELSE {body[k]} :
        /\ body' = [body EXCEPT ![k] = b]
        /\ \E pc \in {"reserve", "over"} : handler' = [handler EXCEPT ![r].key = k, ![r].pc = pc]
        /\ reqs # <<>> /\ UNCHANGED <<taskVars, cmd, choice, lost>>
  BY DEF Send
<1>a. PICK b \in (IF body[k] = NoBody THEN Bodies ELSE {body[k]}), pc \in {"reserve", "over"} :
        /\ body' = [body EXCEPT ![k] = b]
        /\ handler' = [handler EXCEPT ![r].key = k, ![r].pc = pc]
        /\ reqs # <<>> /\ UNCHANGED <<taskVars, cmd, choice, lost>>
  BY <1>1
<1>2. /\ b \in [expected : Nat, answers : SUBSET Answers, scenario : Directions]
      /\ b.expected \in 2 .. Len(reqs) + 1 /\ b # NoBody /\ (body[k] # NoBody => b = body[k])
  <2>1. CASE body[k] = NoBody
    <3>1. b \in [expected : 2 .. Len(reqs) + 1, answers : SUBSET Answers, scenario : Scenarios \cup {None}]
      BY <1>a, <2>1 DEF Bodies
    <3>2. b.expected # 0
      BY <3>1, ReqsFacts DEF IInv
    <3> QED BY <2>1, <3>1, <3>2, ReqsFacts DEF NoBody, Directions, IInv
  <2>2. CASE body[k] # NoBody
    BY <1>a, <2>2 DEF IInv, TypeOK, BodyInv
  <2> QED BY <2>1, <2>2
<1>3. Grows /\ \A j \in Keys : body'[j] = IF j = k THEN b ELSE body[j]
  BY <1>a, <1>2, ReqsFacts DEF IInv, TypeOK, Grows, taskVars
<1>4. PICK w : w = [handler[r] EXCEPT !.key = k, !.pc = pc]
  OBVIOUS
<1>5. w \in Known /\ w.pc = pc /\ w.key = k /\ w.got = handler[r].got
  BY <1>0, <1>a, <1>4 DEF Known
<1>6. Moves(r, w)
  BY <1>0, <1>a, <1>4, <1>5 DEF Moves
<1>7. HandlerInv'
  <2>1. HandlerOK(r, w)'
    BY <1>0, <1>a, <1>2, <1>3, <1>5 DEF HandlerOK
  <2> QED BY <1>0, <1>3, <1>6, <2>1, HandlersKeep
<1>8. TypeOK'
  BY <1>a, <1>2, <1>6 DEF IInv, TypeOK, taskVars, Moves
<1>9. VersionInv' /\ BodyInv' /\ CommandInv'
  <2>1. VersionInv'
    BY <1>a DEF IInv, VersionInv, Clarifiable, taskVars
  <2>2. BodyInv'
    BY <1>a, <1>2, <1>3 DEF IInv, BodyInv, taskVars
  <2>3. CommandInv'
    BY <1>a, <1>2, <1>3 DEF IInv, CommandInv
  <2> QED BY <2>1, <2>2, <2>3
<1>10. MadeByInv'
  BY <1>a, <1>2, <1>3 DEF IInv, MadeByInv, taskVars
<1>11. ClarifiedPlanIsActive'
  <2>1. \A j \in Keys : cmd[j].status = "completed" => body'[j] = body[j]
    BY <1>3 DEF IInv, CommandInv, Grows
  <2> QED BY <1>a, <2>1 DEF IInv, ClarifiedPlanIsActive, Confirms, Clarifiable, taskVars
<1> QED BY <1>7, <1>8, <1>9, <1>10, <1>11 DEF IInv

LEMMA ReserveKeeps ==
    ASSUME IInv, NEW r \in Requests, Reserve(r)
    PROVE  IInv'
<1>0. /\ r \in Handlers /\ r # First /\ handler[r].pc = "reserve" /\ HandlerOK(r, handler[r])
      /\ UNCHANGED <<taskVars, body, choice, lost>> /\ lost' \in 0 .. MaxLost
  BY PlanningAssumption DEF Handlers, IInv, TypeOK, HandlerInv, Reserve, At
<1>1. PICK k \in Keys : k = KeyOf(r) /\ k = handler[r].key /\ body[k] # NoBody
  BY <1>0 DEF HandlerOK, KeyOf
<1>2. CASE cmd[k].status = "completed"
  <2>1. Reply(r, cmd[k].answer) /\ UNCHANGED cmd /\ cmd[k].answer \in Replies
    BY <1>1, <1>2 DEF Reserve, IInv, CommandInv
  <2>2. PICK w : Moves(r, w) /\ w.pc = "over" /\ w.key = k /\ w.got = cmd[k].answer
    BY <1>0, <1>1, <2>1, ReplyMoves
  <2>3. HandlerOK(r, w)
    BY <1>0, <1>1, <1>2, <2>2 DEF HandlerOK
  <2> QED BY <1>0, <2>1, <2>2, <2>3, LocalKeeps
<1>3. CASE End(r) /\ UNCHANGED cmd
  BY <1>0, <1>3, ReplyMoves, LocalKeeps DEF End
<1>4. CASE /\ cmd[k].status # "completed" /\ Go(r, "read")
           /\ cmd' = [cmd EXCEPT ![k] = [status |-> "pending", token |-> r, live |-> TRUE, answer |-> None]]
  <2>1. PICK w : Moves(r, w) /\ w.pc = "read" /\ w.key = k /\ w.got = handler[r].got
    BY <1>0, <1>1, <1>4, GoMoves
  <2>2. PICK row \in Rows : row = [status |-> "pending", token |-> r, live |-> TRUE, answer |-> None]
    BY DEF Rows
  <2>3. Writes(k, row)
    BY <1>4, <2>2 DEF IInv, TypeOK, Writes
  <2>4. HandlerOK(r, w)'
    BY <1>0, <1>1, <2>1 DEF HandlerOK
  <2> QED BY <1>0, <1>1, <1>4, <2>1, <2>2, <2>3, <2>4, CommandKeeps
<1> QED BY <1>1, <1>2, <1>3, <1>4 DEF Reserve

LEMMA ExpireKeeps ==
    ASSUME IInv, NEW k \in Keys, ExpireReservation(k)
    PROVE  IInv'
<1>1. /\ cmd[k].status = "pending" /\ cmd' = [cmd EXCEPT ![k].live = FALSE]
      /\ UNCHANGED <<taskVars, body, choice, handler, lost>> /\ lost' \in 0 .. MaxLost
      /\ First \in Handlers
  BY DEF ExpireReservation, Handlers, IInv, TypeOK
<1>2. PICK w : w = handler[First]
  OBVIOUS
<1>3. Moves(First, w) /\ HandlerOK(First, w)
  BY <1>1, <1>2 DEF Moves, IInv, TypeOK, HandlerInv
<1>4. PICK row \in Rows : row = [cmd[k] EXCEPT !.live = FALSE] /\ row.status = "pending"
  <2>1. cmd[k] \in Rows
    BY DEF IInv, TypeOK
  <2>2. [cmd[k] EXCEPT !.live = FALSE] \in Rows /\ [cmd[k] EXCEPT !.live = FALSE].status = "pending"
    BY <1>1, <2>1 DEF Rows
  <2> QED BY <2>2
<1>5. Writes(k, row)
  BY <1>1, <1>4 DEF IInv, TypeOK, Writes
<1>6. HandlerOK(First, w)'
  BY <1>1, <1>3 DEF HandlerOK, taskVars
<1> QED BY <1>1, <1>3, <1>4, <1>5, <1>6, CommandKeeps DEF IInv, CommandInv

\* What a handler knows, by its name.
LEMMA HandlerFacts ==
    ASSUME IInv, NEW h \in Handlers
    PROVE  /\ handler \in [Handlers -> Known] /\ handler[h] \in Known /\ HandlerOK(h, handler[h])
           /\ lost \in 0 .. MaxLost /\ (h # First => h \in Requests)
BY DEF IInv, TypeOK, HandlerInv, Handlers

LEMMA ReadTaskKeeps ==
    ASSUME IInv, NEW r \in Requests, ReadTask(r)
    PROVE  IInv'
<1>0. /\ r \in Handlers /\ r # First /\ handler[r].pc = "read"
      /\ UNCHANGED <<taskVars, body, cmd, choice, lost>> /\ lost' \in 0 .. MaxLost
      /\ handler \in [Handlers -> Known] /\ handler[r] \in Known /\ HandlerOK(r, handler[r])
  BY PlanningAssumption, HandlerFacts DEF Handlers, ReadTask, At
<1>1. PICK of \in Nat : of = IF Clarifiable THEN task.active ELSE 0
  BY DEF IInv, TypeOK, Tasks
<1>2. of = 0 \/ (of = task.version - 1 /\ of \in DOMAIN reqs)
  BY <1>1, ReqsFacts DEF IInv, VersionInv, TypeOK, Tasks
<1>3. task.version \in Nat
  BY DEF IInv, TypeOK, Tasks
<1>4. PICK w : w = [handler[r] EXCEPT !.pc = "decide", !.at = task.version, !.of = of]
  OBVIOUS
<1>5. /\ w \in Known /\ w.pc = "decide" /\ w.key = handler[r].key /\ w.got = handler[r].got
      /\ w.at = task.version /\ w.of = of
  BY <1>0, <1>3, <1>4 DEF Known
<1>6. Moves(r, w)
  BY <1>0, <1>1, <1>4, <1>5 DEF ReadTask, Moves
<1>7. HandlerOK(r, w)
  BY <1>0, <1>2, <1>5 DEF HandlerOK
<1> QED BY <1>0, <1>6, <1>7, LocalKeeps

\* The three ways on from the requirement that is active.
LEMMA DecideKeeps ==
    ASSUME IInv, NEW r \in Requests, Decide(r)
    PROVE  IInv'
<1>0. /\ r \in Handlers /\ r # First /\ handler[r].pc = "decide"
      /\ UNCHANGED <<taskVars, body, cmd, choice, lost>> /\ lost' \in 0 .. MaxLost
      /\ handler \in [Handlers -> Known] /\ handler[r] \in Known /\ HandlerOK(r, handler[r])
  BY PlanningAssumption, HandlerFacts DEF Handlers, Decide, At
<1>1. PICK k \in Keys : k = handler[r].key /\ Body(r) = body[k] /\ body[k] # NoBody
  BY <1>0 DEF HandlerOK, Body, KeyOf
<1>2. PICK n : n = task.active
  OBVIOUS
<1>3. /\ n = Len(reqs) /\ n \in Nat \ {0} /\ n \in DOMAIN reqs /\ reqs[n] \in Requirement
      /\ body[k].expected \in Nat /\ body[k].scenario \in Directions
      /\ reqs' = reqs /\ reqs[n].content \in Nat
  BY <1>0, <1>1, <1>2, ReqsFacts DEF IInv, VersionInv, BodyInv, TypeOK, taskVars, Requirement
<1>4. CASE Errs(r, "fault") \/ Errs(r, "conflict")
  BY <1>0, <1>4, ErrsMoves, LocalKeeps
<1>5. CASE /\ handler[r].at = body[k].expected /\ handler[r].of = n /\ body[k].answers = {}
           /\ reqs[n].guided => reqs[n].scenario = body[k].scenario
           /\ Finish(r, n, handler[r].at, body[k].scenario, ~reqs[n].guided)
  <2>1. handler[r].at \in Nat /\ n = body[k].expected - 1
    BY <1>0, <1>3, <1>5 DEF HandlerOK, Known
  <2>2. PICK pc \in {"complete", "plan"} : pc = IF reqs'[n].settled = "open" THEN "complete" ELSE "plan"
    OBVIOUS
  <2>3. PICK w : w = [handler[r] EXCEPT !.pc = pc, !.at = handler[r].at, !.of = n,
                        !.content = reqs'[n].content, !.chosen = body[k].scenario,
                        !.recovery = ~reqs[n].guided]
    OBVIOUS
  <2>4. /\ w \in Known /\ w.pc = pc /\ w.key = k /\ w.of = n /\ w.content = reqs[n].content
        /\ w.recovery = ~reqs[n].guided /\ w.got = handler[r].got
    BY <1>0, <1>1, <1>3, <2>1, <2>3 DEF Known
  <2>5. Moves(r, w)
    BY <1>0, <1>5, <2>2, <2>3, <2>4 DEF Finish, Moves
  <2>6. ~w.recovery => MayPlan(k, w.content)
    <3>1. ASSUME ~w.recovery PROVE Confirms(k, n)
      BY <1>3, <1>5, <2>4, <3>1 DEF Confirms
    <3> QED BY <2>1, <2>4, <3>1 DEF MayPlan
  <2>7. HandlerOK(r, w)
    BY <1>0, <1>1, <1>3, <2>4, <2>6 DEF HandlerOK
  <2> QED BY <1>0, <2>5, <2>7, LocalKeeps
<1>6. CASE /\ handler[r].at = body[k].expected + 1 /\ handler[r].of = n
           /\ Finish(r, n, handler[r].at, body[k].scenario, FALSE)
  <2>1. handler[r].at \in Nat /\ n = body[k].expected
    BY <1>0, <1>3, <1>6 DEF HandlerOK, Known
  <2>2. PICK w : /\ Moves(r, w) /\ w.pc \in {"complete", "plan"} /\ w.key = k
                 /\ w.of = n /\ w.content = reqs[n].content /\ w.got = handler[r].got
    <3>1. PICK recovery \in BOOLEAN : Finish(r, n, handler[r].at, body[k].scenario, recovery)
      BY <1>6, Zenon
    <3> QED BY <1>0, <1>1, <1>3, <2>1, <3>1, FinishMoves
  <2>3. MayPlan(k, w.content)
    BY <1>3, <2>1, <2>2 DEF MayPlan
  <2>4. HandlerOK(r, w)
    BY <1>0, <1>1, <1>3, <2>2, <2>3 DEF HandlerOK
  <2> QED BY <1>0, <2>2, <2>4, LocalKeeps
<1>7. ASSUME NEW pc \in {"choose", "refine"}, handler' = [handler EXCEPT ![r].of = n, ![r].pc = pc]
      PROVE  IInv'
  <2>1. PICK w : w = [handler[r] EXCEPT !.of = n, !.pc = pc]
    OBVIOUS
  <2>2. w \in Known /\ w.pc = pc /\ w.key = k /\ w.got = handler[r].got /\ w.of = n
    BY <1>0, <1>1, <1>3, <2>1 DEF Known
  <2>3. Moves(r, w)
    BY <1>0, <1>7, <2>1, <2>2 DEF Moves
  <2>4. HandlerOK(r, w)
    BY <1>0, <1>1, <1>3, <2>2 DEF HandlerOK
  <2> QED BY <1>0, <2>3, <2>4, LocalKeeps
<1>8. CASE handler' = [handler EXCEPT ![r].of = n,
             ![r].pc = IF reqs[n].guided /\ body[k].answers = {} THEN "choose" ELSE "refine"]
  BY <1>7, <1>8
<1> QED BY <1>1, <1>2, <1>4, <1>5, <1>6, <1>8 DEF Decide

\* After a version for the body of a clarification, or for the planning request.
LEMMA PlansItsVersion ==
    ASSUME IInv, NEW h \in Handlers, handler[h].pc \in {"refine", "choose"},
           NEW v \in Nat, NEW req \in Requirement, Activate(v, req),
           h # First => v = Body(h).expected, h = First => v = 1,
           req.by = IF h = First THEN First ELSE KeyOf(h),
           UNCHANGED <<body, cmd, choice>>, NEW chosen \in Directions,
           \/ Finish(h, Len(reqs) + 1, v + 1, chosen, FALSE) /\ UNCHANGED lost
           \/ Loses(h)
    PROVE  IInv'
<1>0. /\ handler \in [Handlers -> Known] /\ handler[h] \in Known /\ HandlerOK(h, handler[h])
      /\ lost \in 0 .. MaxLost /\ handler[h].pc # "idle" /\ handler[h].pc # "over"
  BY HandlerFacts
<1>1. h # First => /\ handler[h].key \in Keys /\ body[handler[h].key] # NoBody
                   /\ v = body[handler[h].key].expected /\ req.by = handler[h].key
  BY <1>0 DEF HandlerOK, Body, KeyOf
<1>2. /\ v = Len(reqs) + 1 /\ Len(reqs) \in Nat /\ reqs \in Seq(Requirement)
      /\ DOMAIN reqs = 1 .. Len(reqs)
  BY ReqsFacts DEF IInv, TypeOK, VersionInv, Activate, MayActivate
<1>3. /\ reqs' = Append(reqs, req) /\ reqs' \in Seq(Requirement) /\ reqs'[Len(reqs) + 1] = req
      /\ DOMAIN reqs' = 1 .. Len(reqs) + 1 /\ \A i \in DOMAIN reqs : reqs'[i] = reqs[i]
      /\ req.content \in Nat
  <2>1. /\ reqs' = Append(reqs, req) /\ reqs' \in Seq(Requirement) /\ Len(reqs') = Len(reqs) + 1
        /\ reqs'[Len(reqs) + 1] = req /\ \A i \in 1 .. Len(reqs) : reqs'[i] = reqs[i]
    BY <1>2, AppendProperties DEF Activate
  <2> QED BY <1>2, <2>1, LenProperties DEF Requirement
<1>4. /\ req.by = First => v = 1
      /\ req.by \in Keys => body[req.by] # NoBody /\ v = body[req.by].expected
  BY <1>1, PlanningAssumption
<1>5. CASE Finish(h, Len(reqs) + 1, v + 1, chosen, FALSE) /\ UNCHANGED lost
  <2>1. PICK n \in Nat : n = Len(reqs) + 1
    BY <1>2
  <2>2. PICK w : /\ Moves(h, w) /\ w.pc \in {"complete", "plan"} /\ w.key = handler[h].key
                 /\ w.of = n /\ w.content = req.content /\ w.got = handler[h].got
    <3>1. PICK recovery \in BOOLEAN : Finish(h, Len(reqs) + 1, v + 1, chosen, recovery)
      BY <1>5, Zenon
    <3>2. v + 1 \in Nat
      OBVIOUS
    <3> QED BY <1>2, <1>3, <2>1, <3>1, <3>2, FinishMoves
  <2>3. h # First => MayPlan(w.key, w.content)'
    BY <1>1, <1>2, <1>3, <2>1, <2>2 DEF MayPlan
  <2>4. HandlerOK(h, w)'
    BY <1>0, <1>1, <1>2, <1>3, <2>1, <2>2, <2>3 DEF HandlerOK
  <2> QED BY <1>0, <1>4, <1>5, <2>2, <2>4, ActivateKeeps
<1>6. CASE Loses(h)
  <2>1. PICK w : Moves(h, w) /\ HandlerOK(h, w)
    BY <1>0, <1>6, ErrsMoves DEF Loses
  <2>2. Grows
    BY <1>2, <1>3 DEF Grows
  <2>3. HandlerOK(h, w)'
    BY <2>1, <2>2, HandlerOKStays DEF IInv, Moves
  <2>4. lost' \in 0 .. MaxLost
    BY <1>0, <1>6, PlanningAssumption DEF Loses
  <2> QED BY <1>4, <2>1, <2>3, <2>4, ActivateKeeps
<1> QED BY <1>5, <1>6

\* A handler that errs changes nothing else.
LEMMA ErrsKeep ==
    ASSUME IInv, NEW h \in Handlers, handler[h].pc # "idle",
           NEW why \in {"fault", "conflict"}, Errs(h, why),
           UNCHANGED <<taskVars, body, cmd, choice>>, UNCHANGED lost
    PROVE  IInv'
BY HandlerFacts, ErrsMoves, LocalKeeps

LEMMA RefineKeeps ==
    ASSUME IInv, NEW h \in Handlers, Refine(h)
    PROVE  IInv'
<1>0. /\ handler[h].pc = "refine" /\ handler[h] \in Known /\ HandlerOK(h, handler[h])
      /\ UNCHANGED <<body, cmd, choice>>
  BY HandlerFacts DEF Refine, At
<1>1. CASE Errs(h, "conflict") /\ UNCHANGED <<taskVars, lost>>
  BY <1>0, <1>1, ErrsKeep
<1>2. ASSUME NEW v \in Nat, NEW b, b = Body(h), NEW kept,
             v = IF h = First THEN handler[h].at ELSE b.expected,
             kept = IF h = First THEN [guided |-> FALSE, scenario |-> None, answers |-> {}]
                    ELSE Stored(b, handler[h].of),
             NEW c \in {kept, [guided |-> FALSE, scenario |-> None, answers |-> b.answers]},
             NEW settled \in {"open", "loose", "final"},
             Activate(v, [guided |-> c.guided, scenario |-> c.scenario, answers |-> c.answers,
                          content |-> Len(reqs) + 1, settled |-> settled,
                          by |-> IF h = First THEN First ELSE KeyOf(h)]),
             \/ Finish(h, Len(reqs) + 1, v + 1, c.scenario, FALSE) /\ UNCHANGED lost
             \/ Loses(h)
      PROVE  IInv'
  <2>1. /\ b.answers \in SUBSET Answers /\ b.scenario \in Directions
        /\ h # First => handler[h].key \in Keys /\ handler[h].of \in DOMAIN reqs
    BY <1>0, <1>2 DEF HandlerOK, Body, KeyOf, NoBody, Directions, IInv, TypeOK
  <2>2. h # First => reqs[handler[h].of] \in Requirement
    BY <2>1, ReqsFacts DEF IInv
  <2>3. c.guided \in BOOLEAN /\ c.scenario \in Directions /\ c.answers \in SUBSET Answers
    <3>1. CASE h = First /\ c = kept
      BY <1>2, <3>1 DEF Directions
    <3>2. CASE h # First /\ c = kept
      BY <1>2, <2>1, <2>2, <3>2 DEF Stored, Requirement, Directions
    <3>3. CASE c = [guided |-> FALSE, scenario |-> None, answers |-> b.answers]
      BY <2>1, <3>3 DEF Directions
    <3> QED BY <3>1, <3>2, <3>3
  <2>4. PICK req : req = [guided |-> c.guided, scenario |-> c.scenario, answers |-> c.answers,
                          content |-> Len(reqs) + 1, settled |-> settled,
                          by |-> IF h = First THEN First ELSE KeyOf(h)]
    OBVIOUS
  <2>5. /\ req \in Requirement /\ req.by = (IF h = First THEN First ELSE KeyOf(h))
        /\ Activate(v, req)
    <3>1. Len(reqs) + 1 \in Nat
      BY ReqsFacts DEF IInv
    <3> QED BY <1>2, <2>1, <2>3, <2>4, <3>1 DEF Requirement, KeyOf
  <2>6. (h # First => v = Body(h).expected) /\ (h = First => v = 1)
    BY <1>0, <1>2 DEF HandlerOK
  <2>7. handler[h].pc \in {"refine", "choose"}
    BY <1>0
  <2>8. PICK chosen \in Directions : chosen = c.scenario
    BY <2>3
  <2>9. \/ Finish(h, Len(reqs) + 1, v + 1, chosen, FALSE) /\ UNCHANGED lost
        \/ Loses(h)
    BY <1>2, <2>8, Zenon
  <2> QED BY <1>0, <2>5, <2>6, <2>7, <2>9, PlansItsVersion
<1>3. PICK v \in Nat : v = IF h = First THEN handler[h].at ELSE Body(h).expected
  BY <1>0 DEF Known, Body, HandlerOK, KeyOf, IInv, TypeOK
<1>4. PICK kept : kept = IF h = First THEN [guided |-> FALSE, scenario |-> None, answers |-> {}]
                         ELSE Stored(Body(h), handler[h].of)
  OBVIOUS
<1> QED BY <1>1, <1>2, <1>3, <1>4 DEF Refine

LEMMA ChooseKeeps ==
    ASSUME IInv, NEW r \in Requests, Choose(r)
    PROVE  IInv'
<1>0. /\ r \in Handlers /\ r # First /\ handler[r].pc = "choose" /\ HandlerOK(r, handler[r])
      /\ UNCHANGED <<body, cmd, choice>>
  BY PlanningAssumption, HandlerFacts DEF Handlers, Choose, At
<1>1. CASE Errs(r, "conflict") /\ UNCHANGED <<taskVars, lost>>
  BY <1>0, <1>1, ErrsKeep
<1>2. PICK k \in Keys, n \in DOMAIN reqs : /\ k = KeyOf(r) /\ n = handler[r].of /\ Body(r) = body[k]
                                           /\ reqs[n] \in Requirement
  BY <1>0, ReqsFacts DEF HandlerOK, Body, KeyOf, IInv
<1>3. /\ body[k].expected \in Nat /\ body[k].answers \in SUBSET Answers
      /\ body[k].scenario \in Directions
  BY DEF IInv, TypeOK
<1>4. CASE /\ Activate(body[k].expected,
                       [guided |-> TRUE, scenario |-> body[k].scenario, answers |-> body[k].answers,
                        content |-> reqs[n].content, settled |-> reqs[n].settled, by |-> k])
           /\ \/ Finish(r, Len(reqs) + 1, body[k].expected + 1, body[k].scenario, FALSE) /\ UNCHANGED lost
              \/ Loses(r)
  <2>1. PICK v \in Nat, chosen \in Directions : v = body[k].expected /\ chosen = body[k].scenario
    BY <1>3
  <2>2. PICK req : req = [guided |-> TRUE, scenario |-> body[k].scenario, answers |-> body[k].answers,
                          content |-> reqs[n].content, settled |-> reqs[n].settled, by |-> k]
    OBVIOUS
  <2>3. req \in Requirement /\ req.by = (IF r = First THEN First ELSE KeyOf(r))
    BY <1>0, <1>2, <1>3, <2>2 DEF Requirement
  <2>4. Activate(v, req)
    BY <1>4, <2>1, <2>2
  <2>5. \/ Finish(r, Len(reqs) + 1, v + 1, chosen, FALSE) /\ UNCHANGED lost
        \/ Loses(r)
    BY <1>4, <2>1, Zenon
  <2>6. (r # First => v = Body(r).expected) /\ handler[r].pc \in {"refine", "choose"}
    BY <1>0, <1>2, <2>1
  <2> QED BY <1>0, <2>3, <2>4, <2>5, <2>6, PlansItsVersion
<1> QED BY <1>1, <1>2, <1>4 DEF Choose

-----------------------------------------------------------------------------
(* The steps of planning.                                                   *)

LEMMA PlanKeeps ==
    ASSUME IInv, NEW h \in Handlers, Plan(h)
    PROVE  IInv'
<1>0. /\ handler[h].pc = "plan" /\ handler \in [Handlers -> Known] /\ handler[h] \in Known
      /\ HandlerOK(h, handler[h]) /\ UNCHANGED <<taskVars, body, cmd, choice, lost>>
      /\ lost' \in 0 .. MaxLost /\ task.version \in Nat
  BY HandlerFacts DEF Plan, At, IInv, TypeOK, Tasks
<1>1. PICK w : w = [handler[h] EXCEPT !.pc = "persist", !.at = task.version]
  OBVIOUS
<1>2. /\ w \in Known /\ w.pc = "persist" /\ w.key = handler[h].key /\ w.of = handler[h].of
      /\ w.content = handler[h].content /\ w.recovery = handler[h].recovery /\ w.got = handler[h].got
  BY <1>0, <1>1 DEF Known
<1>3. Moves(h, w)
  BY <1>0, <1>1, <1>2 DEF Plan, Moves
<1>4. HandlerOK(h, w)
  BY <1>0, <1>2 DEF HandlerOK
<1> QED BY <1>0, <1>3, <1>4, LocalKeeps

LEMMA GuideKeeps ==
    ASSUME IInv, NEW h \in Handlers, Guide(h)
    PROVE  IInv'
<1>0. /\ handler[h].pc = "plan" /\ handler[h] \in Known /\ HandlerOK(h, handler[h])
      /\ UNCHANGED <<body, cmd, choice>> /\ lost \in 0 .. MaxLost
  BY HandlerFacts DEF Guide, At
<1>1. CASE Errs(h, "conflict") /\ UNCHANGED <<taskVars, lost>>
  BY <1>0, <1>1, ErrsKeep
<1>2. PICK n \in DOMAIN reqs, v \in Nat : n = handler[h].of /\ v = handler[h].at /\ reqs[n] \in Requirement
  BY <1>0, ReqsFacts DEF HandlerOK, Known, IInv
<1>3. PICK req : req = [guided |-> TRUE, scenario |-> None, answers |-> {},
                        content |-> handler[h].content, settled |-> reqs[n].settled, by |-> None]
  OBVIOUS
<1>4. req \in Requirement /\ req.by = None
  BY <1>0, <1>2, <1>3 DEF Requirement, Known, Directions
<1>5. CASE /\ Activate(v, req)
           /\ \/ handler' = [handler EXCEPT ![h].pc = "complete"] /\ UNCHANGED lost
              \/ Loses(h)
  <2>0. Grows /\ v = Len(reqs) + 1 /\ ~(req.by \in Keys)
    <3>1. reqs \in Seq(Requirement) /\ reqs' = Append(reqs, req) /\ v = Len(reqs) + 1
      BY <1>2, <1>5 DEF IInv, TypeOK, VersionInv, Activate, MayActivate
    <3> QED BY <1>0, <1>4, <3>1, AppendProperties, LenProperties, PlanningAssumption DEF Grows
  <2>a. req.by # First
    BY <1>4, PlanningAssumption
  <2>1. CASE Go(h, "complete") /\ UNCHANGED lost
    <3>1. PICK w : Moves(h, w) /\ w.pc = "complete" /\ w.key = handler[h].key /\ w.got = handler[h].got
      BY <2>1, GoMoves
    <3>2. HandlerOK(h, w)
      BY <1>0, <3>1 DEF HandlerOK
    <3>3. HandlerOK(h, w)'
      BY <2>0, <3>1, <3>2, HandlerOKStays DEF IInv, Moves
    <3> QED BY <1>0, <1>4, <1>5, <2>0, <2>a, <2>1, <3>1, <3>3, ActivateKeeps
  <2>2. CASE Loses(h)
    <3>1. PICK w : Moves(h, w) /\ HandlerOK(h, w)
      BY <1>0, <2>2, ErrsMoves DEF Loses
    <3>2. HandlerOK(h, w)'
      BY <2>0, <3>1, HandlerOKStays DEF IInv, Moves
    <3>3. lost' \in 0 .. MaxLost
      BY <1>0, <2>2, PlanningAssumption DEF Loses
    <3> QED BY <1>0, <1>4, <1>5, <2>0, <2>a, <3>1, <3>2, <3>3, ActivateKeeps
  <2> QED BY <1>5, <2>1, <2>2 DEF Go
<1> QED BY <1>1, <1>2, <1>3, <1>5 DEF Guide

\* While a task can be clarified, no command was answered with candidates.
LEMMA NoCandidatesYet ==
    ASSUME IInv, Clarifiable, NEW k \in Keys, cmd[k].status = "completed"
    PROVE  cmd[k].answer.kind # "candidates"
BY DEF IInv, ClarifiedPlanIsActive

LEMMA CandidateFacts ==
    ASSUME task \in Tasks, NEW h \in Handlers, Candidate(h), handler[h].content \in Nat
    PROVE  /\ task' \in Tasks /\ ~Clarifiable' /\ task'.active = task.active
           /\ task'.content = handler[h].content /\ planned' = handler[h].content /\ reqs' = reqs
<1>1. /\ task' = [task EXCEPT !.state = "awaiting_selection", !.version = @ + 1,
                              !.content = handler[h].content]
      /\ planned' = handler[h].content /\ reqs' = reqs
  BY DEF Candidate
<1>2. /\ task'.state = "awaiting_selection" /\ task'.version = task.version + 1
      /\ task'.active = task.active /\ task'.content = handler[h].content /\ task'.plan = task.plan
      /\ task' = [state |-> task'.state, version |-> task'.version, active |-> task'.active,
                  content |-> task'.content, plan |-> task'.plan]
  BY <1>1 DEF Tasks
<1>3. task' \in Tasks
  BY <1>2 DEF Tasks, States
<1> QED BY <1>1, <1>2, <1>3 DEF Clarifiable

LEMMA PersistKeeps ==
    ASSUME IInv, NEW r \in Requests, Persist(r)
    PROVE  IInv'
<1>0. /\ r \in Handlers /\ r # First /\ handler[r].pc = "persist" /\ handler[r] \in Known
      /\ HandlerOK(r, handler[r]) /\ UNCHANGED <<body, choice>> /\ lost \in 0 .. MaxLost
  BY PlanningAssumption, HandlerFacts DEF Handlers, Persist, At
<1>1. CASE Errs(r, "conflict") /\ UNCHANGED <<taskVars, cmd, lost>>
  BY <1>0, <1>1, ErrsKeep
<1>2. CASE /\ MayPersist(r) /\ Candidate(r)
           /\ cmd' = [cmd EXCEPT ![KeyOf(r)] = Completed(Answer("candidates", r))]
           /\ \/ Reply(r, Answer("candidates", r)) /\ UNCHANGED lost
              \/ Loses(r)
  <2>1. PICK k \in Keys, c \in Nat :
          /\ k = KeyOf(r) /\ k = handler[r].key /\ Body(r) = body[k] /\ body[k] # NoBody
          /\ c = handler[r].content
    BY <1>0 DEF HandlerOK, Body, KeyOf, Known
  <2>2. /\ Clarifiable /\ cmd[k].status = "pending" /\ task \in Tasks /\ cmd \in [Keys -> Rows]
        /\ choice \in [Selections -> Candidates \cup {None}]
    BY <1>2, <2>1 DEF MayPersist, Holds, Row, IInv, TypeOK
  <2>3. PICK a \in Replies : /\ a = Answer("candidates", r) /\ a.content = c
                             /\ a.kind = "candidates"
    <3>1. Answer("candidates", r) = [kind |-> "candidates", content |-> c]
      BY <2>1 DEF Answer
    <3> QED BY <3>1 DEF Replies
  <2>4. PICK row \in Rows : /\ row = Completed(Answer("candidates", r)) /\ row.status = "completed"
                            /\ row.answer = a
    <3>1. Completed(Answer("candidates", r)) =
            [status |-> "completed", token |-> None, live |-> FALSE, answer |-> a]
      BY <2>3 DEF Completed
    <3>2. [status |-> "completed", token |-> None, live |-> FALSE, answer |-> a] \in Rows
      BY DEF Rows
    <3> QED BY <3>1, <3>2
  <2>5. Writes(k, row)
    BY <1>2, <2>1, <2>2, <2>4 DEF Writes
  <2>6. /\ task' \in Tasks /\ ~Clarifiable' /\ task'.active = task.active /\ task'.content = c
        /\ planned' = c /\ reqs' = reqs
    BY <1>0, <1>2, <2>1, <2>2, CandidateFacts
  <2>7. Grows
    BY <1>0, <2>2, <2>5, <2>6, ReqsFacts DEF Grows, Writes, IInv
  <2>8. CommandInv'
    BY <1>0, <2>1, <2>3, <2>4, <2>5 DEF CommandInv, Writes, IInv
  <2>9. ClarifiedPlanIsActive'
    <3>1. /\ task.active = Len(reqs) /\ task.version = Len(reqs) + 1 /\ Len(reqs) \in Nat
          /\ body[k].expected \in Nat
          /\ reqs # <<>> => task.content = reqs[Len(reqs)].content
      BY <2>2, ReqsFacts DEF IInv, VersionInv, TypeOK
    <3>2. \/ reqs[task.active].content = c
          \/ Confirms(k, body[k].expected - 1) /\ reqs[body[k].expected - 1].content = c
      <4>1. CASE handler[r].recovery
        <5>1. task.content = c /\ handler[r].of \in DOMAIN reqs
          BY <1>0, <1>2, <2>1, <4>1 DEF MayPersist, HandlerOK
        <5>2. reqs # <<>>
          BY <5>1, ReqsFacts DEF IInv
        <5> QED BY <3>1, <5>1, <5>2
      <4>2. CASE ~handler[r].recovery
        <5>1. Len(reqs) + 1 = body[k].expected + 1
          BY <1>2, <2>1, <3>1, <4>2 DEF MayPersist
        <5>2. MayPlan(k, c)
          BY <1>0, <2>1, <4>2 DEF HandlerOK
        <5> QED BY <3>1, <5>1, <5>2 DEF MayPlan
      <4> QED BY <4>1, <4>2
    <3>3. \A j \in Keys : cmd'[j].status = "completed" /\ cmd'[j].answer.kind = "candidates" => j = k
      BY <2>2, <2>5, NoCandidatesYet DEF Writes
    <3>4. body' = body /\ cmd'[k].answer.content = c
      BY <1>0, <2>3, <2>4, <2>5 DEF Writes
    <3> QED BY <2>6, <3>2, <3>3, <3>4 DEF ClarifiedPlanIsActive, Confirms
  <2>10. CASE Reply(r, Answer("candidates", r)) /\ UNCHANGED lost
    <3>1. PICK w : Moves(r, w) /\ w.pc = "over" /\ w.key = k /\ w.got = a
      BY <1>0, <2>1, <2>3, <2>10, ReplyMoves
    <3>2. HandlerOK(r, w)'
      BY <1>0, <2>1, <2>4, <2>5, <3>1 DEF HandlerOK, Writes
    <3> QED BY <1>0, <2>2, <2>5, <2>6, <2>7, <2>8, <2>9, <2>10, <3>1, <3>2, PastClarification DEF Writes
  <2>11. CASE Loses(r)
    <3>1. PICK w : Moves(r, w) /\ HandlerOK(r, w)
      BY <1>0, <2>11, ErrsMoves DEF Loses
    <3>2. HandlerOK(r, w)'
      BY <1>0, <2>7, <3>1, HandlerOKStays DEF IInv, Moves
    <3>3. lost' \in 0 .. MaxLost
      BY <1>0, <2>11, PlanningAssumption DEF Loses
    <3> QED BY <1>0, <2>2, <2>5, <2>6, <2>7, <2>8, <2>9, <3>1, <3>2, <3>3, PastClarification DEF Writes
  <2> QED BY <1>2, <2>10, <2>11
<1> QED BY <1>1, <1>2 DEF Persist

\* The task of the planning request gets its candidates, or fails.
LEMMA FirstMovesTask ==
    ASSUME IInv, Clarifiable, NEW w, Moves(First, w), HandlerOK(First, w),
           UNCHANGED <<reqs, body, cmd, choice>>, lost' \in 0 .. MaxLost,
           task' \in Tasks, ~Clarifiable', task'.active = task.active, planned' \in Nat
    PROVE  IInv'
<1>1. Grows /\ First \in Handlers
  BY ReqsFacts DEF Grows, IInv, Handlers
<1>2. HandlerOK(First, w)'
  BY <1>1, HandlerOKStays DEF IInv, Moves
<1>3. CommandInv'
  BY DEF IInv, CommandInv
<1>4. ClarifiedPlanIsActive'
  <2>1. \A k \in Keys : ~(cmd'[k].status = "completed" /\ cmd'[k].answer.kind = "candidates")
    BY NoCandidatesYet
  <2> QED BY <2>1 DEF ClarifiedPlanIsActive
<1>5. cmd' \in [Keys -> Rows] /\ choice' \in [Selections -> Candidates \cup {None}]
  BY DEF IInv, TypeOK
<1> QED BY <1>1, <1>2, <1>3, <1>4, <1>5, PastClarification

LEMMA PersistFirstKeeps ==
    ASSUME IInv, PersistFirst
    PROVE  IInv'
<1>0. /\ First \in Handlers /\ handler[First].pc = "persist" /\ handler[First] \in Known
      /\ UNCHANGED <<body, cmd, choice>> /\ lost \in 0 .. MaxLost /\ task \in Tasks
  BY HandlerFacts DEF Handlers, PersistFirst, At, IInv, TypeOK
<1>1. CASE Errs(First, "conflict") /\ UNCHANGED <<taskVars, lost>>
  BY <1>0, <1>1, ErrsKeep
<1>2. CASE /\ MayActivate(handler[First].at) /\ Candidate(First)
           /\ \/ Reply(First, Answer("candidates", First)) /\ UNCHANGED lost
              \/ Loses(First)
  <2>1. handler[First].content \in Nat
    BY <1>0 DEF Known
  <2>2. /\ task' \in Tasks /\ ~Clarifiable' /\ task'.active = task.active
        /\ planned' \in Nat /\ reqs' = reqs /\ Clarifiable
    BY <1>0, <1>2, <2>1, CandidateFacts DEF MayActivate
  <2>3. Answer("candidates", First) \in Replies
    BY <2>1 DEF Answer, Replies
  <2>4. CASE Reply(First, Answer("candidates", First)) /\ UNCHANGED lost
    <3>1. PICK w : Moves(First, w) /\ HandlerOK(First, w)
      BY <1>0, <2>3, <2>4, ReplyMoves
    <3> QED BY <1>0, <2>2, <2>4, <3>1, FirstMovesTask
  <2>5. CASE Loses(First)
    <3>1. PICK w : Moves(First, w) /\ HandlerOK(First, w)
      BY <1>0, <2>5, ErrsMoves DEF Loses
    <3>2. lost' \in 0 .. MaxLost
      BY <1>0, <2>5, PlanningAssumption DEF Loses
    <3> QED BY <1>0, <2>2, <3>1, <3>2, FirstMovesTask
  <2> QED BY <1>2, <2>4, <2>5
<1> QED BY <1>1, <1>2 DEF PersistFirst

LEMMA CompleteKeeps ==
    ASSUME IInv, NEW h \in Handlers, Complete(h)
    PROVE  IInv'
<1>0. /\ handler[h].pc = "complete" /\ handler[h] \in Known /\ HandlerOK(h, handler[h])
      /\ UNCHANGED <<taskVars, body, choice>> /\ lost \in 0 .. MaxLost
  BY HandlerFacts DEF Complete, At
<1>1. PICK a \in Replies : a = Answer("questions", h) /\ a.kind = "questions"
  <2>1. Answer("questions", h) \in Replies /\ Answer("questions", h).kind = "questions"
    BY <1>0 DEF Answer, Replies, Known
  <2> QED BY <2>1
<1>2. CASE h = First /\ Reply(h, Answer("questions", h)) /\ UNCHANGED <<cmd, lost>>
  <2>1. PICK w : Moves(h, w) /\ HandlerOK(h, w)
    BY <1>0, <1>1, <1>2, ReplyMoves
  <2> QED BY <1>0, <1>2, <2>1, LocalKeeps
<1>3. CASE Errs(h, "conflict") /\ UNCHANGED <<cmd, lost>>
  BY <1>0, <1>3, ErrsKeep
<1>4. CASE /\ h # First /\ Holds(h)
           /\ cmd' = [cmd EXCEPT ![KeyOf(h)] = Completed(Answer("questions", h))]
           /\ \/ Reply(h, Answer("questions", h)) /\ UNCHANGED lost
              \/ Loses(h)
  <2>1. PICK k \in Keys : k = KeyOf(h) /\ k = handler[h].key /\ body[k] # NoBody
    BY <1>0, <1>4 DEF HandlerOK, KeyOf
  <2>2. cmd \in [Keys -> Rows] /\ cmd[k].status = "pending"
    BY <1>4, <2>1 DEF Holds, Row, IInv, TypeOK
  <2>3. PICK row \in Rows : /\ row = Completed(Answer("questions", h)) /\ row.status = "completed"
                            /\ row.answer = a
    <3>1. Completed(Answer("questions", h)) =
            [status |-> "completed", token |-> None, live |-> FALSE, answer |-> a]
      BY <1>1 DEF Completed
    <3>2. [status |-> "completed", token |-> None, live |-> FALSE, answer |-> a] \in Rows
      BY DEF Rows
    <3> QED BY <3>1, <3>2
  <2>4. Writes(k, row)
    BY <1>4, <2>1, <2>2, <2>3 DEF Writes
  <2>5. Grows
    BY <1>0, <2>2, <2>4, ReqsFacts DEF Grows, Writes, IInv, taskVars
  <2>6. CASE Reply(h, Answer("questions", h)) /\ UNCHANGED lost
    <3>1. PICK w : Moves(h, w) /\ w.pc = "over" /\ w.key = k /\ w.got = a
      BY <1>0, <1>1, <2>1, <2>6, ReplyMoves
    <3>2. HandlerOK(h, w)'
      BY <1>0, <1>4, <2>1, <2>3, <2>4, <3>1 DEF HandlerOK, Writes
    <3> QED BY <1>0, <1>1, <2>1, <2>2, <2>3, <2>4, <2>6, <3>1, <3>2, CommandKeeps
  <2>7. CASE Loses(h)
    <3>1. PICK w : Moves(h, w) /\ HandlerOK(h, w)
      BY <1>0, <2>7, ErrsMoves DEF Loses
    <3>2. HandlerOK(h, w)'
      BY <2>5, <3>1, HandlerOKStays DEF IInv, Moves
    <3>3. lost' \in 0 .. MaxLost
      BY <1>0, <2>7, PlanningAssumption DEF Loses
    <3> QED BY <1>0, <1>1, <2>1, <2>2, <2>3, <2>4, <3>1, <3>2, <3>3, CommandKeeps
  <2> QED BY <1>4, <2>6, <2>7
<1> QED BY <1>2, <1>3, <1>4 DEF Complete

-----------------------------------------------------------------------------
(* The steps of failure, and the selection.                                 *)

LEMMA FailKeeps ==
    ASSUME IInv, NEW h \in Handlers, Fail(h)
    PROVE  IInv'
BY ErrsKeep DEF Fail

LEMMA EndKeeps ==
    ASSUME IInv, NEW h \in Handlers, handler[h].pc # "idle", End(h),
           UNCHANGED <<taskVars, body, cmd, choice>>, UNCHANGED lost
    PROVE  IInv'
<1>1. PICK w : Moves(h, w) /\ HandlerOK(h, w)
  BY ReplyMoves DEF End
<1> QED BY <1>1, HandlerFacts, LocalKeeps

LEMMA CrashKeeps ==
    ASSUME IInv, NEW h \in Handlers, Crash(h)
    PROVE  IInv'
BY EndKeeps DEF Crash

LEMMA RecoverKeeps ==
    ASSUME IInv, NEW r \in Requests, Recover(r)
    PROVE  IInv'
<1>0. /\ r \in Handlers /\ r # First /\ handler[r].pc = "recover" /\ HandlerOK(r, handler[r])
      /\ End(r) /\ UNCHANGED <<taskVars, body, choice, lost>> /\ lost' \in 0 .. MaxLost
  BY PlanningAssumption, HandlerFacts DEF Handlers, Recover, At
<1>1. PICK k \in Keys : k = KeyOf(r) /\ k = handler[r].key /\ body[k] # NoBody
  BY <1>0 DEF HandlerOK, KeyOf
<1>2. CASE cmd' = cmd
  BY <1>0, <1>2, EndKeeps
<1>3. CASE Holds(r) /\ \/ cmd' = [cmd EXCEPT ![k] = NoRow]
                       \/ cmd' = [cmd EXCEPT ![k].live = FALSE]
  <2>1. cmd \in [Keys -> Rows] /\ cmd[k] \in Rows /\ cmd[k].status = "pending"
    BY <1>1, <1>3 DEF Holds, Row, IInv, TypeOK
  <2>2. /\ NoRow \in Rows /\ NoRow.status # "completed"
        /\ [cmd[k] EXCEPT !.live = FALSE] \in Rows
        /\ [cmd[k] EXCEPT !.live = FALSE].status # "completed"
    BY <2>1 DEF NoRow, Rows
  <2>3. PICK row \in Rows : Writes(k, row) /\ row.status # "completed"
    BY <1>3, <2>1, <2>2 DEF Writes
  <2>4. PICK w : Moves(r, w) /\ HandlerOK(r, w)
    BY <1>0, ReplyMoves DEF End
  <2>5. Grows
    BY <1>0, <2>1, <2>3, ReqsFacts DEF Grows, Writes, IInv, taskVars
  <2>6. HandlerOK(r, w)'
    BY <1>0, <2>4, <2>5, HandlerOKStays DEF IInv, Moves
  <2> QED BY <1>0, <1>1, <2>1, <2>3, <2>4, <2>6, CommandKeeps
<1> QED BY <1>1, <1>2, <1>3 DEF Recover

LEMMA CleanupReadKeeps ==
    ASSUME IInv, CleanupRead
    PROVE  IInv'
<1>0. /\ First \in Handlers /\ handler[First].pc = "cleanup" /\ HandlerOK(First, handler[First])
      /\ handler \in [Handlers -> Known] /\ handler[First] \in Known /\ task.version \in Nat
      /\ UNCHANGED <<taskVars, body, cmd, choice, lost>> /\ lost' \in 0 .. MaxLost
  BY HandlerFacts DEF Handlers, CleanupRead, At, IInv, TypeOK, Tasks
<1>1. CASE End(First)
  BY <1>0, <1>1, EndKeeps
<1>2. CASE handler' = [handler EXCEPT ![First].pc = "giveup", ![First].at = task.version]
  <2>1. PICK w : w = [handler[First] EXCEPT !.pc = "giveup", !.at = task.version]
    OBVIOUS
  <2>2. w \in Known /\ w.pc = "giveup" /\ w.key = handler[First].key /\ w.got = handler[First].got
    BY <1>0, <2>1 DEF Known
  <2>3. Moves(First, w)
    BY <1>0, <1>2, <2>1, <2>2 DEF Moves
  <2>4. HandlerOK(First, w)
    BY <1>0, <2>2 DEF HandlerOK
  <2> QED BY <1>0, <2>3, <2>4, LocalKeeps
<1> QED BY <1>1, <1>2 DEF CleanupRead

LEMMA GiveUpKeeps ==
    ASSUME IInv, GiveUp
    PROVE  IInv'
<1>0. /\ First \in Handlers /\ handler[First].pc = "giveup" /\ task \in Tasks /\ End(First)
      /\ planned \in Nat /\ UNCHANGED <<reqs, planned, body, cmd, choice, lost>> /\ lost' \in 0 .. MaxLost
  BY HandlerFacts DEF Handlers, GiveUp, At, IInv, TypeOK
<1>1. CASE UNCHANGED task
  BY <1>0, <1>1, EndKeeps DEF taskVars
<1>2. CASE Clarifiable /\ task' = [task EXCEPT !.state = "failed", !.version = @ + 1]
  <2>1. /\ task'.state = "failed" /\ task'.version = task.version + 1
        /\ task'.active = task.active /\ task'.content = task.content /\ task'.plan = task.plan
        /\ task' = [state |-> task'.state, version |-> task'.version, active |-> task'.active,
                    content |-> task'.content, plan |-> task'.plan]
    BY <1>0, <1>2 DEF Tasks
  <2>2. task' \in Tasks
    BY <1>0, <2>1 DEF Tasks, States
  <2>3. ~Clarifiable'
    BY <2>1 DEF Clarifiable
  <2>4. PICK w : Moves(First, w) /\ HandlerOK(First, w)
    BY <1>0, ReplyMoves DEF End
  <2> QED BY <1>0, <1>2, <2>1, <2>2, <2>3, <2>4, FirstMovesTask
<1> QED BY <1>1, <1>2 DEF GiveUp, MayActivate

LEMMA SelectKeeps ==
    ASSUME IInv, NEW s \in Selections, Select(s)
    PROVE  IInv'
<1>0. /\ First \in Handlers /\ task \in Tasks /\ task.state = "awaiting_selection"
      /\ UNCHANGED <<reqs, planned, body, cmd, handler, lost>> /\ planned \in Nat
      /\ lost' \in 0 .. MaxLost /\ cmd' \in [Keys -> Rows]
      /\ choice \in [Selections -> Candidates \cup {None}] /\ handler \in [Handlers -> Known]
  BY DEF Handlers, Select, IInv, TypeOK
<1>1. PICK p \in Candidates :
        /\ task' = [task EXCEPT !.state = "awaiting_confirmation", !.version = @ + 1, !.plan = p]
        /\ choice' = [choice EXCEPT ![s] = p]
  BY DEF Select
<1>2. /\ task'.state = "awaiting_confirmation" /\ task'.version = task.version + 1
      /\ task'.active = task.active /\ task'.content = task.content /\ task'.plan = p
      /\ task' = [state |-> task'.state, version |-> task'.version, active |-> task'.active,
                  content |-> task'.content, plan |-> task'.plan]
  BY <1>0, <1>1 DEF Tasks
<1>3. task' \in Tasks
  BY <1>0, <1>2 DEF Tasks, States
<1>4. ~Clarifiable /\ ~Clarifiable'
  BY <1>0, <1>2 DEF Clarifiable
<1>5. choice' \in [Selections -> Candidates \cup {None}]
  BY <1>0, <1>1
<1>6. Grows
  BY <1>0, ReqsFacts DEF Grows, IInv
<1>7. PICK w : w = handler[First]
  OBVIOUS
<1>8. Moves(First, w) /\ HandlerOK(First, w)
  BY <1>0, <1>7 DEF Moves, IInv, HandlerInv
<1>9. HandlerOK(First, w)'
  BY <1>0, <1>6, <1>8, HandlerOKStays DEF IInv, Moves
<1>10. CommandInv'
  BY <1>0 DEF IInv, CommandInv
<1>11. ClarifiedPlanIsActive'
  BY <1>0, <1>2, <1>4 DEF IInv, ClarifiedPlanIsActive, Confirms
<1> QED BY <1>0, <1>2, <1>3, <1>4, <1>5, <1>6, <1>8, <1>9, <1>10, <1>11, PastClarification

-----------------------------------------------------------------------------
(* The theorems.                                                            *)

LEMMA InitInv == Init => IInv
<1> SUFFICES ASSUME Init PROVE IInv
  OBVIOUS
<1>1. Fresh \in Known /\ [Fresh EXCEPT !.pc = "refine", !.at = 1] \in Known
  BY DEF Fresh, Known, Directions
<1>2. TypeOK
  <2>1. task \in Tasks
    BY DEF Init, Tasks, States
  <2>2. NoBody \in [expected : Nat, answers : SUBSET Answers, scenario : Directions] /\ NoRow \in Rows
    BY DEF NoBody, NoRow, Rows, Directions
  <2>3. reqs \in Seq(Requirement) /\ lost \in 0 .. MaxLost
    BY PlanningAssumption DEF Init
  <2> QED BY <1>1, <2>1, <2>2, <2>3 DEF Init, TypeOK
<1>3. Len(reqs) = 0 /\ DOMAIN reqs = {} /\ reqs = <<>>
  BY DEF Init
<1>4. VersionInv /\ MadeByInv /\ BodyInv
  BY <1>3 DEF Init, VersionInv, MadeByInv, BodyInv
<1>5. CommandInv /\ ClarifiedPlanIsActive
  BY DEF Init, CommandInv, ClarifiedPlanIsActive, NoRow
<1>6. HandlerInv
  BY DEF Init, HandlerInv, HandlerOK, Fresh
<1> QED BY <1>2, <1>4, <1>5, <1>6 DEF IInv

LEMMA StepKeeps == IInv /\ [Next]_vars => IInv'
<1> SUFFICES ASSUME IInv, [Next]_vars PROVE IInv'
  OBVIOUS
<1>1. CASE UNCHANGED vars
  <2>1. First \in Handlers /\ UNCHANGED <<taskVars, body, cmd, choice>> /\ lost' \in 0 .. MaxLost
    BY <1>1 DEF vars, Handlers, IInv, TypeOK
  <2>2. PICK w : w = handler[First]
    OBVIOUS
  <2>3. Moves(First, w) /\ HandlerOK(First, w)
    BY <1>1, <2>1, <2>2 DEF vars, Moves, IInv, TypeOK, HandlerInv
  <2> QED BY <2>1, <2>3, LocalKeeps
<1>2. ASSUME NEW h \in Handlers, Step(h) PROVE IInv'
  BY <1>2, RefineKeeps, PlanKeeps, GuideKeeps, CompleteKeeps, ReserveKeeps, ReadTaskKeeps,
     DecideKeeps, ChooseKeeps, PersistKeeps, RecoverKeeps, PersistFirstKeeps, CleanupReadKeeps,
     GiveUpKeeps DEF Step
<1>3. ASSUME NEW h \in Handlers, Fail(h) \/ Crash(h) PROVE IInv'
  BY <1>3, FailKeeps, CrashKeeps
<1> QED BY <1>1, <1>2, <1>3, SendKeeps, ExpireKeeps, SelectKeeps DEF Next

\* Whatever the requests, keys and answers are, the invariant above holds: the
\* version of a task counts its requirements, and a handler plans what its own
\* command activated or confirmed.
THEOREM Invariance == Spec => []IInv
BY InitInv, StepKeeps, PTL DEF Spec

\* Every variable keeps its type.
THEOREM TypeCorrect == Spec => []TypeOK
BY Invariance, PTL DEF IInv

\* A clarification answered with candidates leaves a task whose candidates are
\* made for the active requirement, or for the one whose direction it confirms.
THEOREM CandidatesAreCurrent == Spec => []ClarifiedPlanIsActive
BY Invariance, PTL DEF IInv

\* A body makes one requirement at most, and all senders of its key get the
\* answer on record.
THEOREM OneVersionPerBody == Spec => []AppliedOnce
<1>1. IInv => AppliedOnce
  <2> SUFFICES ASSUME IInv PROVE AppliedOnce
    OBVIOUS
  <2>1. ASSUME NEW i \in DOMAIN reqs, NEW j \in DOMAIN reqs, reqs[i].by = reqs[j].by, reqs[i].by # None
        PROVE  i = j
    <3>1. reqs[i].by \in Keys \/ reqs[i].by = First
      BY <2>1, ReqsFacts DEF IInv, Requirement
    <3> QED BY <2>1, <3>1 DEF IInv, MadeByInv
  <2>2. ASSUME NEW r \in Requests, At(r, "over"), handler[r].got # None
        PROVE  Row(r).status = "completed" /\ Row(r).answer = handler[r].got
    <3>1. r \in Handlers /\ r # First
      BY PlanningAssumption DEF Handlers
    <3> QED BY <2>2, <3>1 DEF IInv, HandlerInv, HandlerOK, Row, KeyOf
  <2> QED BY <2>1, <2>2 DEF AppliedOnce
<1> QED BY <1>1, Invariance, PTL
=============================================================================
