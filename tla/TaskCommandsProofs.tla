------------------------- MODULE TaskCommandsProofs -------------------------
(***************************************************************************)
(* What holds of the commands on a task for any requests, keys, gate keys, *)
(* versions and attempts.                                                  *)
(***************************************************************************)
EXTENDS TaskCommands, FiniteSetTheorems, TLAPS

\* The step a request is at tells which command it is.
KindsMatch ==
    \A r \in Requests :
        /\ req[r].pc \in {"gate", "list", "transition"} => Kind(r) = "approve"
        /\ req[r].pc \in {"claim", "drive", "recover", "pause"} => Kind(r) = "execute"
        /\ req[r].pc = "resume" => Kind(r) = "resume"
        /\ req[r].pc = "cancel" => Kind(r) = "cancel"

\* What a client saw: a version stands for one plan, so that a request whose
\* version is still the task's was sent for the plan that is active.
Sighted ==
    \A r \in Requests : req[r].pc # "idle" =>
        /\ req[r].hash.version <= version
        /\ req[r].hash.version = version => req[r].hash.plan = plan

Runs == {"ready", "executing", "paused", "completed"}

\* An approval is about to make the task ready only when its plan is approved.
Decided ==
    \A r \in Requests : req[r].pc = "transition" =>
        /\ req[r].answer.state \in {"rejected", "awaiting_approval", "ready"}
        /\ req[r].answer.state = "ready" => Approved(req[r].hash.plan)

PlanApproved == taskState \in Runs => Approved(plan)

Inv == TypeOK /\ KindsMatch /\ Sighted /\ Decided /\ PlanApproved

-----------------------------------------------------------------------------
(* What the steps of a request do to its own record.                       *)

\* A request that is not idle has the record of a call.
LEMMA CallOf ==
    ASSUME TypeOK, NEW r \in Requests, req[r].pc # "idle"
    PROVE  req[r] \in Call
BY DEF TypeOK, NoRequest

\* An answer that is on record is an answer.
LEMMA RowTyped ==
    ASSUME TypeOK, NEW r \in Requests, req[r] \in Call, Row(r).status # "none"
    PROVE  Row(r).answer \in Answers /\ Row(r) \in Row0
<1>1. Kind(r) \in Kinds /\ req[r].key \in Keys
  BY DEF Call, Hashes, Inputs, Kind
<1>2. Row(r) \in Row0
  BY <1>1 DEF TypeOK, Row
<1>3. QED
  BY <1>2 DEF Row0, NoRow

\* r goes on with its key and what it was sent for.
Moves(r) ==
    \E f \in Call : /\ f.key = req[r].key /\ f.hash = req[r].hash
                    /\ req' = [req EXCEPT ![r] = f]

\* Going on to another step leaves the call's key and hash alone.
LEMMA GoMoves ==
    ASSUME TypeOK, NEW r \in Requests, req[r].pc # "idle", NEW p \in InFlight \cup Over, Go(r, p)
    PROVE  Moves(r)
<1>1. req[r] \in Call
  BY CallOf
<1>2. [req[r] EXCEPT !.pc = p] \in Call
  BY <1>1 DEF Call
<1>3. req' = [req EXCEPT ![r] = [req[r] EXCEPT !.pc = p]]
  BY DEF Go, TypeOK
<1>4. QED
  BY <1>1, <1>2, <1>3 DEF Moves, Call

\* So does an answer.
LEMMA AnswerMoves ==
    ASSUME TypeOK, NEW r \in Requests, req[r].pc # "idle", NEW a \in Answers,
           Reply(r, a) \/ Then(r, a)
    PROVE  Moves(r)
<1>1. req[r] \in Call
  BY CallOf
<1>2. \A p \in {"answered", "record"} : [req[r] EXCEPT !.pc = p, !.answer = a] \in Call
  BY <1>1 DEF Call, InFlight, Over
<1>3. \E p \in {"answered", "record"} :
        req' = [req EXCEPT ![r] = [req[r] EXCEPT !.pc = p, !.answer = a]]
  BY DEF Reply, Then, TypeOK
<1>4. QED
  BY <1>1, <1>2, <1>3 DEF Moves, Call

\* A call starts without an answer, which is typed like one.
LEMMA NoAnswerTyped == NoAnswer \in Answers
BY CommandAssumption DEF NoAnswer, Answers, TaskStates, Versions, Attempts

\* The answers that the transactions make.
LEMMA NewTaskTyped ==
    ASSUME taskState' \in TaskStates, version' \in Versions, NEW a \in Attempts
    PROVE  NewTask(a) \in Answers /\ [NewTask(a) EXCEPT !.status = "paused"] \in Answers
BY DEF NewTask, Answers

\* A step of a request that may read, refuse or answer, and leaves its key and
\* hash alone.
LEMMA ReadMoves ==
    ASSUME TypeOK, NEW r \in Requests, Replay(r) \/ ReadTask(r) \/ NotAllowed(r)
    PROVE  Moves(r)
<1> req[r].pc # "idle"
  BY DEF Replay, ReadTask, NotAllowed
<1> req[r] \in Call
  BY CallOf
<1> "read" \in InFlight /\ "refused" \in Over /\ "record" \in InFlight
  BY DEF InFlight, Over
<1>1. CASE Replay(r)
  BY <1>1, RowTyped, GoMoves, AnswerMoves DEF Replay, Refuse
<1>2. CASE NotAllowed(r)
  BY <1>2, GoMoves DEF NotAllowed, Refuse
<1>3. CASE ReadTask(r)
  <2>1. CASE \E p \in InFlight \cup Over : req' = [req EXCEPT ![r].pc = p, ![r].seen = current]
    <3>1. PICK p \in InFlight \cup Over : req' = [req EXCEPT ![r].pc = p, ![r].seen = current]
      BY <2>1
    <3>2. req' = [req EXCEPT ![r] = [req[r] EXCEPT !.pc = p, !.seen = current]]
      BY <3>1 DEF TypeOK
    <3>3. [req[r] EXCEPT !.pc = p, !.seen = current] \in Call
      BY DEF Call, TypeOK
    <3>4. QED
      BY <3>2, <3>3 DEF Moves, Call
  <2>2. CASE \E a \in Answers : req' = [req EXCEPT ![r].pc = "record", ![r].seen = current, ![r].answer = a]
    <3>1. PICK a \in Answers : req' = [req EXCEPT ![r].pc = "record", ![r].seen = current, ![r].answer = a]
      BY <2>2
    <3>2. req' = [req EXCEPT ![r] = [req[r] EXCEPT !.pc = "record", !.seen = current, !.answer = a]]
      BY <3>1 DEF TypeOK
    <3>3. [req[r] EXCEPT !.pc = "record", !.seen = current, !.answer = a] \in Call
      BY DEF Call, TypeOK
    <3>4. QED
      BY <3>2, <3>3 DEF Moves, Call
  <2>3. [NoAnswer EXCEPT !.state = taskState, !.version = version, !.attempt = current] \in Answers
    BY DEF NoAnswer, Answers, TypeOK
  <2>4. Kind(r) \in {"approve", "execute", "resume", "cancel"}
    BY CommandAssumption DEF Call, Hashes, Inputs, Kind
  <2>5. {"gate", "claim", "cancel", "resume", "refused"} \subseteq InFlight \cup Over
    BY DEF InFlight, Over
  <2> DEFINE To(p) == req' = [req EXCEPT ![r].pc = p, ![r].seen = current]
  <2>6. CASE Kind(r) = "approve"
    <3>1. To("gate") \/ To("refused")
      BY <1>3, <2>6 DEF ReadTask
    <3>2. QED
      BY <2>1, <2>5, <3>1
  <2>7. CASE Kind(r) = "execute"
    <3>1. To("claim") \/ To("refused")
      BY <1>3, <2>7 DEF ReadTask
    <3>2. QED
      BY <2>1, <2>5, <3>1
  <2>8. CASE Kind(r) = "cancel"
    <3>1. To("cancel") \/ To("refused")
      BY <1>3, <2>8 DEF ReadTask
    <3>2. QED
      BY <2>1, <2>5, <3>1
  <2>9. CASE Kind(r) = "resume"
    <3>1. \/ To("resume") \/ To("refused")
          \/ req' = [req EXCEPT ![r].pc = "record", ![r].seen = current,
                       ![r].answer = [NoAnswer EXCEPT !.state = taskState,
                                        !.version = version, !.attempt = current]]
      BY <1>3, <2>9 DEF ReadTask
    <3>2. QED
      BY <2>1, <2>2, <2>3, <2>5, <3>1
  <2>10. QED
    BY <2>4, <2>6, <2>7, <2>8, <2>9
<1>4. QED
  BY <1>1, <1>2, <1>3

\* Which step a request may go to from where it is.
Follows(r) ==
    \/ req'[r].pc \in {"read", "refused", "answered", "record", "again"}
    \/ Kind(r) = "approve" /\ req'[r].pc = "gate"
    \/ req[r].pc = "gate" /\ req'[r].pc = "list"
    \/ req[r].pc = "list" /\ req'[r].pc = "transition" /\ req'[r].answer.state = NextState(r)
    \/ Kind(r) = "execute" /\ req'[r].pc = "claim"
    \/ req[r].pc = "claim" /\ req'[r].pc \in {"drive", "recover", "pause"}
    \/ Kind(r) = "resume" /\ req'[r].pc = "resume"
    \/ Kind(r) = "cancel" /\ req'[r].pc = "cancel"

\* Refusing and answering lead to the end.
LEMMA EndsFollow ==
    ASSUME TypeOK, NEW r \in Requests, req[r].pc # "idle", NEW a,
           Refuse(r) \/ Reply(r, a) \/ Then(r, a) \/ Go(r, "again") \/ Go(r, "read")
    PROVE  Follows(r)
<1>1. req[r] \in Call
  BY CallOf
<1>2. req'[r].pc \in {"refused", "answered", "record", "again", "read"}
  BY <1>1 DEF Call, TypeOK, Refuse, Go, Reply, Then
<1>3. QED
  BY <1>2 DEF Follows

\* The reads of a call lead to the step of its own command.
LEMMA ReadFollows ==
    ASSUME TypeOK, NEW r \in Requests, Replay(r) \/ ReadTask(r) \/ NotAllowed(r)
    PROVE  Follows(r)
<1> req[r].pc # "idle"
  BY DEF Replay, ReadTask, NotAllowed
<1>1. CASE Replay(r)
  BY <1>1, EndsFollow DEF Replay
<1>2. CASE NotAllowed(r)
  BY <1>2, EndsFollow DEF NotAllowed
<1>3. CASE ReadTask(r)
  <2> req[r] \in Call
    BY <1>3, CallOf DEF ReadTask
  <2> DEFINE To(p) == req' = [req EXCEPT ![r].pc = p, ![r].seen = current]
  <2>1. \A p : To(p) => req'[r].pc = p
    BY DEF TypeOK
  <2>2. Kind(r) \in {"approve", "execute", "resume", "cancel"}
    BY CommandAssumption DEF Call, Hashes, Inputs, Kind
  <2>3. CASE Kind(r) = "approve"
    <3>1. To("gate") \/ To("refused")
      BY <1>3, <2>3 DEF ReadTask
    <3>2. QED
      BY <2>1, <2>3, <3>1 DEF Follows
  <2>4. CASE Kind(r) = "execute"
    <3>1. To("claim") \/ To("refused")
      BY <1>3, <2>4 DEF ReadTask
    <3>2. QED
      BY <2>1, <2>4, <3>1 DEF Follows
  <2>5. CASE Kind(r) = "cancel"
    <3>1. To("cancel") \/ To("refused")
      BY <1>3, <2>5 DEF ReadTask
    <3>2. QED
      BY <2>1, <2>5, <3>1 DEF Follows
  <2>6. CASE Kind(r) = "resume"
    <3>1. \/ To("resume") \/ To("refused")
          \/ req' = [req EXCEPT ![r].pc = "record", ![r].seen = current,
                       ![r].answer = [NoAnswer EXCEPT !.state = taskState,
                                        !.version = version, !.attempt = current]]
      BY <1>3, <2>6 DEF ReadTask
    <3>2. CASE req' = [req EXCEPT ![r].pc = "record", ![r].seen = current,
                        ![r].answer = [NoAnswer EXCEPT !.state = taskState,
                                         !.version = version, !.attempt = current]]
      <4>1. req'[r].pc = "record"
        BY <3>2 DEF TypeOK
      <4>2. QED
        BY <4>1 DEF Follows
    <3>3. QED
      BY <2>1, <2>6, <3>1, <3>2 DEF Follows
  <2>7. QED
    BY <2>2, <2>3, <2>4, <2>5, <2>6
<1>4. QED
  BY <1>1, <1>2, <1>3

\* What an approval wants, by its kind.
LEMMA ApprovalTyped ==
    ASSUME NEW r \in Requests, req[r] \in Call
    PROVE  /\ Kind(r) = "approve" => /\ req[r].hash.input.gate \in GateKeys
                                     /\ req[r].hash.input.choice \in {"approved", "rejected"}
           /\ Kind(r) = "resume" => req[r].hash.input.choice \in {"retry", "skip", "abort"}
           /\ Kind(r) \in Kinds
BY DEF Call, Hashes, Inputs, Kind

\* The states that an approval and a resume lead to are states of a task.
LEMMA StatesTyped ==
    ASSUME NEW r \in Requests
    PROVE  /\ NextState(r) \in TaskStates
           /\ \A c \in {"retry", "skip", "abort"} : ResumedState(c) \in TaskStates
BY DEF NextState, ResumedState, TaskStates

\* The steps of an approval.
LEMMA ApproveMoves ==
    ASSUME TypeOK, NEW r \in Requests, RecordGate(r) \/ ListGates(r) \/ Transition(r)
    PROVE  Moves(r) /\ Follows(r)
<1> req[r].pc # "idle"
  BY DEF RecordGate, ListGates, Transition
<1> req[r] \in Call
  BY CallOf
<1> "list" \in InFlight /\ "refused" \in Over /\ "transition" \in InFlight
  BY DEF InFlight, Over
<1>1. CASE RecordGate(r)
  <2>1. Refuse(r) \/ (req[r].pc = "gate" /\ Go(r, "list"))
    BY <1>1 DEF RecordGate
  <2>2. CASE req[r].pc = "gate" /\ Go(r, "list")
    <3>1. req'[r].pc = "list"
      BY <2>2 DEF TypeOK, Go, Call
    <3>2. QED
      BY <2>2, <3>1, GoMoves DEF Follows
  <2>3. QED
    BY <2>1, <2>2, GoMoves, EndsFollow DEF Refuse
<1>2. CASE ListGates(r)
  <2> DEFINE f == [req[r] EXCEPT !.pc = "transition", !.answer = [@ EXCEPT !.state = NextState(r)]]
  <2>1. req' = [req EXCEPT ![r] = f]
    BY <1>2 DEF ListGates, TypeOK
  <2>2. [req[r].answer EXCEPT !.state = NextState(r)] \in Answers
    BY StatesTyped DEF Call, Answers
  <2>3. f \in Call /\ f.key = req[r].key /\ f.hash = req[r].hash /\ f.pc = "transition"
    BY <2>2 DEF Call
  <2>4. f.answer.state = NextState(r)
    BY DEF Call, Answers
  <2>5. req'[r] = f
    BY <2>1 DEF TypeOK
  <2>6. QED
    BY <1>2, <2>1, <2>3, <2>4, <2>5 DEF Moves, Follows, ListGates
<1>3. CASE Transition(r)
  <2>1. CASE MayTransition(r)
    <3>1. taskState' \in TaskStates /\ version' \in Versions
      BY <1>3, <2>1 DEF Transition, TypeOK, Call, Answers, Versions
    <3>2. NewTask(0) \in Answers /\ Then(r, NewTask(0))
      <4>1. 0 \in Attempts
        BY CommandAssumption DEF Attempts
      <4>2. QED
        BY <1>3, <2>1, <3>1, <4>1, NewTaskTyped DEF Transition
    <3>3. QED
      BY <3>2, AnswerMoves, EndsFollow
  <2>2. CASE ~MayTransition(r)
    BY <1>3, <2>2, GoMoves, EndsFollow DEF Transition, Refuse
  <2>3. QED
    BY <2>1, <2>2
<1>4. QED
  BY <1>1, <1>2, <1>3

\* The claim of an execution.
LEMMA ClaimMoves ==
    ASSUME TypeOK, NEW r \in Requests, ClaimExecution(r)
    PROVE  Moves(r) /\ Follows(r)
<1> req[r].pc = "claim"
  BY DEF ClaimExecution
<1> req[r] \in Call
  BY CallOf
<1> DEFINE To(p, a) == req' = [req EXCEPT ![r].pc = p, ![r].seen = a]
<1>1. \/ Refuse(r)
      \/ \E p \in {"drive", "recover", "pause"}, a \in Attempts : To(p, a)
  <2>1. claims[req[r].key] \in Claim0
    BY DEF TypeOK, Call
  <2>2. claims[req[r].key].status # "none" => claims[req[r].key].attempt \in Attempts
    BY <2>1 DEF Claim0, NoRow
  <2>3. QED
    BY <2>2 DEF ClaimExecution, ClaimAgain
<1>2. CASE \E p \in {"drive", "recover", "pause"}, a \in Attempts : To(p, a)
  <2>1. PICK p \in {"drive", "recover", "pause"}, a \in Attempts : To(p, a)
    BY <1>2
  <2> DEFINE f == [req[r] EXCEPT !.pc = p, !.seen = a]
  <2>2. req' = [req EXCEPT ![r] = f]
    BY <2>1 DEF TypeOK
  <2>3. f \in Call /\ f.key = req[r].key /\ f.hash = req[r].hash /\ f.pc = p
    BY DEF Call, InFlight
  <2>4. req'[r] = f
    BY <2>2 DEF TypeOK
  <2>5. QED
    BY <2>2, <2>3, <2>4 DEF Moves, Follows
<1>3. QED
  BY <1>1, <1>2, GoMoves, EndsFollow DEF Refuse, Over

\* The rest of a call ends in a typed answer or a refusal.
Settles(r) ==
    Refuse(r) \/ Go(r, "again") \/ \E a \in Answers : Reply(r, a) \/ Then(r, a)

\* Settling a call moves it to its end.
LEMMA SettlesMoves ==
    ASSUME TypeOK, NEW r \in Requests, req[r].pc # "idle", Settles(r)
    PROVE  Moves(r) /\ Follows(r)
BY GoMoves, AnswerMoves, EndsFollow DEF Settles, Refuse, InFlight, Over

\* The end of an execution.
LEMMA ExecuteSettles ==
    ASSUME TypeOK, NEW r \in Requests, DriverReturns(r) \/ Recover(r) \/ PauseExecution(r)
    PROVE  Settles(r) /\ req[r].pc # "idle"
<1>1. req[r].pc # "idle"
  BY DEF DriverReturns, Recover, PauseExecution
<1>2. req[r] \in Call
  BY <1>1, CallOf
<1>3. \A st \in {"completed", "paused"} : Execution(req[r].seen, st) \in Answers
  BY <1>2 DEF Execution, Answers, TypeOK, Call
<1>4. CASE DriverReturns(r)
  BY <1>1, <1>3, <1>4 DEF DriverReturns, Settles
<1>5. CASE Recover(r)
  <2>1. \/ Refuse(r)
        \/ taskState \in {"completed", "paused"} /\ Then(r, Execution(req[r].seen, taskState))
    BY <1>5 DEF Recover, Finished
  <2>2. QED
    BY <1>1, <1>3, <2>1 DEF Settles
<1>6. CASE PauseExecution(r)
  <2>1. CASE Refuse(r)
    BY <1>1, <2>1 DEF Settles
  <2>2. CASE ~Refuse(r)
    <3>1. taskState' = "paused" /\ version' = version + 1
      BY <1>6, <2>2 DEF PauseExecution
    <3>2. taskState' \in TaskStates /\ version' \in Versions /\ current \in Attempts
      BY <3>1 DEF TypeOK, TaskStates, Versions
    <3>3. Then(r, [NewTask(current) EXCEPT !.status = "paused"])
      BY <1>6, <2>2 DEF PauseExecution
    <3>4. [NewTask(current) EXCEPT !.status = "paused"] \in Answers
      BY <3>2, NewTaskTyped
    <3>5. QED
      BY <1>1, <3>3, <3>4 DEF Settles
  <2>3. QED
    BY <2>1, <2>2
<1>7. QED
  BY <1>1, <1>4, <1>5, <1>6

\* A resume, a cancellation and what is put on record.
LEMMA ResumeSettles ==
    ASSUME TypeOK, NEW r \in Requests, KindsMatch,
           Resume(r) \/ Cancel(r) \/ Record(r) \/ ReplayAgain(r)
    PROVE  Settles(r) /\ req[r].pc # "idle"
<1>1. req[r].pc # "idle"
  BY DEF Resume, Cancel, Record, ReplayAgain
<1>2. req[r] \in Call
  BY <1>1, CallOf
<1>3. CASE Resume(r)
  <2>1. CASE Refuse(r)
    BY <1>1, <2>1 DEF Settles
  <2>2. CASE ~Refuse(r)
    <3>1. req[r].hash.input.choice \in {"retry", "skip", "abort"}
      BY <1>2, <1>3, ApprovalTyped DEF KindsMatch, Resume
    <3>2. taskState' = ResumedState(req[r].hash.input.choice) /\ version' = version + 1
      BY <1>3, <2>2 DEF Resume
    <3>3. taskState' \in TaskStates /\ version' \in Versions /\ current \in Attempts
      BY <3>1, <3>2, StatesTyped DEF TypeOK, Versions
    <3>4. Then(r, NewTask(current))
      BY <1>3, <2>2 DEF Resume
    <3>5. NewTask(current) \in Answers
      BY <3>3, NewTaskTyped
    <3>6. QED
      BY <1>1, <3>4, <3>5 DEF Settles
  <2>3. QED
    BY <2>1, <2>2
<1>4. CASE Cancel(r)
  <2>1. CASE Go(r, "again")
    BY <1>1, <2>1 DEF Settles
  <2>2. CASE ~Go(r, "again")
    <3>1. taskState' = "cancelled" /\ version' = version + 1
      BY <1>4, <2>2 DEF Cancel
    <3>2. taskState' \in TaskStates /\ version' \in Versions /\ current \in Attempts
      BY <3>1 DEF TypeOK, TaskStates, Versions
    <3>3. Reply(r, NewTask(current))
      BY <1>4, <2>2 DEF Cancel
    <3>4. NewTask(current) \in Answers
      BY <3>2, NewTaskTyped
    <3>5. QED
      BY <1>1, <3>3, <3>4 DEF Settles
  <2>3. QED
    BY <2>1, <2>2
<1>5. CASE Record(r)
  <2>1. req[r].answer \in Answers
    BY <1>2 DEF Call
  <2>2. QED
    BY <1>1, <1>5, <2>1 DEF Record, Settles
<1>6. CASE ReplayAgain(r)
  <2>1. Refuse(r) \/ (Row(r).status # "none" /\ Reply(r, Row(r).answer))
    BY <1>6 DEF ReplayAgain
  <2>2. QED
    BY <1>1, <1>2, <2>1, RowTyped DEF Settles
<1>7. QED
  BY <1>1, <1>3, <1>4, <1>5, <1>6

\* Whatever a call does, it keeps its key and its hash, and goes on in order.
LEMMA ServeMoves ==
    ASSUME TypeOK, KindsMatch, NEW r \in Requests, Serve(r)
    PROVE  Moves(r) /\ Follows(r)
BY ReadMoves, ReadFollows, ApproveMoves, ClaimMoves, ExecuteSettles, ResumeSettles, SettlesMoves DEF Serve

\* Only a call that has been sent is served.
LEMMA ServesCalls ==
    ASSUME NEW r \in Requests, Serve(r)
    PROVE  req[r].pc # "idle"
BY DEF Serve, Replay, ReadTask, NotAllowed, RecordGate, ListGates, Transition, ClaimExecution,
       DriverReturns, Recover, PauseExecution, Resume, Cancel, Record, ReplayAgain

-----------------------------------------------------------------------------
(* Types.                                                                  *)

\* Attempts are counted.
LEMMA LastAttemptTyped == LastAttempt \in Nat
<1>1. IsFiniteSet(1 .. MaxAttempts)
  BY FS_Interval, CommandAssumption
<1>2. {a \in Attempts \ {0} : attempt[a] # "none"} \subseteq 1 .. MaxAttempts
  BY CommandAssumption DEF Attempts
<1>3. QED
  BY <1>1, <1>2, FS_Subset, FS_CardinalityType DEF LastAttempt

\* The types hold at the start.
LEMMA InitType == Init => TypeOK
BY CommandAssumption DEF Init, TypeOK, TaskStates, Versions, Plans, Attempts, Row0, Claim0

\* The variables besides req and the idempotency records.
RowTypes ==
    /\ taskState \in TaskStates /\ version \in Versions /\ plan \in Plans
    /\ current \in Attempts
    /\ attempt \in [Attempts \ {0} -> {"none", "active", "paused", "completed", "cancelled"}]
    /\ hasDriver \in BOOLEAN /\ required \subseteq GateKeys

\* The step of a call leaves the task row typed.
LEMMA ServeKeepsRows ==
    ASSUME TypeOK, KindsMatch, NEW r \in Requests, Serve(r)
    PROVE  RowTypes'
<1> req[r] \in Call
  BY ServesCalls, CallOf
<1>1. CASE UNCHANGED <<rowVars, config>>
  BY <1>1 DEF TypeOK, RowTypes, rowVars, config
<1>2. CASE Transition(r)
  BY <1>2 DEF Transition, TypeOK, RowTypes, Call, Answers, Versions, rowVars, config
<1>3. CASE ClaimExecution(r)
  BY <1>3 DEF ClaimExecution, TypeOK, RowTypes, Call, Hashes, TaskStates, Versions, rowVars, config
<1>4. CASE PauseExecution(r)
  BY <1>4 DEF PauseExecution, TypeOK, RowTypes, TaskStates, Versions, rowVars, config
<1>5. CASE Resume(r)
  <2>1. req[r].hash.input.choice \in {"retry", "skip", "abort"}
    BY <1>5, ApprovalTyped DEF KindsMatch, Resume
  <2>2. ResumedState(req[r].hash.input.choice) \in TaskStates
    BY <2>1, StatesTyped
  <2>3. QED
    BY <1>5, <2>2 DEF Resume, TypeOK, RowTypes, Versions, rowVars, config
<1>6. CASE Cancel(r)
  BY <1>6 DEF Cancel, TypeOK, RowTypes, TaskStates, Versions, rowVars, config
<1>7. QED
  BY <1>1, <1>2, <1>3, <1>4, <1>5, <1>6
  DEF Serve, Replay, ReadTask, NotAllowed, RecordGate, ListGates, DriverReturns, Recover, Record, ReplayAgain

\* The records of gates, claims and commands.
RecordTypes ==
    /\ gates \subseteq [plan : Plans, gate : GateKeys, choice : {"approved", "rejected"}, key : Keys]
    /\ command \in [Kinds -> [Keys -> Row0]]
    /\ claims \in [Keys -> Claim0]

\* The step of a call leaves what is on record typed.
LEMMA ServeKeepsRecords ==
    ASSUME TypeOK, KindsMatch, NEW r \in Requests, Serve(r)
    PROVE  RecordTypes'
<1> req[r] \in Call
  BY ServesCalls, CallOf
<1>1. CASE UNCHANGED <<gates, command, claims>>
  BY <1>1 DEF TypeOK, RecordTypes
<1>2. CASE RecordGate(r)
  <2>1. Kind(r) = "approve"
    BY <1>2 DEF KindsMatch, RecordGate
  <2>2. [plan |-> req[r].hash.plan, gate |-> req[r].hash.input.gate,
         choice |-> req[r].hash.input.choice, key |-> req[r].key]
            \in [plan : Plans, gate : GateKeys, choice : {"approved", "rejected"}, key : Keys]
    BY <2>1, ApprovalTyped DEF Call, Hashes
  <2>3. UNCHANGED <<command, claims>>
    BY <1>2 DEF RecordGate
  <2>4. \/ UNCHANGED gates
        \/ gates' = gates \cup {[plan |-> req[r].hash.plan, gate |-> req[r].hash.input.gate,
                                 choice |-> req[r].hash.input.choice, key |-> req[r].key]}
    BY <1>2 DEF RecordGate
  <2>5. QED
    BY <2>2, <2>3, <2>4 DEF TypeOK, RecordTypes
<1>3. CASE ClaimExecution(r)
  <2>1. UNCHANGED <<gates, command>>
    BY <1>3 DEF ClaimExecution
  <2>2. \/ UNCHANGED claims
        \/ \E a \in Attempts : a = LastAttempt + 1 /\ claims' = [claims EXCEPT ![req[r].key] =
                 [status |-> "done", hash |-> req[r].hash, attempt |-> a]]
    BY <1>3 DEF ClaimExecution
  <2>3. \A a \in Attempts : a = LastAttempt + 1 =>
           [status |-> "done", hash |-> req[r].hash, attempt |-> a] \in Claim0
    BY LastAttemptTyped DEF Claim0, Call
  <2>4. QED
    BY <2>1, <2>2, <2>3 DEF TypeOK, RecordTypes
<1>4. CASE Cancel(r) \/ Record(r)
  <2>1. UNCHANGED <<gates, claims>>
    BY <1>4 DEF Cancel, Record
  <2>2. UNCHANGED command \/ \E a \in Answers, k \in Kinds :
           command' = [command EXCEPT ![k][req[r].key] =
                         [status |-> "done", hash |-> req[r].hash, answer |-> a]]
    <3>1. CASE Record(r)
      BY <3>1, ApprovalTyped DEF Record, Call
    <3>2. CASE Cancel(r)
      <4>1. CASE UNCHANGED command
        BY <4>1
      <4>2. CASE command' # command
        <5>1. taskState' = "cancelled" /\ version' = version + 1
          BY <3>2, <4>2 DEF Cancel
        <5>2. taskState' \in TaskStates /\ version' \in Versions /\ current \in Attempts
          BY <5>1 DEF TypeOK, TaskStates, Versions
        <5>3. NewTask(current) \in Answers
          BY <5>2, NewTaskTyped
        <5>4. Kind(r) = "cancel" /\ Kind(r) \in Kinds
          BY <3>2, ApprovalTyped DEF KindsMatch, Cancel
        <5>5. command' = [command EXCEPT !["cancel"][req[r].key] =
                            [status |-> "done", hash |-> req[r].hash, answer |-> NewTask(current)]]
          BY <3>2, <4>2 DEF Cancel
        <5>6. QED
          BY <5>3, <5>4, <5>5
      <4>3. QED
        BY <4>1, <4>2
    <3>3. QED
      BY <1>4, <3>1, <3>2
  <2>3. \A a \in Answers : [status |-> "done", hash |-> req[r].hash, answer |-> a] \in Row0
    BY DEF Row0, Call
  <2>4. QED
    BY <2>1, <2>2, <2>3 DEF TypeOK, RecordTypes, Call
<1>5. QED
  BY <1>1, <1>2, <1>3, <1>4
  DEF Serve, Replay, ReadTask, NotAllowed, ListGates, Transition, DriverReturns, Recover,
      PauseExecution, Resume, ReplayAgain

\* A call is sent: by r, with a record of its own or that of an earlier call.
Sends(r) ==
    \E f \in Call :
        /\ f.pc = "replay" /\ req' = [req EXCEPT ![r] = f]
        /\ \/ f.hash.version = version /\ f.hash.plan = plan
           \/ \E s \in Requests : req[s].pc # "idle" /\ f.hash = req[s].hash

\* A new call is sent with what its client sees.
LEMMA SendSends ==
    ASSUME TypeOK, NEW r \in Requests, NEW k \in Keys, NEW i \in Inputs, Send(r, k, i)
    PROVE  Sends(r) /\ UNCHANGED <<rowVars, gates, command, claims, config>>
<1> DEFINE h == [input |-> i, version |-> version, plan |-> plan]
           f == [pc |-> "replay", key |-> k, hash |-> h, seen |-> current, answer |-> NoAnswer]
<1>1. h \in Hashes
  BY DEF TypeOK, Hashes
<1>2. f \in Call
  BY <1>1, NoAnswerTyped DEF TypeOK, Call, InFlight
<1>3. req' = [req EXCEPT ![r] = f]
  BY DEF Send
<1>4. QED
  BY <1>2, <1>3 DEF Sends, Send

\* A repeated call is sent with what the first one was sent with.
LEMMA ResendSends ==
    ASSUME TypeOK, NEW r \in Requests, NEW s \in Requests, Resend(r, s)
    PROVE  Sends(r) /\ UNCHANGED <<rowVars, gates, command, claims, config>>
<1> DEFINE f == [req[s] EXCEPT !.pc = "replay", !.seen = current, !.answer = NoAnswer]
<1>1. req[s] \in Call
  BY CallOf DEF Resend
<1>2. f \in Call /\ f.pc = "replay" /\ f.hash = req[s].hash
  BY <1>1, NoAnswerTyped DEF TypeOK, Call, InFlight
<1>3. req' = [req EXCEPT ![r] = f]
  BY DEF Resend
<1>4. QED
  BY <1>2, <1>3 DEF Sends, Resend

\* The steps of Next by what they do to the calls.
LEMMA NextSplits ==
    ASSUME TypeOK, Next
    PROVE  \/ \E r \in Requests :
                \/ Sends(r) /\ UNCHANGED <<rowVars, gates, command, claims, config>>
                \/ Serve(r)
                \/ Crash(r)
           \/ Confirm \/ Revise
           \/ \E a \in Attempts \ {0} : EngineEnds(a)
BY SendSends, ResendSends DEF Next

\* Every step keeps the types.
LEMMA NextType == TypeOK /\ KindsMatch /\ [Next]_vars => TypeOK'
<1> SUFFICES ASSUME TypeOK, KindsMatch, [Next]_vars PROVE TypeOK'
  OBVIOUS
<1>1. CASE UNCHANGED vars
  BY <1>1 DEF vars, rowVars, config, TypeOK
<1>2. ASSUME NEW r \in Requests, Serve(r) PROVE TypeOK'
  <2>1. RowTypes' /\ RecordTypes' /\ Moves(r)
    BY <1>2, ServeKeepsRows, ServeKeepsRecords, ServeMoves
  <2>2. req' \in [Requests -> {NoRequest} \cup Call]
    BY <2>1 DEF Moves, TypeOK
  <2>3. QED
    BY <2>1, <2>2 DEF TypeOK, RowTypes, RecordTypes
<1>3. ASSUME NEW r \in Requests, Sends(r), UNCHANGED <<rowVars, gates, command, claims, config>>
      PROVE  TypeOK'
  <2>1. req' \in [Requests -> {NoRequest} \cup Call]
    BY <1>3 DEF Sends, TypeOK
  <2>2. QED
    BY <1>3, <2>1 DEF TypeOK, rowVars, config
<1>4. ASSUME NEW r \in Requests, Crash(r) PROVE TypeOK'
  <2>1. Moves(r)
    BY <1>4, GoMoves DEF Crash, InFlight, Over
  <2>2. req' \in [Requests -> {NoRequest} \cup Call]
    BY <2>1 DEF Moves, TypeOK
  <2>3. QED
    BY <1>4, <2>2 DEF Crash, TypeOK, rowVars, config
<1>5. CASE Confirm
  BY <1>5 DEF Confirm, TypeOK, TaskStates, Versions, config
<1>6. CASE Revise
  BY <1>6, CommandAssumption DEF Revise, TypeOK, TaskStates, Versions, Attempts, config
<1>7. ASSUME NEW a \in Attempts \ {0}, EngineEnds(a) PROVE TypeOK'
  BY <1>7 DEF EngineEnds, TypeOK, TaskStates, Versions, config
<1>8. QED
  BY <1>1, <1>2, <1>3, <1>4, <1>5, <1>6, <1>7, NextSplits

\* No call has started at the start.
LEMMA InitKinds == Init => KindsMatch
BY DEF Init, KindsMatch, NoRequest

\* A call stays the command that it is.
LEMMA NextKinds == TypeOK /\ KindsMatch /\ [Next]_vars => KindsMatch'
<1> SUFFICES ASSUME TypeOK, KindsMatch, [Next]_vars PROVE KindsMatch'
  OBVIOUS
<1>1. CASE UNCHANGED req
  BY <1>1 DEF KindsMatch, Kind
<1>2. ASSUME NEW r \in Requests, Serve(r) PROVE KindsMatch'
  <2>1. Moves(r) /\ Follows(r)
    BY <1>2, ServeMoves
  <2>2. \A s \in Requests \ {r} : req'[s] = req[s]
    BY <2>1 DEF Moves, TypeOK
  <2>3. req'[r].hash = req[r].hash
    BY <2>1 DEF Moves, TypeOK
  <2>4. QED
    BY <2>1, <2>2, <2>3 DEF KindsMatch, Kind, Follows
<1>3. ASSUME NEW r \in Requests, Sends(r) PROVE KindsMatch'
  BY <1>3 DEF Sends, KindsMatch, Kind, TypeOK
<1>4. ASSUME NEW r \in Requests, Crash(r) PROVE KindsMatch'
  <2>1. req[r] \in Call
    BY <1>4, CallOf DEF Crash, InFlight
  <2>2. req'[r].pc = "crashed" /\ \A s \in Requests \ {r} : req'[s] = req[s]
    BY <1>4, <2>1 DEF Crash, Go, TypeOK, Call
  <2>3. QED
    BY <2>2 DEF KindsMatch, Kind
<1>4a. UNCHANGED vars => UNCHANGED req
  BY DEF vars
<1>5. QED
  BY <1>1, <1>2, <1>3, <1>4, <1>4a, NextSplits DEF Confirm, Revise, EngineEnds

-----------------------------------------------------------------------------
(* Versions and approvals.                                                 *)

\* Whoever changes the plan makes a new version.
LEMMA VersionCounts ==
    ASSUME TypeOK, [Next]_vars
    PROVE  version' >= version /\ (plan' # plan => version' > version)
<1> version \in Nat
  BY DEF TypeOK, Versions
<1>1. CASE UNCHANGED rowVars
  BY <1>1 DEF rowVars
<1>2. ASSUME NEW r \in Requests, Serve(r) PROVE UNCHANGED rowVars \/ version' = version + 1
  BY <1>2 DEF Serve, Replay, ReadTask, NotAllowed, RecordGate, ListGates, Transition, ClaimExecution,
       DriverReturns, Recover, PauseExecution, Resume, Cancel, Record, ReplayAgain
<1>3. CASE Confirm \/ Revise \/ \E a \in Attempts \ {0} : EngineEnds(a)
  BY <1>3 DEF Confirm, Revise, EngineEnds
<1>4. CASE UNCHANGED vars
  BY <1>1, <1>4 DEF vars
<1>5. CASE \E r \in Requests : Crash(r)
  BY <1>1, <1>5 DEF Crash
<1>6. QED
  BY <1>1, <1>2, <1>3, <1>4, <1>5, NextSplits

\* A request whose version is the task's was sent for the active plan, after any step.
LEMMA NextSighted ==
    ASSUME TypeOK, KindsMatch, Sighted, [Next]_vars
    PROVE  Sighted'
<1> version \in Nat /\ version' \in Nat
  BY NextType DEF TypeOK, Versions
<1>1. version' >= version /\ (plan' # plan => version' > version)
  BY VersionCounts
<1>2. \A s \in Requests : req[s].pc # "idle" =>
        req[s].hash.version \in Nat /\ req[s].hash.version <= version
        /\ (req[s].hash.version = version' => req[s].hash.plan = plan')
  BY <1>1, CallOf DEF Sighted, Call, Hashes, Versions
<1>3. CASE UNCHANGED req
  BY <1>1, <1>2, <1>3 DEF Sighted
<1>4. ASSUME NEW r \in Requests, Serve(r) \/ Crash(r) PROVE Sighted'
  <2>1. Moves(r) /\ req[r].pc # "idle"
    BY <1>4, ServeMoves, ServesCalls, GoMoves DEF Crash, InFlight, Over
  <2>2. \A s \in Requests \ {r} : req'[s] = req[s]
    BY <2>1 DEF Moves, TypeOK
  <2>3. req'[r].hash = req[r].hash
    BY <2>1 DEF Moves, TypeOK
  <2>4. QED
    BY <1>1, <1>2, <2>1, <2>2, <2>3 DEF Sighted
<1>5. ASSUME NEW r \in Requests, Sends(r), UNCHANGED rowVars PROVE Sighted'
  <2>1. PICK f \in Call : /\ req' = [req EXCEPT ![r] = f]
                          /\ \/ f.hash.version = version /\ f.hash.plan = plan
                             \/ \E s \in Requests : req[s].pc # "idle" /\ f.hash = req[s].hash
    BY <1>5 DEF Sends
  <2>2. req'[r] = f /\ \A s \in Requests \ {r} : req'[s] = req[s]
    BY <2>1 DEF TypeOK
  <2>3. f.hash.version <= version /\ (f.hash.version = version => f.hash.plan = plan)
    BY <2>1 DEF Sighted
  <2>4. QED
    BY <1>5, <2>2, <2>3 DEF Sighted, rowVars
<1>6. UNCHANGED vars => UNCHANGED req
  BY DEF vars
<1>7. QED
  BY <1>3, <1>4, <1>5, <1>6, NextSplits DEF Confirm, Revise, EngineEnds

\* Gates are only added, and what the plans require stays.
LEMMA ApprovalsStay ==
    ASSUME TypeOK, [Next]_vars, NEW p, Approved(p)
    PROVE  Approved(p)'
<1>1. gates \subseteq gates' /\ required' = required
  <2>1. \A r \in Requests : Serve(r) => gates \subseteq gates' /\ required' = required
    BY DEF Serve, Replay, ReadTask, NotAllowed, RecordGate, ListGates, Transition, ClaimExecution,
       DriverReturns, Recover, PauseExecution, Resume, Cancel, Record, ReplayAgain, config
  <2>2. QED
    BY <2>1, NextSplits DEF Crash, Confirm, Revise, EngineEnds, config, vars
<1>2. QED
  BY <1>1 DEF Approved

\* An approval decides by gates that are never taken back.
LEMMA NextDecided ==
    ASSUME TypeOK, KindsMatch, Decided, [Next]_vars
    PROVE  Decided'
<1>1. CASE UNCHANGED req
  BY <1>1, ApprovalsStay DEF Decided
<1>2. ASSUME NEW r \in Requests, Serve(r) PROVE Decided'
  <2>1. Moves(r) /\ Follows(r)
    BY <1>2, ServeMoves
  <2>2. \A s \in Requests \ {r} : req'[s] = req[s]
    BY <2>1 DEF Moves, TypeOK
  <2>3. req'[r].hash = req[r].hash
    BY <2>1 DEF Moves, TypeOK
  <2>4. req'[r].pc = "transition" =>
          /\ req'[r].answer.state \in {"rejected", "awaiting_approval", "ready"}
          /\ req'[r].answer.state = "ready" => Approved(req[r].hash.plan)
    BY <2>1 DEF Follows, NextState
  <2>5. QED
    BY <2>2, <2>3, <2>4, ApprovalsStay DEF Decided
<1>3. ASSUME NEW r \in Requests, Sends(r) \/ Crash(r) PROVE Decided'
  <2>1. req'[r].pc # "transition"
    <3>1. CASE Sends(r)
      BY <3>1 DEF Sends, TypeOK
    <3>2. CASE Crash(r)
      <4>1. req[r] \in Call
        BY <3>2, CallOf DEF Crash, InFlight
      <4>2. QED
        BY <3>2, <4>1 DEF Crash, Go, Call, TypeOK
    <3>3. QED
      BY <1>3, <3>1, <3>2
  <2>2. \A s \in Requests \ {r} : req'[s] = req[s]
    BY <1>3 DEF Sends, Crash, Go, TypeOK
  <2>3. QED
    BY <2>1, <2>2, ApprovalsStay DEF Decided
<1>4. UNCHANGED vars => UNCHANGED req
  BY DEF vars
<1>5. QED
  BY <1>1, <1>2, <1>3, <1>4, NextSplits DEF Confirm, Revise, EngineEnds

\* A task gets to run, or to another plan, on an approved plan only.
LEMMA NextApproved ==
    ASSUME Inv, [Next]_vars
    PROVE  PlanApproved'
<1> TypeOK /\ KindsMatch /\ Sighted /\ Decided /\ PlanApproved
  BY DEF Inv
<1>1. ASSUME Approved(plan), plan' = plan PROVE PlanApproved'
  BY <1>1, ApprovalsStay DEF PlanApproved
<1>2. CASE taskState' = taskState /\ plan' = plan
  BY <1>1, <1>2 DEF PlanApproved
<1>3. ASSUME NEW r \in Requests, Serve(r) PROVE PlanApproved'
  <2> req[r] \in Call /\ req[r].pc # "idle"
    BY <1>3, ServesCalls, CallOf
  <2>1. CASE Transition(r)
    <3>1. CASE MayTransition(r)
      <4>1. plan = req[r].hash.plan
        BY <3>1 DEF MayTransition, Sighted
      <4>2. taskState' = req[r].answer.state /\ plan' = plan /\ req[r].pc = "transition"
        BY <2>1, <3>1 DEF Transition
      <4>3. CASE req[r].answer.state = "ready"
        BY <1>1, <4>1, <4>2, <4>3 DEF Decided
      <4>4. CASE req[r].answer.state # "ready"
        BY <4>2, <4>4 DEF Decided, PlanApproved, Runs
      <4>5. QED
        BY <4>3, <4>4
    <3>2. CASE ~MayTransition(r)
      BY <1>2, <2>1, <3>2 DEF Transition, rowVars
    <3>3. QED
      BY <3>1, <3>2
  <2>2. CASE ClaimExecution(r)
    <3>1. CASE UNCHANGED rowVars
      BY <1>2, <3>1 DEF rowVars
    <3>2. CASE taskState = "ready" /\ version = req[r].hash.version /\ plan' = req[r].hash.plan
      <4>1. plan' = plan
        BY <3>2 DEF Sighted
      <4>2. Approved(plan)
        BY <3>2 DEF PlanApproved, Runs
      <4>3. QED
        BY <1>1, <4>1, <4>2
    <3>3. QED
      BY <2>2, <3>1, <3>2 DEF ClaimExecution
  <2>3. CASE PauseExecution(r)
    <3>1. CASE taskState = "executing" /\ plan' = plan
      BY <1>1, <3>1 DEF PlanApproved, Runs
    <3>2. CASE UNCHANGED rowVars
      BY <1>2, <3>2 DEF rowVars
    <3>3. QED
      BY <2>3, <3>1, <3>2 DEF PauseExecution
  <2>4. CASE Resume(r)
    <3> DEFINE choice == req[r].hash.input.choice
    <3>1. choice \in {"retry", "skip", "abort"}
      BY <2>4, ApprovalTyped DEF KindsMatch, Resume
    <3>2. CASE UNCHANGED rowVars
      BY <1>2, <3>2 DEF rowVars
    <3>3. CASE taskState = "paused" /\ choice = "retry" /\ plan' = plan
      BY <1>1, <3>3 DEF PlanApproved, Runs
    <3>4. CASE taskState' = ResumedState(choice) /\ choice \in {"skip", "abort"}
      BY <3>4 DEF PlanApproved, Runs, ResumedState
    <3>5. QED
      BY <2>4, <3>1, <3>2, <3>3, <3>4 DEF Resume
  <2>5. CASE Cancel(r)
    <3>1. CASE UNCHANGED rowVars
      BY <1>2, <3>1 DEF rowVars
    <3>2. CASE taskState' = "cancelled"
      BY <3>2 DEF PlanApproved, Runs
    <3>3. QED
      BY <2>5, <3>1, <3>2 DEF Cancel
  <2>6. CASE UNCHANGED rowVars
    BY <1>2, <2>6 DEF rowVars
  <2>7. QED
    BY <1>3, <2>1, <2>2, <2>3, <2>4, <2>5, <2>6
    DEF Serve, Replay, ReadTask, NotAllowed, RecordGate, ListGates, DriverReturns, Recover,
        Record, ReplayAgain
<1>4. CASE Confirm
  <2>1. plan' = plan /\ taskState' = IF required = {} THEN "ready" ELSE "awaiting_approval"
    BY <1>4 DEF Confirm
  <2>2. CASE required = {}
    BY <1>1, <2>1, <2>2 DEF Approved
  <2>3. CASE required # {}
    BY <2>1, <2>3 DEF PlanApproved, Runs
  <2>4. QED
    BY <2>2, <2>3
<1>5. CASE Revise
  BY <1>5 DEF Revise, PlanApproved, Runs
<1>6. ASSUME NEW a \in Attempts \ {0}, EngineEnds(a) PROVE PlanApproved'
  <2>1. taskState = "executing" /\ plan' = plan
    BY <1>6 DEF EngineEnds
  <2>2. QED
    BY <1>1, <2>1 DEF PlanApproved, Runs
<1>7. CASE UNCHANGED rowVars
  BY <1>2, <1>7 DEF rowVars
<1>8. QED
  BY <1>3, <1>4, <1>5, <1>6, <1>7, NextSplits DEF vars, Crash

-----------------------------------------------------------------------------
(* One driver for an attempt.                                              *)

\* The attempts are numbered in the order in which they were claimed.
Numbered ==
    /\ \E n \in 0 .. MaxAttempts : \A a \in Attempts \ {0} : attempt[a] # "none" <=> a <= n
    /\ current # 0 => attempt[current] # "none"

\* What a driver works on was claimed.
DrivenIsClaimed ==
    \A r \in Requests : req[r].pc = "drive" => req[r].seen # 0 /\ attempt[req[r].seen] # "none"

\* Numbered in order, the attempts are counted by the last one.
LEMMA CountIsLast ==
    ASSUME NEW n \in 0 .. MaxAttempts, \A a \in Attempts \ {0} : attempt[a] # "none" <=> a <= n
    PROVE  LastAttempt = n
<1>1. {a \in Attempts \ {0} : attempt[a] # "none"} = 1 .. n
  BY CommandAssumption DEF Attempts
<1>2. Cardinality(1 .. n) = n
  BY FS_Interval
<1>3. QED
  BY <1>1, <1>2 DEF LastAttempt

\* What happens to an attempt that was not claimed, and to a driver.
LEMMA DriverSteps ==
    ASSUME TypeOK, KindsMatch, Numbered, [Next]_vars
    PROVE  \/ /\ \A a \in Attempts \ {0} : attempt[a] # "none" <=> attempt'[a] # "none"
              /\ \A r \in Requests : req'[r].pc = "drive" => req'[r] = req[r]
              /\ current' \in {current, 0}
           \/ \E r \in Requests, a \in Attempts \ {0} :
                /\ a = LastAttempt + 1 /\ attempt' = [attempt EXCEPT ![a] = "active"]
                /\ current' = a /\ req'[r].seen = a
                /\ \A s \in Requests \ {r} : req'[s] = req[s]
<1> DEFINE Same == \A a \in Attempts \ {0} : attempt[a] # "none" <=> attempt'[a] # "none"
           Driving == \A r \in Requests : req'[r].pc = "drive" => req'[r] = req[r]
<1>1. ASSUME NEW r \in Requests, Serve(r), ~ClaimExecution(r) PROVE Same /\ Driving /\ current' = current
  <2>1. Moves(r) /\ Follows(r)
    BY <1>1, ServeMoves
  <2>2. req[r].pc # "claim"
    BY <1>1 DEF Serve, Replay, ReadTask, NotAllowed, RecordGate, ListGates, Transition,
         DriverReturns, Recover, PauseExecution, Resume, Cancel, Record, ReplayAgain
  <2>3. req'[r].pc # "drive" /\ \A s \in Requests \ {r} : req'[s] = req[s]
    BY <2>1, <2>2 DEF Moves, Follows, TypeOK
  <2>4. Same /\ current' = current
    <3>1. CASE UNCHANGED <<attempt, current>>
      BY <3>1
    <3>2. CASE \E st \in {"paused", "cancelled"} :
                 attempt' = [attempt EXCEPT ![current] = st] /\ current' = current
      BY <3>2 DEF TypeOK, Numbered
    <3>3. CASE Resume(r)
      BY <3>3 DEF Resume, TypeOK, Numbered, rowVars
    <3>4. QED
      BY <1>1, <3>1, <3>2, <3>3
      DEF Serve, Replay, ReadTask, NotAllowed, RecordGate, ListGates, Transition, DriverReturns,
          Recover, PauseExecution, Cancel, Record, ReplayAgain, rowVars
  <2>5. QED
    BY <2>3, <2>4
<1>2. ASSUME NEW r \in Requests, ClaimExecution(r)
      PROVE  \/ Same /\ Driving /\ current' = current
             \/ \E a \in Attempts \ {0} :
                  /\ a = LastAttempt + 1 /\ attempt' = [attempt EXCEPT ![a] = "active"]
                  /\ current' = a /\ req'[r].seen = a
                  /\ \A s \in Requests \ {r} : req'[s] = req[s]
  <2> req[r] \in Call
    BY <1>2, CallOf DEF ClaimExecution
  <2>1. \A s \in Requests \ {r} : req'[s] = req[s]
    BY <1>2, ClaimMoves DEF Moves, TypeOK
  <2>2. CASE UNCHANGED rowVars /\ ClaimAgain(r)
    <3>1. req'[r].pc # "drive"
      BY <2>2 DEF ClaimAgain, TypeOK, Call
    <3>2. QED
      BY <2>1, <2>2, <3>1 DEF rowVars
  <2>3. CASE UNCHANGED rowVars /\ Refuse(r)
    <3>1. req'[r].pc # "drive"
      BY <2>3 DEF Refuse, Go, TypeOK, Call
    <3>2. QED
      BY <2>1, <2>3, <3>1 DEF rowVars
  <2>4. CASE \E a \in Attempts : /\ a = LastAttempt + 1 /\ current' = a
                                /\ attempt' = [attempt EXCEPT ![a] = "active"]
                                /\ req' = [req EXCEPT ![r].pc = IF hasDriver THEN "drive" ELSE "pause",
                                                      ![r].seen = a]
    <3>1. PICK a \in Attempts : /\ a = LastAttempt + 1 /\ current' = a
                               /\ attempt' = [attempt EXCEPT ![a] = "active"]
                               /\ req' = [req EXCEPT ![r].pc = IF hasDriver THEN "drive" ELSE "pause",
                                                     ![r].seen = a]
      BY <2>4
    <3>2. a \in Attempts \ {0}
      BY <3>1, LastAttemptTyped
    <3>3. req'[r].seen = a
      BY <3>1 DEF TypeOK, Call
    <3>4. QED
      BY <2>1, <3>1, <3>2, <3>3
  <2>5. QED
    BY <1>2, <2>2, <2>3, <2>4 DEF ClaimExecution
<1>3. ASSUME NEW r \in Requests, Sends(r) \/ Crash(r), UNCHANGED rowVars
      PROVE  Same /\ Driving /\ current' = current
  <2>1. req'[r].pc # "drive"
    <3>1. CASE Sends(r)
      BY <3>1 DEF Sends, TypeOK
    <3>2. CASE Crash(r)
      <4>1. req[r] \in Call
        BY <3>2, CallOf DEF Crash, InFlight
      <4>2. QED
        BY <3>2, <4>1 DEF Crash, Go, Call, TypeOK
    <3>3. QED
      BY <1>3, <3>1, <3>2
  <2>2. \A s \in Requests \ {r} : req'[s] = req[s]
    BY <1>3 DEF Sends, Crash, Go, TypeOK
  <2>3. QED
    BY <1>3, <2>1, <2>2 DEF rowVars
<1>4. CASE UNCHANGED vars
  BY <1>4 DEF vars, rowVars
<1>5. CASE Confirm \/ Revise
  BY <1>5 DEF Confirm, Revise
<1>6. ASSUME NEW a \in Attempts \ {0}, EngineEnds(a) PROVE Same /\ Driving /\ current' = current
  BY <1>6 DEF EngineEnds, TypeOK
<1>7. \A r \in Requests : Crash(r) => UNCHANGED rowVars
  BY DEF Crash
<1>8. QED
  BY <1>1, <1>2, <1>3, <1>4, <1>5, <1>6, <1>7, NextSplits

\* The numbers stay, and a new driver has the next one.
LEMMA NextDriver ==
    ASSUME TypeOK, KindsMatch, Numbered, DrivenIsClaimed, OneDriver, [Next]_vars
    PROVE  Numbered' /\ DrivenIsClaimed' /\ OneDriver'
<1>1. PICK n \in 0 .. MaxAttempts : \A a \in Attempts \ {0} : attempt[a] # "none" <=> a <= n
  BY DEF Numbered
<1>2. CASE /\ \A a \in Attempts \ {0} : attempt[a] # "none" <=> attempt'[a] # "none"
           /\ \A r \in Requests : req'[r].pc = "drive" => req'[r] = req[r]
           /\ current' \in {current, 0}
  <2>1. Numbered'
    <3>1. \A a \in Attempts \ {0} : attempt'[a] # "none" <=> a <= n
      BY <1>1, <1>2
    <3>2. current' # 0 => attempt'[current'] # "none"
      BY <1>2 DEF Numbered, TypeOK
    <3>3. QED
      BY <3>1, <3>2 DEF Numbered
  <2>2. DrivenIsClaimed'
    <3> SUFFICES ASSUME NEW r \in Requests, req'[r].pc = "drive"
                 PROVE  req'[r].seen # 0 /\ attempt'[req'[r].seen] # "none"
      BY DEF DrivenIsClaimed
    <3>1. req'[r] = req[r] /\ req[r].pc = "drive"
      BY <1>2
    <3>2. req[r].seen \in Attempts
      BY <3>1, CallOf DEF Call
    <3>3. QED
      BY <1>2, <3>1, <3>2 DEF DrivenIsClaimed
  <2>3. OneDriver'
    BY <1>2 DEF OneDriver
  <2>4. QED
    BY <2>1, <2>2, <2>3
<1>3. CASE \E r \in Requests, a \in Attempts \ {0} :
             /\ a = LastAttempt + 1 /\ attempt' = [attempt EXCEPT ![a] = "active"]
             /\ current' = a /\ req'[r].seen = a
             /\ \A s \in Requests \ {r} : req'[s] = req[s]
  <2>1. PICK r \in Requests, a \in Attempts \ {0} :
             /\ a = LastAttempt + 1 /\ attempt' = [attempt EXCEPT ![a] = "active"]
             /\ current' = a /\ req'[r].seen = a
             /\ \A s \in Requests \ {r} : req'[s] = req[s]
    BY <1>3
  <2>2. a = n + 1 /\ a \in 0 .. MaxAttempts
    BY <1>1, <2>1, CountIsLast DEF Attempts
  <2>3. attempt[a] = "none" /\ attempt'[a] = "active"
        /\ \A b \in Attempts \ {0} : b # a => attempt'[b] = attempt[b]
    BY <1>1, <2>1, <2>2 DEF TypeOK
  <2>4. Numbered'
    <3>1. \A b \in Attempts \ {0} : attempt'[b] # "none" <=> b <= a
      BY <1>1, <2>2, <2>3, CommandAssumption DEF Attempts
    <3>2. QED
      BY <2>1, <2>2, <2>3, <3>1 DEF Numbered
  <2>5. \A s \in Requests \ {r} : req'[s].pc = "drive" =>
           /\ req'[s].seen # 0 /\ req'[s].seen # a /\ req'[s].seen \in Attempts
           /\ attempt'[req'[s].seen] # "none"
    <3> SUFFICES ASSUME NEW s \in Requests \ {r}, req'[s].pc = "drive"
                 PROVE  /\ req'[s].seen # 0 /\ req'[s].seen # a /\ req'[s].seen \in Attempts
                        /\ attempt'[req'[s].seen] # "none"
      OBVIOUS
    <3>1. req'[s] = req[s] /\ req[s].pc = "drive"
      BY <2>1
    <3>2. req[s].seen \in Attempts
      BY <3>1, CallOf DEF Call
    <3>3. req[s].seen # 0 /\ attempt[req[s].seen] # "none"
      BY <3>1 DEF DrivenIsClaimed
    <3>4. QED
      BY <2>3, <3>1, <3>2, <3>3
  <2>6. DrivenIsClaimed'
    BY <2>1, <2>3, <2>5 DEF DrivenIsClaimed
  <2>7. OneDriver'
    <3> SUFFICES ASSUME NEW s \in Requests, NEW t \in Requests,
                        req'[s].pc = "drive", req'[t].pc = "drive", s # t
                 PROVE  req'[s].seen # req'[t].seen
      BY DEF OneDriver
    <3>1. CASE s = r \/ t = r
      BY <2>1, <2>5, <3>1
    <3>2. CASE s # r /\ t # r
      BY <2>1, <3>2 DEF OneDriver
    <3>3. QED
      BY <3>1, <3>2
  <2>8. QED
    BY <2>4, <2>6, <2>7
<1>4. QED
  BY <1>2, <1>3, DriverSteps

-----------------------------------------------------------------------------
(* The versions that approvals made.                                       *)

\* r holds the answer of an approval.
Holds(r) == req[r].pc \in {"record", "answered"} /\ Kind(r) = "approve"

\* The answer of an approval with key k is on record.
OnRecord(k) == "approve" \in Kinds /\ command["approve"][k].status # "none"

\* An approval with key k made version v.
Made(k, v) ==
    \/ \E r \in Requests : Holds(r) /\ req[r].key = k /\ req[r].answer.version = v
    \/ k \in Keys /\ OnRecord(k) /\ command["approve"][k].answer.version = v

AdvancedOnce ==
    /\ \A k, v : Made(k, v) => v <= version
    /\ \A k, l, v : Made(k, v) /\ Made(l, v) => k = l
    /\ \A r \in Requests : Holds(r) => req[r].answer.version = req[r].hash.version + 1
    /\ \A k \in Keys : OnRecord(k) =>
         command["approve"][k].answer.version = command["approve"][k].hash.version + 1

\* No approval is answered or put on record.
Quiet(r) ==
    /\ "approve" \in Kinds => command'["approve"] = command["approve"]
    /\ Kind(r) = "approve" => req'[r].pc \notin {"record", "answered"}

\* The recorded answer is given again.
Repeats(r) ==
    /\ Kind(r) = "approve" /\ OnRecord(req[r].key) /\ UNCHANGED command
    /\ command["approve"][req[r].key].hash = req[r].hash
    /\ req'[r].answer = command["approve"][req[r].key].answer

\* The answer of the approval is put on record.
Records(r) ==
    /\ Kind(r) = "approve" /\ req[r].pc = "record" /\ req'[r].answer = req[r].answer
    /\ command' = [command EXCEPT !["approve"][req[r].key] =
                      [status |-> "done", hash |-> req[r].hash, answer |-> req[r].answer]]

\* The approval makes the next version.
Advances(r) ==
    /\ UNCHANGED command /\ Kind(r) = "approve" /\ version = req[r].hash.version
    /\ version' = version + 1 /\ req'[r].answer.version = version'

\* What the step of a call does to the answers of approvals.
LEMMA AnswerSteps ==
    ASSUME TypeOK, KindsMatch, NEW r \in Requests, Serve(r)
    PROVE  Quiet(r) \/ Repeats(r) \/ Records(r) \/ Advances(r)
<1> req[r] \in Call /\ req[r].pc # "idle"
  BY ServesCalls, CallOf
<1> Kind(r) \in Kinds /\ req[r].key \in Keys
  BY ApprovalTyped DEF Call
<1>1. \A p : Go(r, p) => req'[r].pc = p
  BY DEF Go, TypeOK, Call
<1>2. \A a : Reply(r, a) \/ Then(r, a) => req'[r].answer = a
  BY DEF Reply, Then, TypeOK, Call
<1>3. CASE Kind(r) # "approve"
  <2>1. CASE UNCHANGED command
    BY <1>3, <2>1 DEF Quiet
  <2>2. CASE Record(r) \/ Cancel(r)
    <3>1. req[r].pc = "cancel" => Kind(r) = "cancel"
      BY DEF KindsMatch
    <3>2. "approve" \in Kinds => command'["approve"] = command["approve"]
      <4>1. CASE UNCHANGED command
        BY <4>1
      <4>2. CASE \E k \in Kinds : \E row : k # "approve" /\ command' = [command EXCEPT ![k][req[r].key] = row]
        BY <4>2 DEF TypeOK
      <4>3. QED
        BY <1>3, <2>2, <3>1, <4>1, <4>2 DEF Record, Cancel
    <3>3. QED
      BY <1>3, <3>2 DEF Quiet
  <2>3. QED
    BY <2>1, <2>2
    DEF Serve, Replay, ReadTask, NotAllowed, RecordGate, ListGates, Transition, ClaimExecution,
        DriverReturns, Recover, PauseExecution, Resume, ReplayAgain
<1>4. CASE Kind(r) = "approve"
  <2>1. CASE Replay(r)
    <3>1. CASE Go(r, "read") \/ Refuse(r)
      BY <1>1, <2>1, <3>1 DEF Replay, Refuse, Quiet
    <3>2. CASE Row(r).status # "none" /\ Row(r).hash = req[r].hash /\ Reply(r, Row(r).answer)
      BY <1>2, <1>4, <2>1, <3>2 DEF Replay, Repeats, Row, OnRecord
    <3>3. QED
      BY <2>1, <3>1, <3>2 DEF Replay
  <2>2. CASE ReplayAgain(r)
    <3>1. CASE Refuse(r)
      BY <1>1, <2>2, <3>1 DEF ReplayAgain, Refuse, Quiet
    <3>2. CASE Row(r).status # "none" /\ Row(r).hash = req[r].hash /\ Reply(r, Row(r).answer)
      BY <1>2, <1>4, <2>2, <3>2 DEF ReplayAgain, Repeats, Row, OnRecord
    <3>3. QED
      BY <2>2, <3>1, <3>2 DEF ReplayAgain
  <2>3. CASE ReadTask(r)
    <3>1. \E p \in {"gate", "refused"} : req' = [req EXCEPT ![r].pc = p, ![r].seen = current]
      BY <1>4, <2>3 DEF ReadTask
    <3>2. req'[r].pc \in {"gate", "refused"}
      BY <3>1 DEF TypeOK, Call
    <3>3. QED
      BY <2>3, <3>2 DEF ReadTask, Quiet
  <2>4. CASE NotAllowed(r)
    BY <1>4, <2>4 DEF NotAllowed
  <2>5. CASE RecordGate(r)
    BY <1>1, <2>5 DEF RecordGate, Refuse, Quiet
  <2>6. CASE ListGates(r)
    <3>1. req'[r].pc = "transition"
      BY <2>6 DEF ListGates, TypeOK, Call
    <3>2. QED
      BY <2>6, <3>1 DEF ListGates, Quiet
  <2>7. CASE Transition(r)
    <3>1. CASE Refuse(r)
      BY <1>1, <2>7, <3>1 DEF Transition, Refuse, Quiet
    <3>2. CASE MayTransition(r) /\ version' = version + 1 /\ Then(r, NewTask(0))
      BY <1>2, <1>4, <2>7, <3>2 DEF Transition, Advances, MayTransition, NewTask
    <3>3. QED
      BY <2>7, <3>1, <3>2 DEF Transition
  <2>8. CASE Record(r)
    <3>1. CASE Go(r, "again") \/ Refuse(r)
      <4>1. req'[r].pc \in {"again", "refused"}
        BY <1>1, <3>1 DEF Refuse
      <4>2. CASE UNCHANGED command
        BY <4>1, <4>2 DEF Quiet
      <4>3. CASE command' # command
        <5>1. Reply(r, req[r].answer)
          BY <2>8, <4>3 DEF Record
        <5>2. req'[r].pc = "answered"
          BY <5>1 DEF Reply, TypeOK, Call
        <5>3. QED
          BY <4>1, <5>2
      <4>4. QED
        BY <4>2, <4>3
    <3>2. CASE Reply(r, req[r].answer) /\ Row(r).status = "none"
      BY <1>2, <1>4, <2>8, <3>2 DEF Record, Records
    <3>3. QED
      BY <2>8, <3>1, <3>2 DEF Record
  <2>9. CASE ClaimExecution(r) \/ DriverReturns(r) \/ Recover(r) \/ PauseExecution(r)
             \/ Resume(r) \/ Cancel(r)
    BY <1>4, <2>9 DEF KindsMatch, ClaimExecution, DriverReturns, Recover, PauseExecution, Resume, Cancel
  <2>10. QED
    BY <1>3, <2>1, <2>2, <2>3, <2>4, <2>5, <2>6, <2>7, <2>8, <2>9 DEF Serve
<1>5. QED
  BY <1>3, <1>4

\* What is on record for approvals is typed.
LEMMA OnRecordTyped ==
    ASSUME TypeOK, NEW k \in Keys, OnRecord(k)
    PROVE  /\ command["approve"][k].answer.version \in Nat
           /\ command["approve"][k].hash.version \in Nat
<1>1. command["approve"][k] \in Row0
  BY DEF TypeOK, OnRecord
<1>2. command["approve"][k] \in [status : {"done"}, hash : Hashes, answer : Answers]
  BY <1>1 DEF Row0, NoRow, OnRecord
<1>3. QED
  BY <1>2 DEF Hashes, Answers, Versions

\* Each step keeps what is known of the versions that approvals made.
LEMMA NextAdvanced ==
    ASSUME TypeOK, KindsMatch, AdvancedOnce, [Next]_vars
    PROVE  AdvancedOnce'
<1> version \in Nat /\ version' >= version /\ version' \in Nat
  BY VersionCounts, NextType DEF TypeOK, Versions
<1>1. ASSUME /\ \A r \in Requests : Holds(r)' =>
                    Holds(r) /\ req'[r].key = req[r].key /\ req'[r].hash = req[r].hash
                             /\ req'[r].answer = req[r].answer,
             "approve" \in Kinds => command'["approve"] = command["approve"]
      PROVE  AdvancedOnce'
  <2>1. \A k, v : Made(k, v)' => Made(k, v)
    BY <1>1 DEF Made, OnRecord
  <2>2. \A k \in Keys : OnRecord(k)' =>
          command'["approve"][k].answer.version = command'["approve"][k].hash.version + 1
    BY <1>1 DEF AdvancedOnce, OnRecord
  <2>3. \A r \in Requests : Holds(r)' => req'[r].answer.version = req'[r].hash.version + 1
    BY <1>1 DEF AdvancedOnce
  <2>4. \A k, v : Made(k, v) => v \in Nat
    BY CallOf, OnRecordTyped DEF Made, Holds, Call, Answers, Versions
  <2>5. QED
    BY <2>1, <2>2, <2>3, <2>4 DEF AdvancedOnce
<1> DEFINE Others(r) == \A s \in Requests \ {r} : req'[s] = req[s]
           Kept(r) == req'[r].key = req[r].key /\ req'[r].hash = req[r].hash
<1>2. ASSUME NEW r \in Requests, Serve(r) PROVE AdvancedOnce'
  <2> req[r] \in Call /\ req[r].pc # "idle"
    BY <1>2, ServesCalls, CallOf
  <2> req[r].key \in Keys
    BY DEF Call
  <2>1. Others(r) /\ Kept(r)
    BY <1>2, ServeMoves DEF Moves, TypeOK
  <2>2. \A s \in Requests \ {r} : Holds(s)' <=> Holds(s)
    BY <2>1 DEF Holds, Kind
  <2>3. CASE Quiet(r)
    <3>1. ~Holds(r)'
      BY <2>1, <2>3 DEF Quiet, Holds, Kind
    <3>2. "approve" \in Kinds => command'["approve"] = command["approve"]
      BY <2>3 DEF Quiet
    <3>3. QED
      BY <1>1, <2>1, <2>2, <3>1, <3>2
  <2>4. \A k, v : Made(k, v) => v \in Nat
    BY CallOf, OnRecordTyped DEF Made, Holds, Call, Answers, Versions
  <2>5. CASE Repeats(r)
    <3>1. \A k, v : Made(k, v)' => Made(k, v)
      BY <2>1, <2>2, <2>5 DEF Made, Repeats, OnRecord
    <3>2. \A s \in Requests : Holds(s)' => req'[s].answer.version = req'[s].hash.version + 1
      BY <2>1, <2>2, <2>5 DEF Repeats, AdvancedOnce
    <3>3. \A k \in Keys : OnRecord(k)' =>
            command'["approve"][k].answer.version = command'["approve"][k].hash.version + 1
      BY <2>5 DEF Repeats, AdvancedOnce, OnRecord
    <3>4. QED
      BY <2>4, <3>1, <3>2, <3>3 DEF AdvancedOnce
  <2>6. CASE Records(r)
    <3>1. Holds(r)
      BY <2>6 DEF Records, Holds
    <3>2. \A k \in Keys : "approve" \in Kinds => command'["approve"][k] =
            IF k = req[r].key THEN [status |-> "done", hash |-> req[r].hash, answer |-> req[r].answer]
            ELSE command["approve"][k]
      BY <2>6 DEF Records, TypeOK
    <3>3. \A k, v : Made(k, v)' => Made(k, v)
      BY <2>1, <2>2, <2>6, <3>1, <3>2 DEF Made, Records, OnRecord
    <3>4. \A s \in Requests : Holds(s)' => req'[s].answer.version = req'[s].hash.version + 1
      BY <2>1, <2>2, <2>6, <3>1 DEF Records, AdvancedOnce
    <3>5. \A k \in Keys : OnRecord(k)' =>
            command'["approve"][k].answer.version = command'["approve"][k].hash.version + 1
      BY <3>1, <3>2 DEF AdvancedOnce, OnRecord
    <3>6. QED
      BY <2>4, <3>3, <3>4, <3>5 DEF AdvancedOnce
  <2>7. CASE Advances(r)
    <3>1. \A k, v : Made(k, v)' => Made(k, v) \/ (k = req[r].key /\ v = version + 1)
      BY <2>1, <2>2, <2>7 DEF Made, Advances, OnRecord
    <3>2. \A k, v : Made(k, v) => v # version + 1 /\ v <= version + 1
      BY <2>4 DEF AdvancedOnce
    <3>3. \A k, v : Made(k, v)' => v <= version'
      BY <2>7, <3>1, <3>2 DEF Advances
    <3>4. \A k, l, v : Made(k, v)' /\ Made(l, v)' => k = l
      BY <3>1, <3>2 DEF AdvancedOnce
    <3>5. \A s \in Requests : Holds(s)' => req'[s].answer.version = req'[s].hash.version + 1
      BY <2>1, <2>2, <2>7 DEF Advances, AdvancedOnce
    <3>6. \A k \in Keys : OnRecord(k)' =>
            command'["approve"][k].answer.version = command'["approve"][k].hash.version + 1
      BY <2>7 DEF Advances, AdvancedOnce, OnRecord
    <3>7. QED
      BY <3>3, <3>4, <3>5, <3>6 DEF AdvancedOnce
  <2>8. QED
    BY <1>2, <2>3, <2>5, <2>6, <2>7, AnswerSteps
<1>3. ASSUME NEW r \in Requests, Sends(r) \/ Crash(r), UNCHANGED command PROVE AdvancedOnce'
  <2>1. req'[r].pc \in {"replay", "crashed"}
    <3>1. CASE Sends(r)
      BY <3>1 DEF Sends, TypeOK
    <3>2. CASE Crash(r)
      <4>1. req[r] \in Call
        BY <3>2, CallOf DEF Crash, InFlight
      <4>2. QED
        BY <3>2, <4>1 DEF Crash, Go, Call, TypeOK
    <3>3. QED
      BY <1>3, <3>1, <3>2
  <2>2. Others(r)
    BY <1>3 DEF Sends, Crash, Go, TypeOK
  <2>3. \A s \in Requests : Holds(s)' => s # r /\ Holds(s)
    BY <2>1, <2>2 DEF Holds, Kind
  <2>4. QED
    BY <1>1, <1>3, <2>2, <2>3
<1>4. CASE UNCHANGED <<req, command>>
  BY <1>1, <1>4 DEF Holds, Kind
<1>5. (\A r \in Requests : Crash(r) => UNCHANGED command) /\ (UNCHANGED vars => UNCHANGED <<req, command>>)
  BY DEF Crash, vars
<1>6. QED
  BY <1>2, <1>3, <1>4, <1>5, NextSplits DEF Confirm, Revise, EngineEnds

-----------------------------------------------------------------------------
(* Answers.                                                                *)

\* The task's state is that of its current attempt.
CurrentMatches ==
    /\ taskState = "executing" => current # 0 /\ attempt[current] = "active"
    /\ taskState \in {"completed", "paused"} /\ current # 0 => attempt[current] = taskState

\* Attempt a, claimed with key k, ended with the status.
Told(k, a, status) ==
    /\ claims[k].status # "none" /\ claims[k].attempt = a /\ status \in {"completed", "paused"}
    /\ attempt[a] = status \/ (status = "paused" /\ attempt[a] = "cancelled")

\* The same of the state after a step.
ToldNext(k, a, status) ==
    /\ claims'[k].status # "none" /\ claims'[k].attempt = a /\ status \in {"completed", "paused"}
    /\ attempt'[a] = status \/ (status = "paused" /\ attempt'[a] = "cancelled")

\* What is on record for key k, as a status of an execution.
ToldOnRecord(k) ==
    "execute" \in Kinds /\ command["execute"][k].status # "none" =>
        Told(k, command["execute"][k].answer.attempt, command["execute"][k].answer.status)

\* A call works on what its key claimed.
WorksOnClaim(r) ==
    req[r].pc \in {"drive", "recover", "pause"} =>
        claims[req[r].key].status # "none" /\ claims[req[r].key].attempt = req[r].seen

\* What a call is about to record, or has answered, of its execution.
Tells(r) ==
    req[r].pc \in {"record", "answered"} /\ Kind(r) = "execute" =>
        Told(req[r].key, req[r].answer.attempt, req[r].answer.status)

\* An answered call is on record.
Stands(r) ==
    req[r].pc = "answered" =>
        Row(r).status = "done" /\ Row(r).hash = req[r].hash /\ Row(r).answer = req[r].answer

Truth ==
    /\ CurrentMatches
    /\ \A k \in Keys : ToldOnRecord(k)
    /\ \A r \in Requests : WorksOnClaim(r) /\ Tells(r) /\ Stands(r)

\* An attempt that has ended stays as it ended, or is cancelled while paused.
LEMMA AttemptsStay ==
    ASSUME TypeOK, KindsMatch, Numbered, CurrentMatches, [Next]_vars, NEW a \in Attempts \ {0}
    PROVE  \/ attempt'[a] = attempt[a]
           \/ attempt[a] \in {"none", "active"}
           \/ attempt[a] = "paused" /\ attempt'[a] = "cancelled"
<1>1. CASE UNCHANGED rowVars
  BY <1>1 DEF rowVars
<1>2. ASSUME NEW r \in Requests, ClaimExecution(r), attempt' # attempt PROVE attempt'[a] = attempt[a] \/ attempt[a] = "none"
  <2>1. PICK n \in 0 .. MaxAttempts : \A b \in Attempts \ {0} : attempt[b] # "none" <=> b <= n
    BY DEF Numbered
  <2>2. attempt' = [attempt EXCEPT ![n + 1] = "active"] /\ n + 1 \in Attempts
    BY <1>2, <2>1, CountIsLast DEF ClaimExecution, rowVars
  <2>3. QED
    BY <2>1, <2>2 DEF TypeOK
<1>3. ASSUME NEW r \in Requests, PauseExecution(r) PROVE attempt'[a] = attempt[a] \/ attempt[a] = "active"
  BY <1>3 DEF PauseExecution, CurrentMatches, TypeOK, rowVars
<1>4. ASSUME NEW r \in Requests, Resume(r)
      PROVE  attempt'[a] = attempt[a] \/ (attempt[a] = "paused" /\ attempt'[a] = "cancelled")
  BY <1>4 DEF Resume, CurrentMatches, TypeOK, rowVars
<1>5. ASSUME NEW r \in Requests, Cancel(r)
      PROVE  \/ attempt'[a] = attempt[a] \/ attempt[a] = "active"
             \/ attempt[a] = "paused" /\ attempt'[a] = "cancelled"
  BY <1>5 DEF Cancel, CurrentMatches, TypeOK, rowVars
<1>6. ASSUME NEW b \in Attempts \ {0}, EngineEnds(b) PROVE attempt'[a] = attempt[a] \/ attempt[a] = "active"
  BY <1>6 DEF EngineEnds, TypeOK
<1>7. ASSUME NEW r \in Requests, Serve(r)
      PROVE  \/ UNCHANGED rowVars \/ attempt' = attempt \/ ClaimExecution(r) \/ PauseExecution(r) \/ Resume(r) \/ Cancel(r)
  BY <1>7 DEF Serve, Replay, ReadTask, NotAllowed, RecordGate, ListGates, Transition, DriverReturns,
       Recover, Record, ReplayAgain
<1>8. QED
  BY <1>1, <1>2, <1>3, <1>4, <1>5, <1>6, <1>7, NextSplits DEF vars, rowVars, Crash, Confirm, Revise

\* A task goes through its states together with its attempt.
LEMMA NextMatches ==
    ASSUME TypeOK, KindsMatch, Decided, CurrentMatches, [Next]_vars
    PROVE  CurrentMatches'
<1>1. CASE UNCHANGED rowVars
  BY <1>1 DEF rowVars, CurrentMatches
<1>2. ASSUME NEW r \in Requests, ClaimExecution(r) PROVE CurrentMatches'
  BY <1>1, <1>2, LastAttemptTyped DEF ClaimExecution, CurrentMatches, TypeOK
<1>3. ASSUME NEW r \in Requests, PauseExecution(r) PROVE CurrentMatches'
  BY <1>1, <1>3 DEF PauseExecution, CurrentMatches, TypeOK
<1>4. ASSUME NEW r \in Requests, Resume(r) PROVE CurrentMatches'
  <2>1. req[r] \in Call
    BY <1>4, CallOf DEF Resume
  <2>2. req[r].hash.input.choice \in {"retry", "skip", "abort"}
    BY <1>4, <2>1, ApprovalTyped DEF KindsMatch, Resume
  <2>3. ResumedState(req[r].hash.input.choice) \notin {"executing", "completed", "paused"}
    BY <2>2 DEF ResumedState
  <2>4. QED
    BY <1>1, <1>4, <2>3 DEF Resume, CurrentMatches
<1>5. ASSUME NEW r \in Requests, Cancel(r) PROVE CurrentMatches'
  BY <1>1, <1>5 DEF Cancel, CurrentMatches, rowVars
<1>6. ASSUME NEW b \in Attempts \ {0}, EngineEnds(b) PROVE CurrentMatches'
  BY <1>6 DEF EngineEnds, TypeOK, CurrentMatches
<1>7. ASSUME NEW r \in Requests, Transition(r) PROVE CurrentMatches'
  <2>1. CASE UNCHANGED rowVars
    BY <1>1, <2>1
  <2>2. CASE taskState' = req[r].answer.state
    BY <1>7, <2>2 DEF Decided, Transition, CurrentMatches
  <2>3. QED
    BY <1>7, <2>1, <2>2 DEF Transition
<1>8. CASE Confirm \/ Revise
  BY <1>8 DEF Confirm, Revise, CurrentMatches
<1>9. QED
  BY <1>1, <1>2, <1>3, <1>4, <1>5, <1>6, <1>7, <1>8, NextSplits
  DEF vars, Crash, Serve, Replay, ReadTask, NotAllowed, RecordGate, ListGates, DriverReturns,
      Recover, Record, ReplayAgain

\* A command that is answered, and a claim, stay on record.
LEMMA RecordsStay ==
    ASSUME TypeOK, KindsMatch, [Next]_vars
    PROVE  /\ \A kind \in Kinds, k \in Keys : command[kind][k].status # "none" =>
                command'[kind][k] = command[kind][k]
           /\ \A k \in Keys : claims[k].status # "none" => claims'[k] = claims[k]
<1>1. ASSUME NEW r \in Requests, Serve(r)
      PROVE  /\ UNCHANGED command \/ \E kind, row :
                  /\ kind = Kind(r) /\ Row(r).status = "none"
                  /\ command' = [command EXCEPT ![kind][req[r].key] = row]
             /\ UNCHANGED claims \/ \E row :
                  claims[req[r].key].status = "none" /\ claims' = [claims EXCEPT ![req[r].key] = row]
  <2>1. CASE UNCHANGED <<command, claims>>
    BY <2>1
  <2>2. CASE ClaimExecution(r)
    BY <2>2 DEF ClaimExecution
  <2>3. CASE Cancel(r)
    <3>1. Kind(r) = "cancel"
      BY <2>3 DEF KindsMatch, Cancel
    <3>2. QED
      BY <2>3, <3>1 DEF Cancel
  <2>4. CASE Record(r)
    BY <2>4 DEF Record
  <2>5. QED
    BY <1>1, <2>1, <2>2, <2>3, <2>4
    DEF Serve, Replay, ReadTask, NotAllowed, RecordGate, ListGates, Transition, DriverReturns,
        Recover, PauseExecution, Resume, ReplayAgain
<1>2. \A r \in Requests : Serve(r) => Kind(r) \in Kinds /\ req[r].key \in Keys
  BY ServesCalls, CallOf, ApprovalTyped DEF Call
<1>3. ASSUME NEW r \in Requests, Serve(r)
      PROVE  /\ \A kind \in Kinds, k \in Keys : command[kind][k].status # "none" =>
                command'[kind][k] = command[kind][k]
             /\ \A k \in Keys : claims[k].status # "none" => claims'[k] = claims[k]
  BY <1>1, <1>2, <1>3 DEF TypeOK, Row
<1>4. QED
  BY <1>3, NextSplits DEF vars, Crash, Confirm, Revise, EngineEnds

\* A claim names an attempt.
LEMMA ClaimTyped ==
    ASSUME TypeOK, NEW k \in Keys, claims[k].status # "none"
    PROVE  claims[k].attempt \in Attempts \ {0}
<1>1. claims[k] \in Claim0
  BY DEF TypeOK
<1>2. QED
  BY <1>1 DEF Claim0, NoRow

\* What was told of an execution stays true.
LEMMA ToldStays ==
    ASSUME TypeOK, KindsMatch, Numbered, CurrentMatches, [Next]_vars,
           NEW k \in Keys, NEW a, NEW status, Told(k, a, status)
    PROVE  ToldNext(k, a, status)
<1>1. a \in Attempts \ {0} /\ claims'[k] = claims[k]
  BY ClaimTyped, RecordsStay DEF Told
<1>2. attempt'[a] = status \/ (status = "paused" /\ attempt'[a] = "cancelled")
  BY <1>1, AttemptsStay DEF Told
<1>3. QED
  BY <1>1, <1>2 DEF Told, ToldNext

\* What the step of a call says of its execution is true.
LEMMA ServeTells ==
    ASSUME TypeOK, KindsMatch, Numbered, Truth, NEW r \in Requests, Serve(r), [Next]_vars
    PROVE  WorksOnClaim(r)' /\ Tells(r)' /\ Stands(r)'
<1> req[r] \in Call /\ req[r].pc # "idle"
  BY ServesCalls, CallOf
<1> Kind(r) \in Kinds /\ req[r].key \in Keys /\ CurrentMatches
  BY ApprovalTyped DEF Call, Truth
<1>1. req'[r].key = req[r].key /\ req'[r].hash = req[r].hash /\ Kind(r)' = Kind(r)
  BY ServeMoves DEF Moves, TypeOK, Kind
<1>2. \A p : Go(r, p) => req'[r].pc = p
  BY DEF Go, TypeOK, Call
<1>3. \A a : Reply(r, a) => req'[r].pc = "answered" /\ req'[r].answer = a
  BY DEF Reply, TypeOK, Call
<1>4. \A a : Then(r, a) => req'[r].pc = "record" /\ req'[r].answer = a
  BY DEF Then, TypeOK, Call
<1>5. ASSUME req'[r].pc \notin {"drive", "recover", "pause", "record", "answered"}
      PROVE  WorksOnClaim(r)' /\ Tells(r)' /\ Stands(r)'
  BY <1>5 DEF WorksOnClaim, Tells, Stands
<1>6. ASSUME req'[r].pc = "record", Kind(r) # "execute" PROVE WorksOnClaim(r)' /\ Tells(r)' /\ Stands(r)'
  BY <1>1, <1>6 DEF WorksOnClaim, Tells, Stands
<1>7. CASE (Replay(r) \/ ReplayAgain(r)) /\ req'[r].pc = "answered"
  <2>1. Row(r).status # "none" /\ Row(r).hash = req[r].hash /\ Reply(r, Row(r).answer)
    BY <1>2, <1>7 DEF Replay, ReplayAgain, Refuse
  <2>2. Row(r)' = Row(r)
    BY <1>1, <2>1, RecordsStay DEF Row
  <2>3. Row(r) \in Row0
    BY <2>1, RowTyped
  <2>4. Row(r).status = "done"
    BY <2>1, <2>3 DEF Row0, NoRow
  <2>5. Kind(r) = "execute" => Told(req[r].key, Row(r).answer.attempt, Row(r).answer.status)
    BY <2>1 DEF Truth, ToldOnRecord, Row
  <2>6. Tells(r)'
    <3>1. req'[r].answer = Row(r).answer
      BY <1>3, <2>1
    <3>2. \A a, st : Told(req[r].key, a, st) => ToldNext(req[r].key, a, st)
      BY ToldStays DEF Truth
    <3>3. Kind(r) = "execute" => ToldNext(req[r].key, req'[r].answer.attempt, req'[r].answer.status)
      BY <2>5, <3>1, <3>2
    <3>4. QED
      BY <1>1, <3>3 DEF Tells, Told, ToldNext
  <2>7. QED
    BY <1>1, <1>3, <2>1, <2>2, <2>4, <2>6 DEF WorksOnClaim, Stands
<1>8. CASE (Replay(r) \/ ReplayAgain(r)) /\ req'[r].pc # "answered"
  <2>1. req'[r].pc \in {"read", "refused"}
    BY <1>2, <1>3, <1>8 DEF Replay, ReplayAgain, Refuse
  <2>2. QED
    BY <1>5, <2>1
<1>9. CASE ReadTask(r) \/ NotAllowed(r)
  <2>1. Kind(r) \in {"approve", "execute", "resume", "cancel"}
    BY CommandAssumption
  <2>2. \/ \E p \in {"gate", "claim", "cancel", "resume", "refused"} : req'[r].pc = p
        \/ Kind(r) = "resume" /\ req'[r].pc = "record"
    <3>1. CASE NotAllowed(r)
      BY <1>2, <3>1 DEF NotAllowed, Refuse
    <3>2. CASE ReadTask(r)
      <4>1. \/ \E p \in {"gate", "claim", "cancel", "resume", "refused"} :
                 req' = [req EXCEPT ![r].pc = p, ![r].seen = current]
            \/ Kind(r) = "resume" /\ req' = [req EXCEPT ![r].pc = "record", ![r].seen = current,
                 ![r].answer = [NoAnswer EXCEPT !.state = taskState,
                                  !.version = version, !.attempt = current]]
        <5>1. CASE Kind(r) = "approve"
          BY <3>2, <5>1 DEF ReadTask
        <5>2. CASE Kind(r) = "execute"
          BY <3>2, <5>2 DEF ReadTask
        <5>3. CASE Kind(r) = "cancel"
          BY <3>2, <5>3 DEF ReadTask
        <5>4. CASE Kind(r) = "resume"
          BY <3>2, <5>4 DEF ReadTask
        <5>5. QED
          BY <2>1, <5>1, <5>2, <5>3, <5>4
      <4>2. QED
        BY <4>1 DEF TypeOK, Call
    <3>3. QED
      BY <1>9, <3>1, <3>2
  <2>3. QED
    BY <1>5, <1>6, <2>2
<1>10. CASE RecordGate(r)
  <2>1. req'[r].pc \in {"refused", "list"}
    BY <1>2, <1>10 DEF RecordGate, Refuse
  <2>2. QED
    BY <1>5, <2>1
<1>11. CASE ListGates(r)
  <2>1. req'[r].pc = "transition"
    BY <1>11 DEF ListGates, TypeOK, Call
  <2>2. QED
    BY <1>5, <2>1
<1>12. CASE Transition(r) \/ Resume(r)
  <2>1. Kind(r) # "execute"
    BY <1>12 DEF Transition, Resume, KindsMatch
  <2>2. req'[r].pc \in {"refused", "record"}
    BY <1>2, <1>4, <1>12 DEF Transition, Resume, Refuse
  <2>3. QED
    BY <1>5, <1>6, <2>1, <2>2
<1>13. CASE ClaimExecution(r)
  <2>1. CASE Refuse(r)
    BY <1>2, <1>5, <2>1 DEF Refuse
  <2>2. CASE claims[req[r].key].status # "none" /\ ClaimAgain(r) /\ UNCHANGED claims
    <3>1. req'[r].pc \in {"recover", "pause"} /\ req'[r].seen = claims[req[r].key].attempt
      BY <2>2 DEF ClaimAgain, TypeOK, Call
    <3>2. QED
      BY <1>1, <2>2, <3>1 DEF WorksOnClaim, Tells, Stands
  <2>3. CASE \E a : /\ claims' = [claims EXCEPT ![req[r].key] =
                             [status |-> "done", hash |-> req[r].hash, attempt |-> a]]
                    /\ req' = [req EXCEPT ![r].pc = IF hasDriver THEN "drive" ELSE "pause",
                                          ![r].seen = a]
    <3>1. PICK a : /\ claims' = [claims EXCEPT ![req[r].key] =
                             [status |-> "done", hash |-> req[r].hash, attempt |-> a]]
                   /\ req' = [req EXCEPT ![r].pc = IF hasDriver THEN "drive" ELSE "pause",
                                         ![r].seen = a]
      BY <2>3
    <3>2. req'[r].pc \in {"drive", "pause"} /\ req'[r].seen = a
      BY <3>1 DEF TypeOK, Call
    <3>3. claims'[req[r].key] = [status |-> "done", hash |-> req[r].hash, attempt |-> a]
      BY <3>1 DEF TypeOK
    <3>4. QED
      BY <1>1, <3>2, <3>3 DEF WorksOnClaim, Tells, Stands
  <2>4. QED
    BY <1>13, <2>1, <2>2, <2>3 DEF ClaimExecution
<1> DEFINE Ends(st) ==
      /\ req'[r].pc = "record" /\ req'[r].answer.attempt = req[r].seen /\ req'[r].answer.status = st
      /\ ToldNext(req[r].key, req[r].seen, st)
<1>15. ASSUME NEW st, Ends(st) PROVE WorksOnClaim(r)' /\ Tells(r)' /\ Stands(r)'
  <2>1. Tells(r)'
    BY <1>1, <1>15 DEF Tells, Told, ToldNext
  <2>2. QED
    BY <1>15, <2>1 DEF WorksOnClaim, Stands
<1>16. CASE DriverReturns(r)
  <2>1. CASE Refuse(r)
    BY <1>2, <1>5, <2>1 DEF Refuse
  <2>2. CASE /\ attempt[req[r].seen] \in {"completed", "paused"}
             /\ Then(r, Execution(req[r].seen, attempt[req[r].seen]))
    <3>1. Told(req[r].key, req[r].seen, attempt[req[r].seen])
      BY <1>16, <2>2 DEF DriverReturns, Truth, WorksOnClaim, Told
    <3>2. Ends(attempt[req[r].seen])
      BY <1>4, <1>16, <2>2, <3>1 DEF Execution, DriverReturns, Told, ToldNext, rowVars
    <3>3. QED
      BY <1>15, <3>2
  <2>3. QED
    BY <1>16, <2>1, <2>2 DEF DriverReturns
<1>17. CASE Recover(r)
  <2>1. CASE Refuse(r)
    BY <1>2, <1>5, <2>1 DEF Refuse
  <2>2. CASE Finished(req[r].seen) /\ Then(r, Execution(req[r].seen, taskState))
    <3>1. claims[req[r].key].status # "none" /\ claims[req[r].key].attempt = req[r].seen
      BY <1>17 DEF Recover, Truth, WorksOnClaim
    <3>2. Told(req[r].key, req[r].seen, taskState)
      BY <2>2, <3>1, ClaimTyped DEF Finished, CurrentMatches, Told
    <3>3. Ends(taskState)
      BY <1>4, <1>17, <2>2, <3>2 DEF Execution, Recover, Told, ToldNext, rowVars
    <3>4. QED
      BY <1>15, <3>3
  <2>3. QED
    BY <1>17, <2>1, <2>2 DEF Recover
<1>18. CASE PauseExecution(r)
  <2>1. CASE Refuse(r)
    BY <1>2, <1>5, <2>1 DEF Refuse
  <2>2. CASE /\ current = req[r].seen /\ attempt' = [attempt EXCEPT ![current] = "paused"]
             /\ Then(r, [NewTask(current) EXCEPT !.status = "paused"])
    <3>1. claims[req[r].key].status # "none" /\ claims[req[r].key].attempt = req[r].seen
      BY <1>18 DEF PauseExecution, Truth, WorksOnClaim
    <3>2. attempt'[req[r].seen] = "paused"
      BY <2>2, <3>1, ClaimTyped DEF TypeOK
    <3>3. ToldNext(req[r].key, req[r].seen, "paused")
      BY <1>18, <3>1, <3>2 DEF PauseExecution, ToldNext
    <3>4. Ends("paused")
      BY <1>4, <2>2, <3>3 DEF NewTask
    <3>5. QED
      BY <1>15, <3>4
  <2>3. QED
    BY <1>18, <2>1, <2>2 DEF PauseExecution
<1>19. CASE Cancel(r)
  <2>1. Kind(r) = "cancel"
    BY <1>19 DEF Cancel, KindsMatch
  <2>2. CASE Go(r, "again")
    BY <1>2, <1>5, <2>2
  <2>3. CASE /\ Reply(r, NewTask(current))
             /\ command' = [command EXCEPT !["cancel"][req[r].key] =
                  [status |-> "done", hash |-> req[r].hash, answer |-> NewTask(current)]]
    <3>1. Row(r)' = [status |-> "done", hash |-> req[r].hash, answer |-> NewTask(current)]
      BY <1>1, <2>1, <2>3 DEF Row, TypeOK
    <3>2. QED
      BY <1>1, <1>3, <2>1, <2>3, <3>1 DEF WorksOnClaim, Tells, Stands
  <2>4. QED
    BY <1>19, <2>2, <2>3 DEF Cancel
<1>20. CASE Record(r)
  <2>1. CASE UNCHANGED command /\ (Go(r, "again") \/ Refuse(r))
    BY <1>2, <1>5, <2>1 DEF Refuse
  <2>2. CASE /\ Reply(r, req[r].answer)
             /\ command' = [command EXCEPT ![Kind(r)][req[r].key] =
                  [status |-> "done", hash |-> req[r].hash, answer |-> req[r].answer]]
    <3>1. Row(r)' = [status |-> "done", hash |-> req[r].hash, answer |-> req[r].answer]
      BY <1>1, <2>2 DEF Row, TypeOK
    <3>2. Kind(r) = "execute" => Told(req[r].key, req[r].answer.attempt, req[r].answer.status)
      BY <1>20 DEF Record, Truth, Tells
    <3>3. Kind(r) = "execute" => ToldNext(req[r].key, req[r].answer.attempt, req[r].answer.status)
      BY <1>20, <3>2 DEF Record, Told, ToldNext, rowVars
    <3>4. req'[r].pc = "answered" /\ req'[r].answer = req[r].answer
      BY <1>3, <2>2
    <3>5. Tells(r)'
      BY <1>1, <3>3, <3>4 DEF Tells, Told, ToldNext
    <3>6. QED
      BY <1>1, <3>1, <3>4, <3>5 DEF WorksOnClaim, Stands
  <2>3. QED
    BY <1>20, <2>1, <2>2 DEF Record
<1>21. QED
  BY <1>7, <1>8, <1>9, <1>10, <1>11, <1>12, <1>13, <1>16, <1>17, <1>18, <1>19, <1>20 DEF Serve

\* A record that a step adds for an execution tells its truth.
LEMMA NextOnRecord ==
    ASSUME TypeOK, KindsMatch, Numbered, Truth, [Next]_vars, NEW k \in Keys
    PROVE  ToldOnRecord(k)'
<1> SUFFICES ASSUME "execute" \in Kinds, command'["execute"][k].status # "none"
             PROVE  ToldNext(k, command'["execute"][k].answer.attempt, command'["execute"][k].answer.status)
  BY DEF ToldOnRecord, Told, ToldNext
<1>1. CASE command'["execute"][k] = command["execute"][k]
  <2>1. Told(k, command["execute"][k].answer.attempt, command["execute"][k].answer.status)
    BY <1>1 DEF Truth, ToldOnRecord
  <2>2. \A a, st : Told(k, a, st) => ToldNext(k, a, st)
    BY ToldStays DEF Truth
  <2>3. QED
    BY <1>1, <2>1, <2>2
<1>2. ASSUME NEW r \in Requests, Serve(r), command'["execute"][k] # command["execute"][k]
      PROVE  ToldNext(k, command'["execute"][k].answer.attempt, command'["execute"][k].answer.status)
  <2> req[r] \in Call
    BY <1>2, ServesCalls, CallOf
  <2>1. Record(r)
    <3>1. UNCHANGED command \/ Record(r) \/ (Cancel(r) /\ command' # command)
      BY <1>2 DEF Serve, Replay, ReadTask, NotAllowed, RecordGate, ListGates, Transition, ClaimExecution,
           DriverReturns, Recover, PauseExecution, Resume, ReplayAgain
    <3>2. ASSUME Cancel(r), command' # command PROVE command'["execute"] = command["execute"]
      BY <3>2 DEF Cancel, TypeOK
    <3>3. QED
      BY <1>2, <3>1, <3>2
  <2>2. Kind(r) \in Kinds
    BY ApprovalTyped
  <2>3. command' = [command EXCEPT ![Kind(r)][req[r].key] =
                     [status |-> "done", hash |-> req[r].hash, answer |-> req[r].answer]]
    BY <1>2, <2>1 DEF Record
  <2>4. Kind(r) = "execute" /\ k = req[r].key
    BY <1>2, <2>2, <2>3 DEF TypeOK
  <2>5. command'["execute"][k] = [status |-> "done", hash |-> req[r].hash, answer |-> req[r].answer]
    BY <2>3, <2>4 DEF TypeOK
  <2>6. Told(k, req[r].answer.attempt, req[r].answer.status)
    BY <2>1, <2>4 DEF Record, Truth, Tells
  <2>7. ToldNext(k, req[r].answer.attempt, req[r].answer.status)
    BY <2>6, ToldStays DEF Truth
  <2>8. QED
    BY <2>5, <2>7
<1>3. QED
  BY <1>1, <1>2, NextSplits DEF vars, Crash, Confirm, Revise, EngineEnds

\* What is true of a call that does not move stays true.
LEMMA OthersTell ==
    ASSUME TypeOK, KindsMatch, Numbered, Truth, [Next]_vars, NEW r \in Requests, req'[r] = req[r]
    PROVE  WorksOnClaim(r)' /\ Tells(r)' /\ Stands(r)'
<1>1. CASE req[r].pc \notin {"drive", "recover", "pause", "record", "answered"}
  BY <1>1 DEF WorksOnClaim, Tells, Stands
<1>2. CASE req[r].pc \in {"drive", "recover", "pause", "record", "answered"}
  <2>1. req[r] \in Call
    BY <1>2, CallOf
  <2>2. req[r].key \in Keys /\ Kind(r) \in Kinds /\ Kind(r)' = Kind(r)
    BY <2>1, ApprovalTyped DEF Call, Kind
  <2>3. WorksOnClaim(r)'
    <3>1. WorksOnClaim(r)
      BY DEF Truth
    <3>2. QED
      BY <2>2, <3>1, RecordsStay DEF WorksOnClaim
  <2>4. Tells(r)'
    <3>1. \A a, st : Told(req[r].key, a, st) => ToldNext(req[r].key, a, st)
      BY <2>2, ToldStays DEF Truth
    <3>2. Tells(r)
      BY DEF Truth
    <3>3. QED
      BY <2>2, <3>1, <3>2 DEF Tells, Told, ToldNext
  <2>5. Stands(r)'
    <3>1. CASE req[r].pc = "answered"
      <4>1. Row(r).status = "done" /\ Row(r).hash = req[r].hash /\ Row(r).answer = req[r].answer
        BY <3>1 DEF Truth, Stands
      <4>2. Row(r)' = Row(r)
        BY <2>2, <4>1, RecordsStay DEF Row
      <4>3. QED
        BY <4>1, <4>2 DEF Stands
    <3>2. CASE req[r].pc # "answered"
      BY <3>2 DEF Stands
    <3>3. QED
      BY <3>1, <3>2
  <2>6. QED
    BY <2>3, <2>4, <2>5
<1>3. QED
  BY <1>1, <1>2

\* Whatever the step is, the answers stand and are true after it.
LEMMA NextTruth ==
    ASSUME TypeOK, KindsMatch, Decided, Numbered, Truth, [Next]_vars
    PROVE  Truth'
<1>1. CurrentMatches'
  BY NextMatches DEF Truth
<1>2. \A k \in Keys : ToldOnRecord(k)'
  BY NextOnRecord
<1>3. ASSUME NEW r \in Requests PROVE WorksOnClaim(r)' /\ Tells(r)' /\ Stands(r)'
  <2>1. CASE req'[r] = req[r]
    BY <2>1, OthersTell
  <2>2. CASE Serve(r)
    BY <2>2, ServeTells
  <2>3. CASE req'[r].pc \in {"replay", "crashed"}
    BY <2>3 DEF WorksOnClaim, Tells, Stands
  <2>4. ASSUME NEW s \in Requests, Serve(s), s # r PROVE req'[r] = req[r]
    BY <2>4, ServeMoves DEF Moves, TypeOK
  <2>5. ASSUME NEW s \in Requests, Sends(s) PROVE req'[r] = req[r] \/ req'[r].pc = "replay"
    BY <2>5 DEF Sends, TypeOK
  <2>6. ASSUME NEW s \in Requests, Crash(s) PROVE req'[r] = req[r] \/ req'[r].pc = "crashed"
    <3>1. req[s] \in Call
      BY <2>6, CallOf DEF Crash, InFlight
    <3>2. QED
      BY <2>6, <3>1 DEF Crash, Go, Call, TypeOK
  <2>7. UNCHANGED req \/ \E s \in Requests : Sends(s) \/ Serve(s) \/ Crash(s)
    BY NextSplits DEF vars, Confirm, Revise, EngineEnds
  <2>8. QED
    BY <2>1, <2>2, <2>3, <2>4, <2>5, <2>6, <2>7
<1>4. QED
  BY <1>1, <1>2, <1>3 DEF Truth

-----------------------------------------------------------------------------
(* The theorems.                                                           *)

\* Everything that the steps preserve together.
IInv == Inv /\ Numbered /\ DrivenIsClaimed /\ OneDriver /\ AdvancedOnce /\ Truth

\* At the start no call has been sent and the plan waits for a confirmation.
LEMMA InitInv == Init => IInv
<1> SUFFICES ASSUME Init PROVE IInv
  OBVIOUS
<1>1. TypeOK /\ KindsMatch
  BY InitType, InitKinds
<1>2. Sighted /\ Decided /\ DrivenIsClaimed /\ OneDriver
  BY DEF Init, NoRequest, Sighted, Decided, DrivenIsClaimed, OneDriver
<1>3. PlanApproved
  BY DEF Init, PlanApproved, Runs
<1>4. Numbered
  <2>1. 0 \in 0 .. MaxAttempts /\ \A a \in Attempts \ {0} : ~(a <= 0) /\ attempt[a] = "none"
    BY CommandAssumption DEF Init, Attempts
  <2>2. QED
    BY <2>1 DEF Init, Numbered
<1>5. AdvancedOnce
  <2>1. (\A r \in Requests : ~Holds(r)) /\ (\A k \in Keys : ~OnRecord(k))
    BY DEF Init, NoRequest, NoRow, Holds, OnRecord
  <2>2. QED
    BY <2>1 DEF AdvancedOnce, Made
<1>6. Truth
  BY DEF Init, NoRequest, NoRow, Truth, CurrentMatches, ToldOnRecord, WorksOnClaim, Tells, Stands
<1>7. QED
  BY <1>1, <1>2, <1>3, <1>4, <1>5, <1>6 DEF Inv, IInv

\* Each step keeps all of it.
LEMMA NextInv == IInv /\ [Next]_vars => IInv'
<1> SUFFICES ASSUME IInv, [Next]_vars PROVE IInv'
  OBVIOUS
<1>1. PlanApproved'
  BY NextApproved DEF IInv
<1>2. TypeOK' /\ KindsMatch' /\ Sighted' /\ Decided'
  BY NextType, NextKinds, NextSighted, NextDecided DEF IInv, Inv
<1>3. Numbered' /\ DrivenIsClaimed' /\ OneDriver'
  BY NextDriver DEF IInv, Inv
<1>4. AdvancedOnce'
  BY NextAdvanced DEF IInv, Inv
<1>5. Truth'
  BY NextTruth DEF IInv, Inv
<1>6. QED
  BY <1>1, <1>2, <1>3, <1>4, <1>5 DEF IInv, Inv

\* So all of it always holds.
LEMMA SpecInv == Spec => []IInv
BY InitInv, NextInv, PTL DEF Spec

\* Every row, record and answer of the commands has its type, whichever calls
\* are made and however they interleave.
THEOREM CommandsTypeCorrect == Spec => []TypeOK
<1>1. IInv => TypeOK
  BY DEF IInv, Inv
<1>2. QED
  BY <1>1, SpecInv, PTL

\* Whatever runs was approved, on that very plan, by each required authority.
THEOREM ReadyIsApprovedAlways == Spec => []ReadyIsApproved
<1>1. IInv => ReadyIsApproved
  BY DEF IInv, Inv, PlanApproved, Approved, ReadyIsApproved, Runs
<1>2. QED
  BY <1>1, SpecInv, PTL

\* No attempt is driven for two requests, however often execute is repeated.
THEOREM OneDriverAlways == Spec => []OneDriver
<1>1. IInv => OneDriver
  BY DEF IInv
<1>2. QED
  BY <1>1, SpecInv, PTL

\* No two approvals with different keys made the same version of the task.
THEOREM ApprovalsAdvanceOnceAlways == Spec => []ApprovalsAdvanceOnce
<1>1. IInv => ApprovalsAdvanceOnce
  <2> SUFFICES ASSUME IInv, NEW r \in Requests, req[r].pc = "answered", Kind(r) = "approve"
               PROVE  /\ req[r].answer.version = req[r].hash.version + 1
                      /\ \A s \in Requests :
                           /\ req[s].pc = "answered" /\ Kind(s) = "approve"
                           /\ req[s].answer.version = req[r].answer.version
                           => req[s].key = req[r].key
    BY DEF ApprovalsAdvanceOnce
  <2>1. Holds(r) /\ Made(req[r].key, req[r].answer.version)
    BY DEF Holds, Made
  <2>2. \A s \in Requests : req[s].pc = "answered" /\ Kind(s) = "approve" =>
          Made(req[s].key, req[s].answer.version)
    BY DEF Holds, Made
  <2>3. QED
    BY <2>1, <2>2 DEF IInv, AdvancedOnce
<1>2. QED
  BY <1>1, SpecInv, PTL

\* An answered call is on record for every later call with its key, and the
\* status of an execution is the outcome of the attempt that it names.
THEOREM AnswersStandAndAreTrueAlways == Spec => []AnswersStandAndAreTrue
<1>1. IInv => AnswersStandAndAreTrue
  BY DEF IInv, Truth, Stands, Tells, Told, AnswersStandAndAreTrue
<1>2. QED
  BY <1>1, SpecInv, PTL

=============================================================================
