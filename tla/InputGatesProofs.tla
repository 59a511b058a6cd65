-------------------------- MODULE InputGatesProofs --------------------------
(***************************************************************************)
(* What holds of the uploads and confirmations of a task for any requests, *)
(* keys, contents and versions.                                            *)
(***************************************************************************)
EXTENDS InputGates, FiniteSetTheorems, TLAPS

\* A task that waits may be confirmed once more, and each plan had a version.
Counted ==
    /\ taskState = "awaiting_confirmation" => version <= MaxVersion
    /\ activePlan <= version + 1

\* A request was sent for one plan, a confirmation with the upload it names.
Sent ==
    \A r \in Requests :
        IF req[r].pc = "idle" THEN ~req[r].bound
        ELSE /\ req[r].hash \in Hashes /\ req[r].hash.plan = req[r].plan
             /\ req[r].key \in IF r \in Uploads THEN UploadKeys ELSE ConfirmKeys
             /\ r \in Confirms => req[r].hash.input \in Evidence

\* The completed confirmations: each holds the gate of its plan.
DoneOf(k) == k \in ConfirmKeys /\ command[k].status = "completed"

ConfirmedHolds ==
    /\ \A k \in ConfirmKeys : DoneOf(k) =>
         /\ command[k].hash \in Hashes /\ command[k].hash.input \in Evidence
         /\ gate[command[k].hash.plan] = command[k].hash.input
    /\ \A k, l \in ConfirmKeys : DoneOf(k) /\ DoneOf(l)
         /\ command[k].hash.plan = command[l].hash.plan => k = l
    /\ taskState = "confirmed" => \E k \in ConfirmKeys : DoneOf(k) /\ command[k].hash.plan = activePlan

\* What a gate records has been uploaded, for the gate's plan.
GateHolds ==
    /\ \A u \in Uploads :
         /\ req[u].pc \notin {"replay", "read", "prepare", "list"}
         /\ req[u].pc \in {"idle", "reserve", "wait", "work"} => evidence[u] = "none"
    /\ \A p \in Plans : gate[p] # NoOne => evidence[gate[p]] # "none" /\ boundTo[gate[p]] = p

\* What a confirmation answers is in force.
YesHolds ==
    \A r \in Confirms :
        /\ req[r].pc \in {"answered", "list"} => gate[req[r].plan] = Evid(r)
        /\ req[r].pc \notin {"answered", "list", "crashed"} => req[r].answer = NoOne

\* A confirmation has bound u.
Taken(u) == \E r \in Confirms : req[r].bound /\ Evid(r) = u

\* A completed upload is not taken back by its own request.
UploadHolds ==
    /\ \A k \in UploadKeys : command[k].status = "completed" => \E u \in Uploads :
         /\ u = command[k].answer /\ req[u].key = k /\ req[u].hash = command[k].hash
         /\ req[u].pc \in {"release", "lookup", "answered", "refused", "crashed"}
         /\ evidence[u] = "sealed" \/ Taken(u)
    /\ \A u \in Uploads : req[u].pc = "complete" => evidence[u] = "sealed" \/ Taken(u)

Inv == TypeOK /\ Counted /\ Sent /\ ConfirmedHolds /\ GateHolds /\ YesHolds /\ UploadHolds

-----------------------------------------------------------------------------
(* What a step does to the request that takes it.                          *)

\* r goes to a step, perhaps with an answer; it stays the request that it is.
Moves(r) ==
    \E p \in InFlight \cup Over, b \in BOOLEAN, a \in Replies :
        /\ req' = [req EXCEPT ![r].pc = p, ![r].bound = b, ![r].answer = a]
        /\ req[r].bound => b
        /\ r \in Confirms => b = req[r].bound

\* Going on, to any step.
LEMMA GoMoves ==
    ASSUME TypeOK, NEW r \in Requests, NEW p \in InFlight \cup Over, Go(r, p)
    PROVE  Moves(r)
<1>1. req[r] \in Call
  BY DEF TypeOK
<1>2. req[r].bound \in BOOLEAN /\ req[r].answer \in Replies
  BY <1>1 DEF Call
<1>3. [req EXCEPT ![r].pc = p] = [req EXCEPT ![r].pc = p, ![r].bound = req[r].bound, ![r].answer = req[r].answer]
  BY <1>1 DEF TypeOK, Call
<1>4. QED
  BY <1>2, <1>3 DEF Go, Moves

\* Answering.
LEMMA AnswerMoves ==
    ASSUME TypeOK, NEW r \in Requests, NEW p \in InFlight \cup Over, NEW a \in Replies,
           req' = [req EXCEPT ![r].pc = p, ![r].answer = a]
    PROVE  Moves(r)
<1>1. req[r] \in Call
  BY DEF TypeOK
<1>2. req[r].bound \in BOOLEAN
  BY <1>1 DEF Call
<1>3. req' = [req EXCEPT ![r].pc = p, ![r].bound = req[r].bound, ![r].answer = a]
  BY <1>1 DEF TypeOK, Call
<1>4. QED
  BY <1>2, <1>3 DEF Moves

\* The rows of requests are typed.
LEMMA RowTyped ==
    ASSUME TypeOK, Sent, NEW r \in Requests, req[r].pc # "idle"
    PROVE  /\ req[r] \in Call /\ req[r].key \in Keys /\ OwnCommand(r) \in Row0
           /\ OwnCommand(r).answer \in Replies
           /\ OwnCommand(r).status \in {"none", "pending", "completed"}
           /\ req[r].plan \in Plans /\ Evid(r) \in (IF r \in Confirms THEN Evidence ELSE Uploads)
           /\ AnswerOf(r) \in Replies
<1>1. req[r] \in Call /\ req[r].key \in Keys
  BY DEF TypeOK, Sent, Keys
<1>2. OwnCommand(r) \in Row0
  BY <1>1 DEF TypeOK, OwnCommand
<1>3. req[r].plan \in Plans /\ req[r].hash \in Hashes
  BY <1>1 DEF Call, Sent
<1>4. Evid(r) \in (IF r \in Confirms THEN Evidence ELSE Uploads)
  BY InputAssumption DEF Sent, Evid, Requests
<1>5. AnswerOf(r) \in Replies
  BY <1>3 DEF AnswerOf, Replies, Evidence
<1>6. QED
  BY <1>1, <1>2, <1>3, <1>4, <1>5 DEF Row0

\* So does every step of a request that has been sent.
LEMMA StepMoves ==
    ASSUME TypeOK, Sent, NEW r \in Requests, Step(r) \/ Crash(r)
    PROVE  Moves(r) /\ req[r].pc # "idle"
<1> USE DEF Answer
<1>0. {"read", "prepare", "reserve", "wait", "work", "complete", "release", "lookup", "list",
       "invalidate", "answered", "refused", "crashed"} \subseteq InFlight \cup Over
  BY DEF InFlight, Over
<1>1. CASE Replay(r) \/ ReadTask(r) \/ PrepareBinding(r)
  <2>1. req[r].pc # "idle"
    BY <1>1 DEF Replay, ReadTask, PrepareBinding
  <2>2. OwnCommand(r).answer \in Replies /\ OwnCommand(r).status \in {"none", "pending", "completed"}
    BY <2>1, RowTyped
  <2>3. \/ \E p \in {"read", "prepare", "reserve", "refused"} : Go(r, p)
        \/ Answer(r, OwnCommand(r).answer)
    BY <1>1, <2>2 DEF Replay, ReadTask, PrepareBinding
  <2>4. QED
    BY <1>0, <2>1, <2>2, <2>3, GoMoves, AnswerMoves
<1>2. CASE Reserve(r) \/ WaitForCommand(r)
  <2>1. req[r].pc # "idle"
    BY <1>2 DEF Reserve, WaitForCommand
  <2>2. OwnCommand(r).answer \in Replies
    BY <2>1, RowTyped
  <2>3. \/ \E p \in {"reserve", "refused", "wait", "work"} : Go(r, p)
        \/ Answer(r, OwnCommand(r).answer)
    BY <1>2 DEF Reserve, WaitForCommand, ReserveOutcome
  <2>4. QED
    BY <1>0, <2>1, <2>2, <2>3, GoMoves, AnswerMoves
<1>3. CASE UploadFile(r)
  <2>1. req[r].pc # "idle" /\ r \notin Confirms
    BY <1>3, InputAssumption DEF UploadFile
  <2>2. CASE Go(r, "release")
    BY <1>0, <2>1, <2>2, GoMoves
  <2>3. CASE req' = [req EXCEPT ![r].pc = "complete", ![r].bound = TRUE]
    <3>1. req[r] \in Call
      BY DEF TypeOK
    <3>2. req' = [req EXCEPT ![r].pc = "complete", ![r].bound = TRUE, ![r].answer = req[r].answer]
      BY <2>3, <3>1 DEF TypeOK, Call
    <3>3. QED
      BY <1>0, <2>1, <3>1, <3>2 DEF Moves, Call
  <2>4. QED
    BY <1>3, <2>1, <2>2, <2>3 DEF UploadFile
<1>4. CASE BuildGates(r) \/ CompleteFails(r) \/ Release(r) \/ ListGateRecords(r) \/ Invalidate(r) \/ Crash(r)
  <2>1. req[r].pc # "idle"
    BY <1>4 DEF BuildGates, CompleteFails, Release, ListGateRecords, Invalidate, Crash, InFlight
  <2>2. \E p \in {"complete", "release", "lookup", "invalidate", "answered", "refused", "crashed"} : Go(r, p)
    BY <1>4 DEF BuildGates, CompleteFails, Release, ListGateRecords, Invalidate, Crash
  <2>3. QED
    BY <1>0, <2>1, <2>2, GoMoves
<1>5. CASE \E told \in BOOLEAN : Complete(r, told)
  <2>1. req[r].pc # "idle"
    BY <1>5 DEF Complete
  <2>2. Answer(r, AnswerOf(r)) \/ Go(r, "release")
    BY <1>5 DEF Complete
  <2>3. QED
    BY <1>0, <2>1, <2>2, GoMoves, AnswerMoves, RowTyped
<1>6. CASE Lookup(r)
  <2>1. req[r].pc # "idle"
    BY <1>6 DEF Lookup
  <2>2. \/ Go(r, "invalidate") \/ Answer(r, OwnCommand(r).answer)
        \/ req' = [req EXCEPT ![r].pc = "list", ![r].answer = OwnCommand(r).answer]
    BY <1>6 DEF Lookup
  <2>3. QED
    BY <1>0, <2>1, <2>2, GoMoves, AnswerMoves, RowTyped
<1>7. QED
  BY <1>1, <1>2, <1>3, <1>4, <1>5, <1>6 DEF Step

\* So the others keep their records, and r its key, hash, version and plan.
LEMMA MovesKeep ==
    ASSUME TypeOK, NEW r \in Requests, Moves(r)
    PROVE  /\ req' \in [Requests -> Call]
           /\ \A s \in Requests \ {r} : req'[s] = req[s]
           /\ req'[r].key = req[r].key /\ req'[r].hash = req[r].hash
           /\ req'[r].version = req[r].version /\ req'[r].plan = req[r].plan
           /\ req[r].bound => req'[r].bound
           /\ r \in Confirms => req'[r].bound = req[r].bound
           /\ req'[r].pc # "idle"
<1>1. PICK p \in InFlight \cup Over, b \in BOOLEAN, a \in Replies :
        /\ req' = [req EXCEPT ![r].pc = p, ![r].bound = b, ![r].answer = a]
        /\ req[r].bound => b
        /\ r \in Confirms => b = req[r].bound
  BY DEF Moves
<1>2. req[r] \in Call
  BY DEF TypeOK
<1> DEFINE f == [req[r] EXCEPT !.pc = p, !.bound = b, !.answer = a]
<1>3. req' = [req EXCEPT ![r] = f]
  BY <1>1 DEF TypeOK
<1>4. f \in Call /\ f.key = req[r].key /\ f.hash = req[r].hash /\ f.version = req[r].version
      /\ f.plan = req[r].plan /\ f.bound = b /\ f.pc = p
  BY <1>2 DEF Call
<1>5. p # "idle"
  BY DEF InFlight, Over
<1>6. QED
  BY <1>1, <1>3, <1>4, <1>5 DEF TypeOK

\* A request is sent.
Starts(r) ==
    /\ req[r].pc = "idle" /\ UNCHANGED <<rowVars, command, gate, evidence, boundTo>>
    /\ \E f \in Call :
         /\ req' = [req EXCEPT ![r] = f] /\ f.answer = NoOne /\ f.hash \in Hashes /\ f.hash.plan = f.plan
         /\ \/ r \in Uploads /\ f.pc = "reserve" /\ f.key \in UploadKeys
            \/ r \in Confirms /\ f.pc = "replay" /\ f.key \in ConfirmKeys /\ f.hash.input \in Evidence

\* What a new request holds.
LEMMA StartStarts ==
    ASSUME TypeOK, NEW r \in Requests, Start(r)
    PROVE  Starts(r)
<1>0. 0 \in Versions /\ 1 \in Plans
  BY InputAssumption DEF Versions, Plans
<1>a. NoRequest \in Call
  BY <1>0 DEF NoRequest, Call, Replies
<1>1. ASSUME NEW k \in UploadKeys, NEW f \in Files, r \in Uploads, StartUpload(r, k, f) PROVE Starts(r)
  <2> DEFINE h == [input |-> f, version |-> 0, plan |-> activePlan]
             c == [NoRequest EXCEPT !.pc = "reserve", !.key = k, !.hash = h,
                     !.version = version, !.plan = activePlan]
  <2>1. h \in Hashes
    BY <1>0 DEF Hashes, TypeOK
  <2>2. c.answer = NoOne /\ c.pc = "reserve" /\ c.key = k /\ c.hash = h /\ c.plan = activePlan
    BY DEF NoRequest
  <2>3. c \in Call
    BY <1>a, <2>1 DEF Call, InFlight, Keys, TypeOK
  <2>4. req' = [req EXCEPT ![r] = c]
    BY <1>1 DEF StartUpload
  <2>5. h.plan = activePlan /\ h.input = f
    OBVIOUS
  <2>6. req[r].pc = "idle" /\ UNCHANGED <<rowVars, command, gate, evidence, boundTo>>
    BY <1>1 DEF StartUpload
  <2> HIDE DEF c, h
  <2>7. QED
    BY <1>1, <2>1, <2>2, <2>3, <2>4, <2>5, <2>6 DEF Starts
<1>2. ASSUME NEW k \in ConfirmKeys, NEW e \in Evidence, r \in Confirms, StartConfirm(r, k, e) PROVE Starts(r)
  <2> DEFINE h == [input |-> e, version |-> version, plan |-> activePlan]
             c == [NoRequest EXCEPT !.pc = "replay", !.key = k, !.hash = h,
                     !.version = version, !.plan = activePlan, !.bound = TRUE]
  <2>1. h \in Hashes
    BY DEF Hashes, TypeOK
  <2>2. c.answer = NoOne /\ c.pc = "replay" /\ c.key = k /\ c.hash = h /\ c.plan = activePlan
    BY DEF NoRequest
  <2>3. c \in Call
    BY <1>a, <2>1 DEF Call, InFlight, Keys, TypeOK
  <2>4. req' = [req EXCEPT ![r] = c]
    BY <1>2 DEF StartConfirm
  <2>5. h.plan = activePlan /\ h.input = e
    OBVIOUS
  <2>6. req[r].pc = "idle" /\ UNCHANGED <<rowVars, command, gate, evidence, boundTo>>
    BY <1>2 DEF StartConfirm
  <2> HIDE DEF c, h
  <2>7. QED
    BY <1>2, <2>1, <2>2, <2>3, <2>4, <2>5, <2>6 DEF Starts
<1>3. QED
  BY <1>1, <1>2 DEF Start

\* What a new request is, in the state after.
LEMMA StartsKeep ==
    ASSUME TypeOK, NEW r \in Requests, Starts(r)
    PROVE  /\ req' \in [Requests -> Call]
           /\ \A s \in Requests \ {r} : req'[s] = req[s]
           /\ req'[r].answer = NoOne /\ req'[r].hash \in Hashes /\ req'[r].hash.plan = req'[r].plan
           /\ \/ r \in Uploads /\ req'[r].pc = "reserve" /\ req'[r].key \in UploadKeys
              \/ /\ r \in Confirms /\ req'[r].pc = "replay" /\ req'[r].key \in ConfirmKeys
                 /\ req'[r].hash.input \in Evidence
<1>1. PICK f \in Call :
         /\ req' = [req EXCEPT ![r] = f] /\ f.answer = NoOne /\ f.hash \in Hashes /\ f.hash.plan = f.plan
         /\ \/ r \in Uploads /\ f.pc = "reserve" /\ f.key \in UploadKeys
            \/ r \in Confirms /\ f.pc = "replay" /\ f.key \in ConfirmKeys /\ f.hash.input \in Evidence
  BY DEF Starts
<1>2. req'[r] = f
  BY <1>1 DEF TypeOK
<1>3. QED
  BY <1>1, <1>2 DEF TypeOK

\* The steps of the system by who takes them.
LEMMA NextSplits ==
    ASSUME TypeOK, [Next]_vars
    PROVE  \/ \E r \in Requests : Starts(r) \/ Step(r) \/ Crash(r)
           \/ \E k \in Keys : ExpireReservation(k)
           \/ Revise \/ UNCHANGED vars
BY StartStarts DEF Next

-----------------------------------------------------------------------------
(* Types, versions and what requests were sent for.                        *)

\* The task row.
LEMMA NextRow ==
    ASSUME TypeOK, Counted, [Next]_vars
    PROVE  /\ taskState' \in {"awaiting_confirmation", "confirmed"} /\ Counted'
           /\ version' \in Versions /\ activePlan' \in Plans
<1> version \in Nat /\ activePlan \in Nat /\ MaxVersion \in Nat /\ version <= MaxVersion + 1 /\ activePlan >= 1
  BY InputAssumption DEF TypeOK, Versions, Plans
<1>1. CASE UNCHANGED rowVars
  BY <1>1 DEF rowVars, TypeOK, Counted
<1>2. CASE Revise
  BY <1>2 DEF Revise, Counted, Versions, Plans
<1>3. ASSUME NEW r \in Requests, NEW told \in BOOLEAN, Complete(r, told), taskState' # taskState
      PROVE  /\ taskState' = "confirmed" /\ version' = version + 1 /\ activePlan' = activePlan
             /\ taskState = "awaiting_confirmation"
  BY <1>3 DEF Complete, MayComplete, TaskFence, rowVars
<1>4. ASSUME NEW r \in Requests, NEW told \in BOOLEAN, Complete(r, told), taskState' = taskState
      PROVE  UNCHANGED rowVars
  BY <1>4 DEF Complete, MayComplete, TaskFence, rowVars
<1>5. CASE taskState' = "confirmed" /\ version' = version + 1 /\ activePlan' = activePlan
           /\ taskState = "awaiting_confirmation"
  BY <1>5 DEF Counted, Versions, TypeOK
<1>6. ASSUME NEW r \in Requests, Step(r) \/ Crash(r) \/ Starts(r)
      PROVE  UNCHANGED rowVars \/ \E told \in BOOLEAN : Complete(r, told)
  BY <1>6 DEF Step, Replay, ReadTask, PrepareBinding, Reserve, WaitForCommand, UploadFile, BuildGates,
       CompleteFails, Release, Lookup, ListGateRecords, Invalidate, Crash, Starts
<1>7. QED
  BY <1>1, <1>2, <1>3, <1>4, <1>5, <1>6, NextSplits DEF ExpireReservation, vars

\* The rows of the commands.
LEMMA NextCommands ==
    ASSUME TypeOK, Sent, [Next]_vars
    PROVE  command' \in [Keys -> Row0]
<1>0. NoCommand \in Row0
  BY DEF NoCommand, Row0, Replies
<1>1. CASE UNCHANGED command
  BY <1>1 DEF TypeOK
<1>2. ASSUME NEW r \in Requests, Reserve(r) PROVE command' \in [Keys -> Row0]
  <2>1. req[r].hash \in Hashes
    BY <1>2 DEF Reserve, Sent
  <2>2. [status |-> "pending", hash |-> req[r].hash, token |-> r, live |-> TRUE, answer |-> NoOne] \in Row0
    BY <2>1 DEF Row0, Replies
  <2>3. UNCHANGED command \/ command' = [k \in Keys |->
                   IF k = req[r].key
                   THEN [status |-> "pending", hash |-> req[r].hash, token |-> r,
                         live |-> TRUE, answer |-> NoOne]
                   ELSE IF Blocks(r, k) /\ ~command[k].live THEN NoCommand ELSE command[k]]
    BY <1>2 DEF Reserve, ReserveOutcome
  <2>4. QED
    BY <1>0, <2>2, <2>3 DEF TypeOK
<1>3. ASSUME NEW r \in Requests, NEW told \in BOOLEAN, Complete(r, told) PROVE command' \in [Keys -> Row0]
  <2>1. OwnCommand(r) \in Row0 /\ AnswerOf(r) \in Replies
    BY <1>3, RowTyped DEF Complete
  <2>2. [OwnCommand(r) EXCEPT !.status = "completed", !.token = NoOne, !.live = FALSE,
                   !.answer = AnswerOf(r)] \in Row0
    BY <2>1 DEF Row0
  <2>3. QED
    BY <1>3, <2>2 DEF Complete, OwnCommand, TypeOK
<1>4. ASSUME NEW k \in Keys, ExpireReservation(k) PROVE command' \in [Keys -> Row0]
  <2>1. command[k] \in Row0
    BY DEF TypeOK
  <2>2. [command[k] EXCEPT !.live = FALSE] \in Row0
    BY <2>1 DEF Row0
  <2>3. command' = [command EXCEPT ![k] = [command[k] EXCEPT !.live = FALSE]]
    BY <1>4 DEF ExpireReservation, TypeOK
  <2>4. QED
    BY <2>2, <2>3 DEF TypeOK
<1>5. ASSUME NEW r \in Requests, Release(r) PROVE command' \in [Keys -> Row0]
  BY <1>0, <1>5 DEF Release, TypeOK
<1>6. ASSUME NEW r \in Requests, Step(r) \/ Crash(r) \/ Starts(r)
      PROVE  UNCHANGED command \/ Reserve(r) \/ Release(r) \/ \E told \in BOOLEAN : Complete(r, told)
  BY <1>6 DEF Step, Replay, ReadTask, PrepareBinding, WaitForCommand, UploadFile, BuildGates,
       CompleteFails, Lookup, ListGateRecords, Invalidate, Crash, Starts
<1>7. QED
  BY <1>1, <1>2, <1>3, <1>4, <1>5, <1>6, NextSplits DEF Revise, vars

\* The gates, the Artifacts and the plans they were uploaded for.
LEMMA NextEvidence ==
    ASSUME TypeOK, Sent, [Next]_vars
    PROVE  /\ gate' \in [Plans -> Evidence \cup {NoOne}]
           /\ evidence' \in [Evidence -> {"none", "sealed", "failed"}]
           /\ boundTo' \in [Evidence -> Plans]
<1>1. CASE UNCHANGED <<gate, evidence, boundTo>>
  BY <1>1 DEF TypeOK
<1>2. ASSUME NEW r \in Requests, UploadFile(r) \/ Invalidate(r)
      PROVE  /\ gate' \in [Plans -> Evidence \cup {NoOne}]
             /\ evidence' \in [Evidence -> {"none", "sealed", "failed"}]
             /\ boundTo' \in [Evidence -> Plans]
  <2>1. req[r].plan \in Plans
    BY <1>2, RowTyped DEF UploadFile, Invalidate
  <2>2. QED
    BY <1>2, <2>1 DEF UploadFile, Invalidate, TypeOK
<1>3. ASSUME NEW r \in Requests, NEW told \in BOOLEAN, Complete(r, told)
      PROVE  /\ gate' \in [Plans -> Evidence \cup {NoOne}]
             /\ evidence' \in [Evidence -> {"none", "sealed", "failed"}]
             /\ boundTo' \in [Evidence -> Plans]
  <2>1. Evid(r) \in Evidence
    BY <1>3, RowTyped DEF Complete, Evidence
  <2>2. QED
    BY <1>3, <2>1 DEF Complete, TypeOK
<1>4. ASSUME NEW r \in Requests, Step(r) \/ Crash(r) \/ Starts(r)
      PROVE  \/ UNCHANGED <<gate, evidence, boundTo>> \/ UploadFile(r) \/ Invalidate(r)
             \/ \E told \in BOOLEAN : Complete(r, told)
  BY <1>4 DEF Step, Replay, ReadTask, PrepareBinding, Reserve, WaitForCommand, BuildGates,
       CompleteFails, Release, Lookup, ListGateRecords, Crash, Starts
<1>5. QED
  BY <1>1, <1>2, <1>3, <1>4, NextSplits DEF Revise, ExpireReservation, vars

\* The requests.
LEMMA NextSent ==
    ASSUME TypeOK, Sent, [Next]_vars
    PROVE  req' \in [Requests -> Call] /\ Sent'
<1>1. CASE UNCHANGED req
  BY <1>1 DEF TypeOK, Sent
<1>2. ASSUME NEW r \in Requests, Starts(r) PROVE req' \in [Requests -> Call] /\ Sent'
  BY <1>2, StartsKeep, InputAssumption DEF Sent, Requests
<1>3. ASSUME NEW r \in Requests, Step(r) \/ Crash(r) PROVE req' \in [Requests -> Call] /\ Sent'
  <2>1. Moves(r) /\ req[r].pc # "idle"
    BY <1>3, StepMoves
  <2>2. QED
    BY <2>1, MovesKeep DEF Sent
<1>4. QED
  BY <1>1, <1>2, <1>3, NextSplits DEF Revise, ExpireReservation, vars

-----------------------------------------------------------------------------
(* What is on record stays.                                                *)

\* The commit of a confirmation.
Commits(r) == r \in Confirms /\ \E told \in BOOLEAN : Complete(r, told)

\* A completed command is not touched again, whichever step is taken.
LEMMA CompletedStays ==
    ASSUME TypeOK, Sent, [Next]_vars, NEW k \in Keys, command[k].status = "completed"
    PROVE  command'[k] = command[k]
<1>1. ASSUME NEW r \in Requests, Reserve(r) PROVE command'[k] = command[k]
  <2>1. OwnCommand(r).status = "completed" => ReserveOutcome(r) # "reserved"
    BY DEF ReserveOutcome
  <2>2. ~Blocks(r, k)
    BY DEF Blocks
  <2>3. CASE UNCHANGED command
    BY <2>3
  <2>4. CASE ReserveOutcome(r) = "reserved"
    <3>1. k # req[r].key
      BY <2>1, <2>4 DEF OwnCommand
    <3>2. QED
      BY <1>1, <2>2, <2>4, <3>1 DEF Reserve
  <2>5. QED
    BY <1>1, <2>3, <2>4 DEF Reserve, ReserveOutcome
<1>2. ASSUME NEW r \in Requests, NEW told \in BOOLEAN, Complete(r, told) PROVE command'[k] = command[k]
  <2>1. k # req[r].key
    BY <1>2 DEF Complete, MayComplete, OwnReservation, OwnCommand
  <2>2. QED
    BY <1>2, <2>1 DEF Complete, TypeOK
<1>3. ASSUME NEW r \in Requests, Release(r) PROVE command'[k] = command[k]
  BY <1>3 DEF Release, OwnReservation, OwnCommand, TypeOK
<1>4. ASSUME NEW l \in Keys, ExpireReservation(l) PROVE command'[k] = command[k]
  BY <1>4 DEF ExpireReservation, TypeOK
<1>5. ASSUME NEW r \in Requests, Step(r) \/ Crash(r) \/ Starts(r)
      PROVE  UNCHANGED command \/ Reserve(r) \/ Release(r) \/ \E told \in BOOLEAN : Complete(r, told)
  BY <1>5 DEF Step, Replay, ReadTask, PrepareBinding, WaitForCommand, UploadFile, BuildGates,
       CompleteFails, Lookup, ListGateRecords, Invalidate, Crash, Starts
<1>6. QED
  BY <1>1, <1>2, <1>3, <1>4, <1>5, NextSplits DEF Revise, vars

\* Only a commit completes a command, and it answers what it was sent for.
LEMMA Completed ==
    ASSUME TypeOK, Sent, [Next]_vars, NEW k \in Keys, command'[k].status = "completed"
    PROVE  \/ command[k].status = "completed" /\ command'[k] = command[k]
           \/ \E r \in Requests, told \in BOOLEAN :
                /\ Complete(r, told) /\ k = req[r].key /\ command'[k].status = "completed"
                /\ command'[k].hash = req[r].hash /\ command'[k].answer = AnswerOf(r)
<1>1. CASE command[k].status = "completed"
  BY <1>1, CompletedStays
<1>2. CASE command[k].status # "completed"
  <2>1. command[k].status \in {"none", "pending"} /\ command' # command
    BY <1>2 DEF TypeOK, Row0
  <2>2. ASSUME NEW r \in Requests, Reserve(r) PROVE FALSE
    <3>1. command' = [l \in Keys |->
                   IF l = req[r].key
                   THEN [status |-> "pending", hash |-> req[r].hash, token |-> r,
                         live |-> TRUE, answer |-> NoOne]
                   ELSE IF Blocks(r, l) /\ ~command[l].live THEN NoCommand ELSE command[l]]
      BY <2>1, <2>2 DEF Reserve, ReserveOutcome
    <3>2. QED
      BY <1>2, <3>1 DEF NoCommand
  <2>3. ASSUME NEW r \in Requests, Release(r) PROVE FALSE
    BY <1>2, <2>3 DEF Release, NoCommand, TypeOK
  <2>4. ASSUME NEW l \in Keys, ExpireReservation(l) PROVE FALSE
    <3>1. command' = [command EXCEPT ![l] = [command[l] EXCEPT !.live = FALSE]]
      BY <2>4 DEF ExpireReservation, TypeOK
    <3>2. [command[l] EXCEPT !.live = FALSE].status = command[l].status
      BY DEF TypeOK, Row0
    <3>3. QED
      BY <1>2, <3>1, <3>2 DEF TypeOK
  <2>5. ASSUME NEW r \in Requests, NEW told \in BOOLEAN, Complete(r, told)
        PROVE  /\ k = req[r].key
               /\ command'[k].hash = req[r].hash /\ command'[k].answer = AnswerOf(r)
    <3>1. OwnCommand(r) \in Row0 /\ req[r].key \in Keys
      BY <2>5, RowTyped DEF Complete
    <3> DEFINE row == [OwnCommand(r) EXCEPT !.status = "completed", !.token = NoOne, !.live = FALSE,
                         !.answer = AnswerOf(r)]
    <3>2. command' = [command EXCEPT ![req[r].key] = row]
      BY <2>5 DEF Complete, OwnCommand
    <3>3. row.hash = req[r].hash /\ row.answer = AnswerOf(r)
      BY <2>5, <3>1 DEF Complete, MayComplete, OwnReservation, Row0
    <3>4. k = req[r].key
      BY <1>2, <3>2 DEF TypeOK
    <3>5. QED
      BY <3>1, <3>2, <3>3, <3>4 DEF TypeOK
  <2>6. ASSUME NEW r \in Requests, Step(r) \/ Crash(r) \/ Starts(r)
        PROVE  UNCHANGED command \/ Reserve(r) \/ Release(r) \/ \E told \in BOOLEAN : Complete(r, told)
    BY <2>6 DEF Step, Replay, ReadTask, PrepareBinding, WaitForCommand, UploadFile, BuildGates,
         CompleteFails, Lookup, ListGateRecords, Invalidate, Crash, Starts
  <2>7. QED
    BY <2>1, <2>2, <2>3, <2>4, <2>5, <2>6, NextSplits DEF Revise, vars
<1>3. QED
  BY <1>1, <1>2

\* Who fills a gate: the commit of a confirmation, and no gate is filled twice.
LEMMA GatesStay ==
    ASSUME TypeOK, Sent, [Next]_vars, NEW p \in Plans
    PROVE  \/ gate'[p] = gate[p]
           \/ \E r \in Confirms : /\ Commits(r) /\ p = req[r].plan /\ gate[p] = NoOne
                                 /\ gate'[p] = Evid(r) /\ Sealed(r)
<1>1. ASSUME NEW r \in Requests, NEW told \in BOOLEAN, Complete(r, told), gate' # gate
      PROVE  /\ r \in Confirms /\ Commits(r) /\ gate' = [gate EXCEPT ![req[r].plan] = Evid(r)]
             /\ gate[req[r].plan] = NoOne /\ Sealed(r)
  BY <1>1 DEF Complete, MayComplete, Commits, Requests, rowVars
<1>2. ASSUME NEW r \in Requests, Step(r) \/ Crash(r) \/ Starts(r)
      PROVE  UNCHANGED gate \/ \E told \in BOOLEAN : Complete(r, told)
  BY <1>2 DEF Step, Replay, ReadTask, PrepareBinding, Reserve, WaitForCommand, UploadFile, BuildGates,
       CompleteFails, Release, Lookup, ListGateRecords, Invalidate, Crash, Starts
<1>3. UNCHANGED gate \/ \E r \in Requests, told \in BOOLEAN : Complete(r, told)
  BY <1>2, NextSplits DEF Revise, ExpireReservation, vars
<1>4. QED
  BY <1>1, <1>3 DEF TypeOK

-----------------------------------------------------------------------------
(* Confirmations.                                                          *)

\* A commit fills its plan's gate with what the client named, once.
LEMMA NextConfirmed ==
    ASSUME TypeOK, Sent, ConfirmedHolds, [Next]_vars
    PROVE  ConfirmedHolds'
<1>0. \A k \in ConfirmKeys : k \in Keys /\ k \notin UploadKeys
  BY InputAssumption DEF Keys
<1>1. ASSUME NEW r \in Confirms, Commits(r) PROVE ConfirmedHolds'
  <2> DEFINE K == req[r].key
             p == req[r].plan
  <2>1. PICK told \in BOOLEAN : Complete(r, told)
    BY <1>1 DEF Commits
  <2>2. r \in Requests /\ r \notin Uploads
    BY InputAssumption DEF Requests
  <2>3. K \in ConfirmKeys /\ p \in Plans /\ req[r].hash \in Hashes /\ req[r].hash.plan = p
        /\ req[r].hash.input \in Evidence /\ Evid(r) = req[r].hash.input
    BY <2>1, <2>2, RowTyped DEF Complete, Sent, Evid
  <2>4. gate[p] = NoOne /\ gate' = [gate EXCEPT ![p] = Evid(r)] /\ activePlan = p /\ activePlan' = p
    BY <2>1, <2>2 DEF Complete, MayComplete, TaskFence
  <2>5. OwnCommand(r) \in Row0
    BY <2>1, <2>2, RowTyped DEF Complete
  <2> DEFINE row == [OwnCommand(r) EXCEPT !.status = "completed", !.token = NoOne, !.live = FALSE,
                       !.answer = AnswerOf(r)]
  <2>6. command' = [command EXCEPT ![K] = row]
    BY <2>1 DEF Complete, OwnCommand
  <2>7. row.hash = req[r].hash /\ row.status = "completed"
    BY <2>1, <2>5 DEF Complete, MayComplete, OwnReservation, Row0
  <2>8. command'[K].hash = req[r].hash /\ command'[K].status = "completed"
        /\ \A l \in Keys : l # K => command'[l] = command[l]
    BY <1>0, <2>3, <2>6, <2>7 DEF TypeOK
  <2>9. \A l \in ConfirmKeys : l # K /\ DoneOf(l)' =>
          /\ DoneOf(l) /\ command'[l] = command[l] /\ command[l].hash.plan # p
          /\ command[l].hash.plan \in Plans /\ gate'[command[l].hash.plan] = gate[command[l].hash.plan]
    <3> SUFFICES ASSUME NEW l \in ConfirmKeys, l # K, DoneOf(l)'
                 PROVE  /\ DoneOf(l) /\ command'[l] = command[l] /\ command[l].hash.plan # p
                        /\ command[l].hash.plan \in Plans
                        /\ gate'[command[l].hash.plan] = gate[command[l].hash.plan]
      OBVIOUS
    <3>1. command'[l] = command[l] /\ DoneOf(l)
      BY <1>0, <2>8 DEF DoneOf
    <3>2. gate[command[l].hash.plan] \in Evidence /\ command[l].hash \in Hashes
      BY <3>1 DEF ConfirmedHolds
    <3>3. command[l].hash.plan # p
      BY <2>4, <3>2, InputAssumption DEF Evidence
    <3>4. QED
      BY <2>4, <3>1, <3>2, <3>3 DEF Hashes, TypeOK
  <2>10. \A k \in ConfirmKeys : DoneOf(k)' =>
           /\ command'[k].hash \in Hashes /\ command'[k].hash.input \in Evidence
           /\ gate'[command'[k].hash.plan] = command'[k].hash.input
    <3> SUFFICES ASSUME NEW k \in ConfirmKeys, DoneOf(k)'
                 PROVE  /\ command'[k].hash \in Hashes /\ command'[k].hash.input \in Evidence
                        /\ gate'[command'[k].hash.plan] = command'[k].hash.input
      OBVIOUS
    <3>1. CASE k = K
      BY <2>3, <2>4, <2>8, <3>1 DEF TypeOK
    <3>2. CASE k # K
      BY <2>9, <3>2 DEF ConfirmedHolds
    <3>3. QED
      BY <3>1, <3>2
  <2>11. \A k, l \in ConfirmKeys : DoneOf(k)' /\ DoneOf(l)'
           /\ command'[k].hash.plan = command'[l].hash.plan => k = l
    BY <2>3, <2>8, <2>9 DEF ConfirmedHolds
  <2>12. \E k \in ConfirmKeys : DoneOf(k)' /\ command'[k].hash.plan = activePlan'
    BY <2>3, <2>4, <2>8 DEF DoneOf
  <2> HIDE DEF K, p, row
  <2>13. QED
    BY <2>3, <2>10, <2>11, <2>12 DEF ConfirmedHolds
<1>2. CASE ~\E r \in Confirms : Commits(r)
  <2>1. \A k \in ConfirmKeys : DoneOf(k)' => DoneOf(k) /\ command'[k] = command[k]
    <3> SUFFICES ASSUME NEW k \in ConfirmKeys, DoneOf(k)'
                 PROVE  DoneOf(k) /\ command'[k] = command[k]
      OBVIOUS
    <3>1. k \in Keys /\ command'[k].status = "completed"
      BY <1>0 DEF DoneOf
    <3>2. \A r \in Requests, told \in BOOLEAN : Complete(r, told) => req[r].key # k
      BY <1>0, <1>2 DEF Commits, Complete, Sent, Requests
    <3>3. QED
      BY <3>1, <3>2, Completed DEF DoneOf
  <2>2. \A k \in ConfirmKeys : DoneOf(k) => command'[k] = command[k] /\ DoneOf(k)'
    BY <1>0, CompletedStays DEF DoneOf
  <2>3. \A p \in Plans : gate'[p] = gate[p]
    BY <1>2, GatesStay
  <2>4. \A k \in ConfirmKeys : DoneOf(k) => command[k].hash.plan \in Plans
    BY DEF ConfirmedHolds, Hashes
  <2>5. taskState' = "confirmed" => taskState = "confirmed" /\ activePlan' = activePlan
    <3>1. UNCHANGED rowVars \/ Revise \/ \E r \in Requests, told \in BOOLEAN : Complete(r, told) /\ r \in Uploads
      <4>1. ASSUME NEW r \in Requests, Step(r) \/ Crash(r) \/ Starts(r)
            PROVE  UNCHANGED rowVars \/ \E told \in BOOLEAN : Complete(r, told)
        BY <4>1 DEF Step, Replay, ReadTask, PrepareBinding, Reserve, WaitForCommand, UploadFile, BuildGates,
             CompleteFails, Release, Lookup, ListGateRecords, Invalidate, Crash, Starts
      <4>2. QED
        BY <1>2, <4>1, NextSplits DEF Commits, Requests, ExpireReservation, vars
    <3>2. QED
      BY <3>1 DEF Revise, Complete, rowVars
  <2>6. QED
    BY <2>1, <2>2, <2>3, <2>4, <2>5 DEF ConfirmedHolds
<1>3. QED
  BY <1>1, <1>2

-----------------------------------------------------------------------------
(* The steps of a request, and its answers.                                *)

\* The key of r has the answer that r is after.
Recorded(r) == OwnCommand(r).status = "completed" /\ Same(r)

\* Which step may follow which, and when.
Follows(r) ==
    \/ req'[r].pc = "crashed"
    \/ req'[r].pc = "refused" /\ req[r].pc # "list"
    \/ req[r].pc \in {"replay", "read", "prepare"} /\ req'[r].pc \in {"read", "prepare", "reserve"}
    \/ req[r].pc \in {"reserve", "wait"} /\ req'[r].pc \in {"reserve", "wait", "work"}
    \/ req[r].pc = "work" /\ req'[r].pc = "release"
    \/ req[r].pc = "work" /\ req'[r].pc = "complete" /\ (r \in Uploads => evidence'[r] = "sealed")
    \/ req[r].pc = "complete" /\ req'[r].pc = "release"
    \/ req[r].pc = "complete" /\ req'[r].pc = "answered" /\ Complete(r, TRUE)
    \/ req[r].pc = "release" /\ req'[r].pc = "lookup"
    \/ req[r].pc = "release" /\ req'[r].pc = "invalidate" /\ OwnReservation(r)
    \/ req[r].pc = "lookup" /\ req'[r].pc = "list" /\ Recorded(r) /\ r \notin Uploads
    \/ req[r].pc = "lookup" /\ req'[r].pc = "invalidate" /\ ~Recorded(r)
    \/ req[r].pc = "list" /\ req'[r].pc = "answered" /\ gate[req[r].plan] = Evid(r)
    \/ req[r].pc = "list" /\ req'[r].pc = "invalidate" /\ gate[req[r].plan] # Evid(r)
    \/ req[r].pc # "list" /\ req'[r].pc = "answered" /\ Recorded(r)
    \/ req[r].pc = "invalidate" /\ req'[r].pc = "answered" /\ req[r].answer # NoOne

\* Each step follows.
LEMMA StepFollows ==
    ASSUME TypeOK, Sent, NEW r \in Requests, Step(r) \/ Crash(r)
    PROVE  /\ Follows(r) /\ req[r].pc \in InFlight
           /\ req'[r].pc \notin {"answered", "list"} => req'[r].answer = req[r].answer
<1> req[r] \in Call
  BY DEF TypeOK
<1> OwnCommand(r).status \in {"none", "pending", "completed"}
  BY StepMoves, RowTyped
<1>1. \A p : Go(r, p) => req'[r].pc = p /\ req'[r].answer = req[r].answer
  BY DEF Go, TypeOK, Call
<1>2. \A a : Answer(r, a) => req'[r].pc = "answered"
  BY DEF Answer, TypeOK, Call
<1>3. CASE Replay(r)
  <2>1. \/ \E p \in {"read", "refused"} : Go(r, p)
        \/ Answer(r, OwnCommand(r).answer) /\ Recorded(r)
    BY <1>3 DEF Replay, Recorded
  <2>2. QED
    BY <1>1, <1>2, <1>3, <2>1 DEF Replay, Follows, InFlight
<1>4. CASE ReadTask(r)
  <2>1. \/ \E p \in {"prepare", "refused"} : Go(r, p)
        \/ Answer(r, OwnCommand(r).answer) /\ Recorded(r)
    BY <1>4 DEF ReadTask, Recorded
  <2>2. QED
    BY <1>1, <1>2, <1>4, <2>1 DEF ReadTask, Follows, InFlight
<1>5. CASE PrepareBinding(r)
  <2>1. \E p \in {"reserve", "refused"} : Go(r, p)
    BY <1>5 DEF PrepareBinding
  <2>2. QED
    BY <1>1, <1>5, <2>1 DEF PrepareBinding, Follows, InFlight
<1>6. CASE Reserve(r)
  <2>1. \/ \E p \in {"wait", "work", "refused"} : Go(r, p)
        \/ Answer(r, OwnCommand(r).answer) /\ Recorded(r)
    <3>1. ReserveOutcome(r) = "replayed" => Recorded(r)
      BY DEF ReserveOutcome, Recorded
    <3>2. QED
      BY <1>6, <3>1 DEF Reserve, ReserveOutcome
  <2>2. QED
    BY <1>1, <1>2, <1>6, <2>1 DEF Reserve, Follows, InFlight
<1>7. CASE WaitForCommand(r)
  <2>1. \/ \E p \in {"reserve", "refused"} : Go(r, p)
        \/ Answer(r, OwnCommand(r).answer) /\ Recorded(r)
    BY <1>7 DEF WaitForCommand, Recorded
  <2>2. QED
    BY <1>1, <1>2, <1>7, <2>1 DEF WaitForCommand, Follows, InFlight
<1>8. CASE UploadFile(r)
  <2>1. CASE Go(r, "release")
    BY <1>1, <1>8, <2>1 DEF UploadFile, Follows, InFlight
  <2>2. CASE req' = [req EXCEPT ![r].pc = "complete", ![r].bound = TRUE]
             /\ evidence' = [evidence EXCEPT ![r] = "sealed"]
    <3>1. req'[r].pc = "complete" /\ req'[r].answer = req[r].answer
      BY <2>2 DEF TypeOK, Call
    <3>2. r \in Uploads /\ evidence'[r] = "sealed"
      BY <1>8, <2>2 DEF UploadFile, TypeOK, Evidence
    <3>3. QED
      BY <1>8, <3>1, <3>2 DEF UploadFile, Follows, InFlight
  <2>3. QED
    BY <1>8, <2>1, <2>2 DEF UploadFile
<1>9. CASE BuildGates(r)
  <2>1. r \notin Uploads
    BY <1>9, InputAssumption DEF BuildGates
  <2>2. QED
    BY <1>1, <1>9, <2>1 DEF BuildGates, Follows, InFlight
<1>10. ASSUME NEW told \in BOOLEAN, Complete(r, told)
       PROVE  /\ Follows(r) /\ req[r].pc \in InFlight
              /\ req'[r].pc \notin {"answered", "list"} => req'[r].answer = req[r].answer
  <2>1. CASE told
    <3>1. told = TRUE
      BY <2>1
    <3>2. Complete(r, TRUE)
      BY <1>10, <3>1
    <3>3. QED
      BY <1>2, <3>2 DEF Complete, Follows, InFlight
  <2>2. CASE ~told
    BY <1>1, <1>10, <2>2 DEF Complete, Follows, InFlight
  <2>3. QED
    BY <2>1, <2>2
<1>11. CASE CompleteFails(r)
  BY <1>1, <1>11 DEF CompleteFails, Follows, InFlight
<1>12. CASE Release(r)
  <2>1. (OwnReservation(r) /\ Go(r, "invalidate")) \/ Go(r, "lookup") \/ Go(r, "refused")
    BY <1>12 DEF Release
  <2>2. QED
    BY <1>1, <1>12, <2>1 DEF Release, Follows, InFlight
<1>13. CASE Lookup(r)
  <2>1. \/ Answer(r, OwnCommand(r).answer) /\ Recorded(r)
        \/ /\ req' = [req EXCEPT ![r].pc = "list", ![r].answer = OwnCommand(r).answer]
           /\ Recorded(r) /\ r \notin Uploads
        \/ Go(r, "invalidate") /\ ~Recorded(r)
    BY <1>13 DEF Lookup, Recorded
  <2>2. CASE /\ req' = [req EXCEPT ![r].pc = "list", ![r].answer = OwnCommand(r).answer]
             /\ Recorded(r) /\ r \notin Uploads
    <3>1. req'[r].pc = "list"
      BY <2>2 DEF TypeOK, Call
    <3>2. QED
      BY <1>13, <2>2, <3>1 DEF Lookup, Follows, InFlight
  <2>3. QED
    BY <1>1, <1>2, <1>13, <2>1, <2>2 DEF Lookup, Follows, InFlight
<1>14. CASE ListGateRecords(r)
  BY <1>1, <1>14 DEF ListGateRecords, Follows, InFlight
<1>15. CASE Invalidate(r)
  BY <1>1, <1>15 DEF Invalidate, Follows, InFlight
<1>16. CASE Crash(r)
  BY <1>1, <1>16 DEF Crash, Follows
<1>17. QED
  BY <1>3, <1>4, <1>5, <1>6, <1>7, <1>8, <1>9, <1>10, <1>11, <1>12, <1>13, <1>14, <1>15, <1>16 DEF Step

\* What was filled stays filled.
LEMMA FilledStays ==
    ASSUME TypeOK, Sent, [Next]_vars, NEW p \in Plans, gate[p] # NoOne
    PROVE  gate'[p] = gate[p]
BY GatesStay

\* A confirmation says yes only when its plan's gate holds what it named.
LEMMA NextYes ==
    ASSUME TypeOK, Sent, ConfirmedHolds, YesHolds, [Next]_vars
    PROVE  YesHolds'
<1>0. \A r \in Confirms : r \in Requests /\ r \notin Uploads
  BY InputAssumption DEF Requests
<1>1. ASSUME NEW r \in Confirms, req[r].pc # "idle", gate[req[r].plan] = Evid(r)
      PROVE  gate'[req[r].plan] = Evid(r)
  <2>1. req[r].plan \in Plans /\ Evid(r) \in Evidence
    BY <1>0, <1>1, RowTyped
  <2>2. QED
    BY <1>1, <2>1, FilledStays, InputAssumption DEF Evidence
<1>2. ASSUME NEW r \in Confirms, req'[r] = req[r]
      PROVE  /\ req'[r].pc \in {"answered", "list"} => gate'[req'[r].plan] = Evid(r)'
             /\ req'[r].pc \notin {"answered", "list", "crashed"} => req'[r].answer = NoOne
  BY <1>1, <1>2 DEF YesHolds, Evid
<1>3. ASSUME NEW r \in Confirms, Starts(r)
      PROVE  req'[r].pc = "replay" /\ req'[r].answer = NoOne
  BY <1>0, <1>3, StartsKeep
<1>4. ASSUME NEW r \in Confirms, Step(r) \/ Crash(r)
      PROVE  /\ req'[r].pc \in {"answered", "list"} => gate'[req'[r].plan] = Evid(r)'
             /\ req'[r].pc \notin {"answered", "list", "crashed"} => req'[r].answer = NoOne
  <2>1. r \in Requests /\ r \notin Uploads /\ req[r].pc # "idle"
    BY <1>0, <1>4, StepMoves
  <2>2. Follows(r) /\ req[r].pc \in InFlight
        /\ (req'[r].pc \notin {"answered", "list"} => req'[r].answer = req[r].answer)
    BY <1>4, <2>1, StepFollows
  <2>3. req'[r].hash = req[r].hash /\ req'[r].plan = req[r].plan /\ Evid(r)' = Evid(r)
    BY <1>4, <2>1, StepMoves, MovesKeep DEF Evid
  <2>4. ASSUME Recorded(r) PROVE gate[req[r].plan] = Evid(r)
    <3>1. req[r].key \in ConfirmKeys /\ req[r].hash.plan = req[r].plan
      BY <2>1 DEF Sent
    <3>2. DoneOf(req[r].key) /\ command[req[r].key].hash = req[r].hash
      BY <2>4, <3>1 DEF DoneOf, Recorded, OwnCommand, Same
    <3>3. gate[req[r].hash.plan] = req[r].hash.input
      BY <3>1, <3>2 DEF ConfirmedHolds
    <3>4. QED
      BY <2>1, <3>1, <3>3 DEF Evid
  <2>5. ASSUME Complete(r, TRUE) PROVE gate'[req[r].plan] = Evid(r)
    <3>1. req[r].plan \in Plans
      BY <2>1, RowTyped
    <3>2. QED
      BY <2>1, <2>5, <3>1 DEF Complete, TypeOK
  <2>6. req[r].pc \notin {"answered", "crashed"}
    BY <2>2 DEF InFlight
  <2>7. req[r].pc # "list" => req[r].answer = NoOne
    BY <2>6 DEF YesHolds
  <2>8. req[r].pc = "list" => gate[req[r].plan] = Evid(r)
    BY DEF YesHolds
  <2>9. req'[r].pc \in {"answered", "list"} => gate'[req[r].plan] = Evid(r)
    <3>1. ASSUME req'[r].pc \in {"answered", "list"}
          PROVE  Complete(r, TRUE) \/ Recorded(r) \/ gate[req[r].plan] = Evid(r)
      BY <2>2, <2>7, <3>1 DEF Follows
    <3>2. QED
      BY <1>1, <2>1, <2>4, <2>5, <3>1
  <2>10. req'[r].pc \notin {"answered", "list", "crashed"} => req[r].pc # "list"
    BY <2>2, <2>8 DEF Follows
  <2>11. QED
    BY <2>2, <2>3, <2>7, <2>9, <2>10
<1>5. ASSUME NEW r \in Confirms
      PROVE  /\ req'[r].pc \in {"answered", "list"} => gate'[req'[r].plan] = Evid(r)'
             /\ req'[r].pc \notin {"answered", "list", "crashed"} => req'[r].answer = NoOne
  <2>1. \A s \in Requests \ {r} : Starts(s) \/ Step(s) \/ Crash(s) => req'[r] = req[r]
    BY <1>0, StartsKeep, StepMoves, MovesKeep
  <2>2. req'[r] = req[r] \/ Starts(r) \/ Step(r) \/ Crash(r)
    BY <2>1, NextSplits DEF ExpireReservation, Revise, vars
  <2>3. QED
    BY <1>2, <1>3, <1>4, <2>2
<1>6. QED
  BY <1>5 DEF YesHolds

-----------------------------------------------------------------------------
(* Uploads.                                                                *)

\* What happens to an Artifact, and to the plan it is of.
LEMMA EvidenceSteps ==
    ASSUME TypeOK, Sent, [Next]_vars, NEW u \in Uploads
    PROVE  /\ boundTo'[u] = boundTo[u] \/ (UploadFile(u) /\ evidence'[u] # "none")
           /\ \/ evidence'[u] = evidence[u]
              \/ UploadFile(u) /\ evidence'[u] # "none"
              \/ \E r \in Requests : /\ Invalidate(r) /\ req[r].bound /\ Evid(r) = u
                                    /\ evidence[u] = "sealed" /\ evidence'[u] = "failed"
<1>0. u \in Evidence /\ u \in Requests
  BY DEF Evidence, Requests
<1>1. ASSUME NEW r \in Requests, UploadFile(r)
      PROVE  (r = u /\ evidence'[u] # "none") \/ (boundTo'[u] = boundTo[u] /\ evidence'[u] = evidence[u])
  BY <1>0, <1>1 DEF UploadFile, TypeOK
<1>2. ASSUME NEW r \in Requests, Invalidate(r)
      PROVE  /\ boundTo'[u] = boundTo[u]
             /\ \/ evidence'[u] = evidence[u]
                \/ /\ req[r].bound /\ Evid(r) = u
                   /\ evidence[u] = "sealed" /\ evidence'[u] = "failed"
  BY <1>0, <1>2 DEF Invalidate, TypeOK
<1>3. ASSUME NEW r \in Requests, Step(r) \/ Crash(r) \/ Starts(r)
      PROVE  UNCHANGED <<evidence, boundTo>> \/ UploadFile(r) \/ Invalidate(r)
  BY <1>3 DEF Step, Replay, ReadTask, PrepareBinding, Reserve, WaitForCommand, BuildGates, Complete,
       CompleteFails, Release, Lookup, ListGateRecords, Crash, Starts
<1>4. QED
  BY <1>1, <1>2, <1>3, NextSplits DEF Revise, ExpireReservation, vars

\* An upload's request that does not move, moves or starts.
LEMMA RequestSteps ==
    ASSUME TypeOK, Sent, [Next]_vars, NEW r \in Requests
    PROVE  req'[r] = req[r] \/ Starts(r) \/ Step(r) \/ Crash(r)
<1>1. \A s \in Requests \ {r} : Starts(s) => req'[r] = req[r]
  BY StartsKeep
<1>2. ASSUME NEW s \in Requests \ {r}, Step(s) \/ Crash(s) PROVE req'[r] = req[r]
  BY <1>2, StepMoves, MovesKeep
<1>3. QED
  BY <1>1, <1>2, NextSplits DEF Revise, ExpireReservation, vars

\* What a gate records was uploaded for its plan, whatever is uploaded later.
LEMMA NextGates ==
    ASSUME TypeOK, Sent, GateHolds, [Next]_vars
    PROVE  GateHolds'
<1>0. \A u \in Uploads : u \in Requests /\ u \notin Confirms
  BY InputAssumption DEF Requests
<1>1. ASSUME NEW u \in Uploads
      PROVE  /\ req'[u].pc \notin {"replay", "read", "prepare", "list"}
             /\ req'[u].pc \in {"idle", "reserve", "wait", "work"} =>
                  req[u].pc \in {"idle", "reserve", "wait", "work"} /\ ~UploadFile(u)
  <2>1. CASE req'[u] = req[u]
    <3>1. UploadFile(u) => Step(u)
      BY DEF Step
    <3>2. UploadFile(u) => req'[u].pc \in {"complete", "release"} /\ req[u].pc = "work"
      BY <1>0 DEF UploadFile, Go, TypeOK, Call
    <3>3. QED
      BY <2>1, <3>2 DEF GateHolds
  <2>2. CASE Starts(u)
    <3>1. req'[u].pc = "reserve" /\ req[u].pc = "idle"
      BY <1>0, <2>2, StartsKeep DEF Starts
    <3>2. QED
      BY <3>1 DEF UploadFile
  <2>3. CASE Step(u) \/ Crash(u)
    <3>1. Follows(u)
      BY <1>0, <2>3, StepFollows
    <3>2. UploadFile(u) => req'[u].pc \in {"complete", "release"}
      BY <1>0 DEF UploadFile, Go, TypeOK, Call
    <3>3. req'[u].pc # "idle"
      BY <1>0, <2>3, StepMoves, MovesKeep
    <3>4. req[u].pc \notin {"replay", "read", "prepare", "list"}
      BY DEF GateHolds
    <3>5. QED
      BY <3>1, <3>2, <3>3, <3>4 DEF Follows
  <2>4. QED
    BY <1>0, <2>1, <2>2, <2>3, RequestSteps
<1>2. \A u \in Uploads : evidence[u] # "none" => evidence'[u] # "none"
  BY EvidenceSteps
<1>3. ASSUME NEW u \in Uploads, req'[u].pc \in {"idle", "reserve", "wait", "work"} PROVE evidence'[u] = "none"
  <2>1. evidence[u] = "none" /\ ~UploadFile(u)
    BY <1>1, <1>3 DEF GateHolds
  <2>2. QED
    BY <2>1, EvidenceSteps
<1>4. \A u \in Uploads : UploadFile(u) => evidence[u] = "none"
  BY DEF UploadFile, GateHolds
<1>5. ASSUME NEW p \in Plans, gate'[p] # NoOne
      PROVE  evidence'[gate'[p]] # "none" /\ boundTo'[gate'[p]] = p
  <2>1. gate'[p] \in Uploads
    BY <1>5, NextEvidence DEF Evidence
  <2>2. CASE gate'[p] = gate[p]
    <3>1. evidence[gate[p]] # "none" /\ boundTo[gate[p]] = p
      BY <1>5, <2>2 DEF GateHolds
    <3>2. QED
      BY <1>2, <1>4, <2>1, <2>2, <3>1, EvidenceSteps
  <2>3. CASE \E r \in Confirms : p = req[r].plan /\ gate'[p] = Evid(r) /\ Sealed(r)
    <3>1. evidence[gate'[p]] = "sealed" /\ boundTo[gate'[p]] = p
      BY <2>3 DEF Sealed
    <3>2. QED
      BY <1>2, <1>4, <2>1, <3>1, EvidenceSteps
  <2>4. QED
    BY <2>2, <2>3, GatesStay
<1>6. QED
  BY <1>1, <1>3, <1>5 DEF GateHolds

\* A confirmation that has bound an upload stays one.
LEMMA TakenStays ==
    ASSUME TypeOK, Sent, [Next]_vars, NEW u, Taken(u)
    PROVE  Taken(u)'
<1>1. PICK r \in Confirms : req[r].bound /\ Evid(r) = u
  BY DEF Taken
<1>2. r \in Requests /\ r \notin Uploads /\ req[r].pc # "idle"
  BY <1>1, InputAssumption DEF Requests, Sent
<1>3. req'[r] = req[r] \/ (Moves(r) /\ req[r].pc # "idle")
  BY <1>2, RequestSteps, StepMoves DEF Starts
<1>4. req'[r].bound /\ req'[r].hash = req[r].hash
  BY <1>1, <1>2, <1>3, MovesKeep
<1>5. QED
  BY <1>1, <1>2, <1>4 DEF Taken, Evid

\* The Artifact of an upload past its work is failed by a confirmation only.
LEMMA SealedStays ==
    ASSUME TypeOK, Sent, [Next]_vars, NEW u \in Uploads, req[u].pc \notin {"work", "invalidate"},
           evidence[u] = "sealed" \/ Taken(u)
    PROVE  evidence'[u] = "sealed" \/ Taken(u)'
<1>1. CASE Taken(u)
  BY <1>1, TakenStays
<1>2. CASE evidence[u] = "sealed" /\ evidence'[u] # evidence[u]
  <2>1. PICK r \in Requests : Invalidate(r) /\ req[r].bound /\ Evid(r) = u
    BY <1>2, EvidenceSteps DEF UploadFile
  <2>2. r \in Confirms
    BY <2>1 DEF Requests, Evid, Invalidate
  <2>3. QED
    BY <2>1, <2>2, TakenStays DEF Taken
<1>3. QED
  BY <1>1, <1>2

\* An upload that was answered is not taken back by its own request.
LEMMA NextUploads ==
    ASSUME TypeOK, Sent, GateHolds, UploadHolds, [Next]_vars
    PROVE  UploadHolds'
<1>0. \A u \in Uploads : u \in Requests /\ u \notin Confirms
  BY InputAssumption DEF Requests
<1>1. ASSUME NEW k \in UploadKeys, command'[k].status = "completed"
      PROVE  \E u \in Uploads :
               /\ u = command'[k].answer /\ req'[u].key = k /\ req'[u].hash = command'[k].hash
               /\ req'[u].pc \in {"release", "lookup", "answered", "refused", "crashed"}
               /\ evidence'[u] = "sealed" \/ Taken(u)'
  <2>0. k \in Keys /\ k \notin ConfirmKeys
    BY InputAssumption DEF Keys
  <2>1. CASE command[k].status = "completed" /\ command'[k] = command[k]
    <3>1. PICK u \in Uploads :
            /\ u = command[k].answer /\ req[u].key = k /\ req[u].hash = command[k].hash
            /\ req[u].pc \in {"release", "lookup", "answered", "refused", "crashed"}
            /\ evidence[u] = "sealed" \/ Taken(u)
      BY <2>1 DEF UploadHolds
    <3>2. /\ req[u].key = k /\ req[u].hash = command[k].hash
          /\ req[u].pc \in {"release", "lookup", "answered", "refused", "crashed"}
          /\ evidence[u] = "sealed" \/ Taken(u)
      BY <3>1
    <3>3. evidence'[u] = "sealed" \/ Taken(u)'
      BY <3>2, SealedStays
    <3>4. Recorded(u) /\ ~OwnReservation(u)
      BY <2>1, <3>2 DEF Recorded, OwnReservation, OwnCommand, Same
    <3>5. req'[u].key = k /\ req'[u].hash = req[u].hash
          /\ req'[u].pc \in {"release", "lookup", "answered", "refused", "crashed"}
      <4>1. CASE req'[u] = req[u]
        BY <3>2, <4>1
      <4>2. CASE Step(u) \/ Crash(u)
        <5>1. Follows(u) /\ req'[u].key = k /\ req'[u].hash = req[u].hash
          BY <1>0, <3>2, <4>2, StepFollows, StepMoves, MovesKeep
        <5>2. QED
          BY <3>2, <3>4, <5>1 DEF Follows
      <4>3. QED
        BY <1>0, <3>2, <4>1, <4>2, RequestSteps DEF Starts
    <3>6. QED
      BY <2>1, <3>1, <3>2, <3>3, <3>5
  <2>2. CASE \E r \in Requests, told \in BOOLEAN :
               /\ Complete(r, told) /\ k = req[r].key
               /\ command'[k].hash = req[r].hash /\ command'[k].answer = AnswerOf(r)
    <3>1. PICK r \in Requests, told \in BOOLEAN :
               /\ Complete(r, told) /\ k = req[r].key
               /\ command'[k].hash = req[r].hash /\ command'[k].answer = AnswerOf(r)
      BY <2>2
    <3>2. r \in Uploads /\ command'[k].answer = r
      BY <2>0, <3>1 DEF Complete, Sent, AnswerOf
    <3>3. req'[r].key = k /\ req'[r].hash = req[r].hash
      BY <3>1, StepMoves, MovesKeep DEF Step
    <3>4. req'[r].pc \in {"answered", "release"}
      BY <3>1 DEF Complete, Answer, Go, TypeOK, Call
    <3>5. evidence'[r] = "sealed" \/ Taken(r)'
      BY <3>1, <3>2, SealedStays DEF Complete, UploadHolds
    <3>6. QED
      BY <3>1, <3>2, <3>3, <3>4, <3>5
  <2>3. QED
    BY <1>1, <2>0, <2>1, <2>2, Completed
<1>2. ASSUME NEW u \in Uploads, req'[u].pc = "complete"
      PROVE  evidence'[u] = "sealed" \/ Taken(u)'
  <2>1. CASE req'[u] = req[u]
    BY <1>2, <2>1, SealedStays DEF UploadHolds
  <2>2. CASE Starts(u)
    BY <1>0, <1>2, <2>2, StartsKeep
  <2>3. CASE Step(u) \/ Crash(u)
    BY <1>0, <1>2, <2>3, StepFollows DEF Follows
  <2>4. QED
    BY <1>0, <2>1, <2>2, <2>3, RequestSteps
<1>3. QED
  BY <1>1, <1>2 DEF UploadHolds

-----------------------------------------------------------------------------
(* The theorems.                                                           *)

\* At the start nothing was sent, uploaded or confirmed.
LEMMA InitInv == Init => Inv
<1> SUFFICES ASSUME Init PROVE Inv
  OBVIOUS
<1>1. 0 \in Versions /\ 1 \in Plans /\ 0 <= MaxVersion /\ 1 <= 0 + 1
  BY InputAssumption DEF Versions, Plans
<1>2. TypeOK
  <2>1. NoRequest \in Call
    BY <1>1 DEF NoRequest, Call, Replies
  <2>2. NoCommand \in Row0
    BY DEF NoCommand, Row0, Replies
  <2>3. QED
    BY <1>1, <2>1, <2>2 DEF Init, TypeOK
<1>3. Counted
  BY <1>1 DEF Init, Counted
<1>4. Sent
  BY DEF Init, NoRequest, Sent
<1>5. ConfirmedHolds
  BY DEF Init, NoCommand, ConfirmedHolds, DoneOf, Keys
<1>6. GateHolds
  BY DEF Init, NoRequest, GateHolds, Requests, Evidence
<1>7. YesHolds
  BY DEF Init, NoRequest, YesHolds, Requests
<1>8. UploadHolds
  BY DEF Init, NoRequest, NoCommand, UploadHolds, Requests, Keys
<1>9. QED
  BY <1>2, <1>3, <1>4, <1>5, <1>6, <1>7, <1>8 DEF Inv

\* Each step keeps all of it.
LEMMA NextInv == Inv /\ [Next]_vars => Inv'
<1> SUFFICES ASSUME Inv, [Next]_vars PROVE Inv'
  OBVIOUS
<1> TypeOK /\ Counted /\ Sent /\ ConfirmedHolds /\ GateHolds /\ YesHolds /\ UploadHolds
  BY DEF Inv
<1>1. TypeOK' /\ Counted' /\ Sent'
  BY NextRow, NextCommands, NextEvidence, NextSent DEF TypeOK
<1>2. ConfirmedHolds' /\ GateHolds' /\ YesHolds' /\ UploadHolds'
  BY NextConfirmed, NextGates, NextYes, NextUploads
<1>3. QED
  BY <1>1, <1>2 DEF Inv

\* So all of it always holds.
LEMMA SpecInv == Spec => []Inv
BY InitInv, NextInv, PTL DEF Spec

\* Requests, commands, gates and Artifacts have their types throughout, and the
\* versions and plans of the task stay within the bound on its revisions.
THEOREM InputsTypeCorrect == Spec => []TypeOK
<1>1. Inv => TypeOK
  BY DEF Inv
<1>2. QED
  BY <1>1, SpecInv, PTL

\* A plan is confirmed by one command only, and its gate holds what that named.
THEOREM ConfirmedByOneCommandAlways == Spec => []ConfirmedByOneCommand
<1>1. Inv => ConfirmedByOneCommand
  <2> SUFFICES ASSUME Inv PROVE ConfirmedByOneCommand
    OBVIOUS
  <2> DEFINE Done(p) == {k \in ConfirmKeys : command[k].status = "completed" /\ command[k].hash.plan = p}
  <2>1. ConfirmedHolds
    BY DEF Inv
  <2>2. \A p \in Plans : Cardinality(Done(p)) <= 1
    <3> TAKE p \in Plans
    <3>1. CASE Done(p) = {}
      BY <3>1, FS_EmptySet
    <3>2. CASE Done(p) # {}
      <4>1. PICK k \in Done(p) : TRUE
        BY <3>2
      <4>2. Done(p) = {k}
        BY <2>1, <4>1 DEF ConfirmedHolds, DoneOf
      <4>3. Cardinality({k}) = 1
        BY FS_Singleton
      <4> HIDE DEF Done
      <4>4. QED
        BY <4>2, <4>3
    <3>3. QED
      BY <3>1, <3>2
  <2>3. \A p \in Plans : \A k \in Done(p) : gate[p] = command[k].hash.input
    BY <2>1 DEF ConfirmedHolds, DoneOf
  <2>4. taskState = "confirmed" => Done(activePlan) # {}
    BY <2>1 DEF ConfirmedHolds, DoneOf
  <2>5. QED
    BY <2>2, <2>3, <2>4 DEF ConfirmedByOneCommand
<1>2. QED
  BY <1>1, SpecInv, PTL

\* What a gate records was uploaded for the very plan that it is a gate of.
THEOREM EvidenceBelongsToPlanAlways == Spec => []EvidenceBelongsToPlan
<1>1. Inv => EvidenceBelongsToPlan
  BY DEF Inv, GateHolds, EvidenceBelongsToPlan
<1>2. QED
  BY <1>1, SpecInv, PTL

\* A confirmation that says yes is in force, and an upload that was answered is
\* not taken back by the request that made it.
THEOREM AnswersAreTrueAlways == Spec => []AnswersAreTrue
<1>1. Inv => AnswersAreTrue
  BY DEF Inv, YesHolds, UploadHolds, Taken, AnswersAreTrue
<1>2. QED
  BY <1>1, SpecInv, PTL

=============================================================================
