--------------------------- MODULE ToolCallsProofs ---------------------------
(***************************************************************************)
(* Theorems about ToolCalls, for every number of calls, tries, browsers    *)
(* and waiters.                                                            *)
(***************************************************************************)
EXTENDS ToolCalls, FiniteSetTheorems, SequenceTheorems, WellFoundedInduction, TLAPS

-----------------------------------------------------------------------------
(* The inductive invariant.                                                *)

\* Where a call has a slot of the gate for its try, or had one until now.
Holding == {"granted", "launch", "pages", "closing", "abandon"}
\* Where a call goes on, over a try that has ended.
Repeating == {"recheck", "sleep", "again"}
Places == {"require", "check", "acquire", "queued", "confirm", "publish"} \cup Holding
              \cup Repeating \cup Ends
Results == {"none", "ok", "retryable", "fatal", "aborted", "unsafe"}
Record == [pc : Places, try : Nat, got : Results]

TypeOK ==
    /\ scope \in [Calls -> {"open", "late", "aborted"}]
    /\ call \in [Calls -> Record]
    /\ active \in Nat /\ queue \in Seq(Calls)
    /\ held \in SUBSET Tries /\ watched \in SUBSET Tries
    /\ browser \in [Tries -> {"none", "launching", "up"}]

\* The tries of a call, of max in all, are counted from 1, and one more is only
\* announced while there is one left.
TryOK(m, max) ==
    /\ m.try <= max
    /\ m.pc \in {"require", "check"} => m.try = 0
    /\ m.pc \notin {"require", "check", "stopped"} => m.try >= 1
    /\ m.pc \in Repeating => m.try < max
TriesInv == \A c \in Calls : TryOK(call[c], MaxTries[c])

\* The slot, the browser and the watch of a try, by where its call is.  Only the
\* last try of a call that failed or stopped leaves a browser behind, and then
\* it is watched and keeps its slot.
Current(r) == r[2] = call[r[1]].try
Slot(r) ==
    LET pc == call[r[1]].pc
    IN CASE Current(r) /\ pc \in {"granted", "launch", "abandon", "pages"} ->
              /\ r \in held /\ r \notin watched
              /\ pc = "granted" => browser[r] = "none"
              /\ pc = "launch" => browser[r] = "launching"
              /\ pc = "pages" => browser[r] # "launching"
         [] Current(r) /\ pc = "closing" ->
              /\ r \in held <=> r \in watched
              /\ browser[r] # "none" => r \in watched
              /\ browser[r] # "launching"
         [] OTHER ->
              /\ r \in held <=> r \in watched
              /\ r \in watched <=> browser[r] # "none"
              /\ browser[r] # "none" => Current(r) /\ pc \in {"failed", "stopped"}
SlotInv == \A r \in Tries : Slot(r)

\* The count of the gate is the number of slots that are held, and a call waits
\* only while all of them are.
GateInv ==
    /\ IsFiniteSet(held) /\ active = Cardinality(held) /\ active <= MaxActive
    /\ queue # <<>> => active = MaxActive

\* The queue holds the calls that wait, each of them once.
QueueInv ==
    /\ \A c \in Calls : At(c, "queued") <=> \E i \in DOMAIN queue : queue[i] = c
    /\ \A i, j \in DOMAIN queue : queue[i] = queue[j] => i = j
    /\ Len(queue) <= MaxQueued

IInv == TypeOK /\ TriesInv /\ SlotInv /\ GateInv /\ QueueInv

-----------------------------------------------------------------------------
(* Tries, and the operators on the queue.                                   *)

LEMMA TryIsPair ==
    /\ \A r \in Tries : r[1] \in Calls /\ r[2] \in 1 .. MaxTries[r[1]] /\ r = <<r[1], r[2]>>
    /\ \A c \in Calls : \A n \in 1 .. MaxTries[c] : <<c, n>> \in Tries
<1> QED
  BY DEF Tries

LEMMA ThisIsATry ==
    ASSUME TypeOK, TriesInv
    PROVE  /\ \A r \in Tries : Current(r) <=> r = This(r[1])
           /\ \A c \in Calls : call[c].try >= 1 =>
                /\ This(c) \in Tries /\ This(c)[1] = c /\ This(c)[2] = call[c].try
                /\ Current(This(c))
<1>1. \A r \in Tries : Current(r) <=> r = This(r[1])
  BY TryIsPair DEF Current, This
<1>2. \A c \in Calls : call[c].try >= 1 => This(c) \in Tries
  BY TryIsPair, CallsAssumption DEF TypeOK, TriesInv, TryOK, Record, This
<1> QED
  BY <1>1, <1>2 DEF This, Current

\* The least-number principle, for sets.
LEMMA LeastNatural ==
    ASSUME NEW T \in SUBSET Nat, T # {}
    PROVE  \E m \in T : \A k \in T : m <= k
<1> DEFINE R == OpToRel(<, Nat)
<1>1. IsWellFoundedOn(R, Nat)
  BY NatLessThanWellFounded
<1>2. \E m \in T : \A k \in T : ~ (<<k, m>> \in R)
  <2> HIDE DEF R
  <2> QED BY <1>1, WFMin
<1>3. \A k \in Nat, m \in Nat : k < m => <<k, m>> \in R
  BY DEF OpToRel
<1> HIDE DEF R
<1>4. PICK m \in T : \A k \in T : ~ (<<k, m>> \in R)
  BY <1>2
<1>5. ASSUME NEW k \in T
      PROVE  m <= k
  <2>1. ~ (<<k, m>> \in R) /\ k \in Nat /\ m \in Nat
    BY <1>4
  <2>2. ~ (k < m)
    BY <1>3, <2>1
  <2> QED BY <2>1, <2>2
<1> QED BY <1>5

\* What is left of a sequence without its element i.
LEMMA RemoveAtProperties ==
    ASSUME NEW S, NEW s \in Seq(S), NEW i \in 1 .. Len(s)
    PROVE  /\ RemoveAt(s, i) \in Seq(S)
           /\ Len(RemoveAt(s, i)) = Len(s) - 1
           /\ \A j \in 1 .. Len(s) - 1 : RemoveAt(s, i)[j] = IF j < i THEN s[j] ELSE s[j + 1]
<1> DEFINE front == SubSeq(s, 1, i - 1)
           back == SubSeq(s, i + 1, Len(s))
<1>0. Len(s) \in Nat /\ \A j \in 1 .. Len(s) : s[j] \in S
  BY LenProperties, ElementOfSeq
<1>1. /\ front \in Seq(S) /\ Len(front) = i - 1
      /\ \A j \in 1 .. i - 1 : front[j] = s[j]
  <2>1. /\ front \in Seq(S) /\ Len(front) = IF 1 <= i - 1 THEN i - 1 - 1 + 1 ELSE 0
        /\ \A j \in 1 .. i - 1 - 1 + 1 : front[j] = s[1 + j - 1]
    BY <1>0, SubSeqProperties
  <2> QED BY <1>0, <2>1
<1>2. /\ back \in Seq(S) /\ Len(back) = Len(s) - i
      /\ \A j \in 1 .. Len(s) - i : back[j] = s[i + j]
  <2>1. /\ back \in Seq(S)
        /\ Len(back) = IF i + 1 <= Len(s) THEN Len(s) - (i + 1) + 1 ELSE 0
        /\ \A j \in 1 .. Len(s) - (i + 1) + 1 : back[j] = s[i + 1 + j - 1]
    BY <1>0, SubSeqProperties
  <2> QED BY <1>0, <2>1
<1> HIDE DEF front, back
<1>3. /\ front \o back \in Seq(S) /\ Len(front \o back) = Len(front) + Len(back)
      /\ \A j \in 1 .. Len(front) + Len(back) : (front \o back)[j] =
             IF j <= Len(front) THEN front[j] ELSE back[j - Len(front)]
  BY <1>1, <1>2, ConcatProperties
<1>4. RemoveAt(s, i) = front \o back
  BY DEF RemoveAt, front, back
<1>5. ASSUME NEW j \in 1 .. Len(s) - 1
      PROVE  (front \o back)[j] = IF j < i THEN s[j] ELSE s[j + 1]
  <2>1. CASE j < i
    BY <1>0, <1>1, <1>2, <1>3, <2>1
  <2>2. CASE ~(j < i)
    <3>1. (front \o back)[j] = back[j - (i - 1)]
      BY <1>0, <1>1, <1>2, <1>3, <2>2
    <3>2. j - (i - 1) \in 1 .. Len(s) - i /\ i + (j - (i - 1)) = j + 1
      BY <1>0, <2>2
    <3> QED BY <1>2, <2>2, <3>1, <3>2
  <2> QED BY <2>1, <2>2
<1>6. Len(front \o back) = Len(s) - 1
  BY <1>0, <1>1, <1>2, <1>3
<1> QED BY <1>3, <1>4, <1>5, <1>6

\* What is left of a sequence without its first k elements.
LEMMA SuffixProperties ==
    ASSUME NEW S, NEW s \in Seq(S), NEW k \in 1 .. Len(s)
    PROVE  /\ SubSeq(s, k + 1, Len(s)) \in Seq(S)
           /\ Len(SubSeq(s, k + 1, Len(s))) = Len(s) - k
           /\ \A i \in 1 .. Len(s) - k : SubSeq(s, k + 1, Len(s))[i] = s[k + i]
<1>1. Len(s) \in Nat /\ \A j \in 1 .. Len(s) : s[j] \in S
  BY LenProperties, ElementOfSeq
<1>2. /\ SubSeq(s, k + 1, Len(s)) \in Seq(S)
      /\ Len(SubSeq(s, k + 1, Len(s))) = IF k + 1 <= Len(s) THEN Len(s) - (k + 1) + 1 ELSE 0
      /\ \A i \in 1 .. Len(s) - (k + 1) + 1 : SubSeq(s, k + 1, Len(s))[i] = s[k + 1 + i - 1]
  BY <1>1, SubSeqProperties
<1> QED BY <1>1, <1>2

LEMMA UpTo == ASSUME NEW k \in Nat PROVE Cardinality(1 .. k) = k
<1>1. Cardinality(1 .. k) = IF 1 > k THEN 0 ELSE k - 1 + 1
  BY FS_Interval
<1> QED BY <1>1

\* A waiter that leaves takes nobody's place.
LEMMA LeaveQueueKeeps ==
    ASSUME IInv, NEW c \in Calls, At(c, "queued"), NEW cs, LeaveQueue(c, cs),
           cs \in [Calls -> Record],
           cs[c].pc # "queued", \A d \in Calls \ {c} : cs[d] = call[d]
    PROVE  /\ active' \in Nat /\ queue' \in Seq(Calls) /\ held' = held /\ call' = cs
           /\ GateInv' /\ QueueInv'
<1>1. PICK i \in DOMAIN queue : queue[i] = c /\ queue' = RemoveAt(queue, i)
  BY DEF LeaveQueue
<1>2. call' = cs /\ active' = active /\ held' = held
  BY DEF LeaveQueue
<1>3. Len(queue) \in Nat /\ DOMAIN queue = 1 .. Len(queue) /\ queue \in Seq(Calls) /\ MaxQueued \in Nat
  BY LenProperties, CallsAssumption DEF IInv, TypeOK
<1>4. /\ queue' \in Seq(Calls) /\ Len(queue') = Len(queue) - 1
      /\ \A j \in 1 .. Len(queue) - 1 : queue'[j] = IF j < i THEN queue[j] ELSE queue[j + 1]
  BY <1>1, <1>3, RemoveAtProperties
<1>5. DOMAIN queue' = 1 .. Len(queue) - 1
  BY <1>4, LenProperties
<1>6. GateInv'
  <2>1. queue # <<>>
    BY <1>1, <1>3
  <2> QED BY <1>2, <2>1 DEF IInv, GateInv
<1>7. \A d \in Calls : cs[d].pc = "queued" <=> \E j \in DOMAIN queue' : queue'[j] = d
  <2> SUFFICES ASSUME NEW d \in Calls
               PROVE  cs[d].pc = "queued" <=> \E j \in DOMAIN queue' : queue'[j] = d
    OBVIOUS
  <2>1. CASE d = c
    <3>1. ASSUME NEW j \in DOMAIN queue', queue'[j] = c
          PROVE  FALSE
      <4>1. j \in 1 .. Len(queue) /\ j + 1 \in 1 .. Len(queue)
        BY <1>3, <1>5, <3>1
      <4>2. CASE j < i
        BY <1>1, <1>3, <1>4, <1>5, <3>1, <4>1, <4>2 DEF IInv, QueueInv
      <4>3. CASE ~(j < i)
        BY <1>1, <1>3, <1>4, <1>5, <3>1, <4>1, <4>3 DEF IInv, QueueInv
      <4> QED BY <4>2, <4>3
    <3> QED BY <2>1, <3>1
  <2>2. CASE d # c
    <3>1. cs[d].pc = "queued" <=> \E j \in DOMAIN queue : queue[j] = d
      BY <2>2 DEF IInv, QueueInv, At
    <3>2. ASSUME NEW j \in DOMAIN queue, queue[j] = d
          PROVE  \E m \in DOMAIN queue' : queue'[m] = d
      <4>1. j # i
        BY <1>1, <2>2, <3>2
      <4>2. CASE j < i
        <5>1. j \in 1 .. Len(queue) - 1 /\ queue'[j] = queue[j]
          BY <1>1, <1>3, <1>4, <4>2
        <5> QED BY <1>5, <3>2, <5>1
      <4>3. CASE j > i
        <5>1. j - 1 \in 1 .. Len(queue) - 1 /\ ~(j - 1 < i) /\ j - 1 + 1 = j
          BY <1>1, <1>3, <4>3
        <5>2. queue'[j - 1] = queue[j]
          BY <1>4, <5>1
        <5> QED BY <1>5, <3>2, <5>1, <5>2
      <4> QED BY <1>1, <1>3, <4>1, <4>2, <4>3
    <3>3. ASSUME NEW j \in DOMAIN queue', queue'[j] = d
          PROVE  \E m \in DOMAIN queue : queue[m] = d
      <4>1. j \in 1 .. Len(queue) /\ j + 1 \in 1 .. Len(queue)
        BY <1>3, <1>5
      <4> QED BY <1>3, <1>4, <1>5, <3>3, <4>1
    <3> QED BY <3>1, <3>2, <3>3
  <2> QED BY <2>1, <2>2
<1>8. \A j, m \in DOMAIN queue' : queue'[j] = queue'[m] => j = m
  <2> SUFFICES ASSUME NEW j \in DOMAIN queue', NEW m \in DOMAIN queue', queue'[j] = queue'[m]
               PROVE  j = m
    OBVIOUS
  <2>1. /\ j \in 1 .. Len(queue) /\ j + 1 \in 1 .. Len(queue)
        /\ m \in 1 .. Len(queue) /\ m + 1 \in 1 .. Len(queue) /\ i \in 1 .. Len(queue)
    BY <1>1, <1>3, <1>5
  <2>2. queue'[j] = (IF j < i THEN queue[j] ELSE queue[j + 1]) /\ queue'[m] = IF m < i THEN queue[m] ELSE queue[m + 1]
    BY <1>4, <1>5
  <2>3. \A a, b \in 1 .. Len(queue) : queue[a] = queue[b] => a = b
    BY <1>3 DEF IInv, QueueInv
  <2>4. (IF j < i THEN j ELSE j + 1) = (IF m < i THEN m ELSE m + 1)
    <3>1. CASE j < i /\ m < i
      BY <2>1, <2>2, <2>3, <3>1
    <3>2. CASE j < i /\ ~(m < i)
      BY <2>1, <2>2, <2>3, <3>2
    <3>3. CASE ~(j < i) /\ m < i
      BY <2>1, <2>2, <2>3, <3>3
    <3>4. CASE ~(j < i) /\ ~(m < i)
      BY <2>1, <2>2, <2>3, <3>4
    <3> QED BY <3>1, <3>2, <3>3, <3>4
  <2> QED BY <2>1, <2>4
<1>9. QueueInv'
  BY <1>2, <1>3, <1>4, <1>7, <1>8 DEF IInv, QueueInv, At
<1> QED BY <1>2, <1>4, <1>6, <1>9 DEF IInv, TypeOK

\* The places that drain shifts when there is room for one: those up to the
\* first waiter who has time left, or all of them.
LEMMA ShiftedForOne ==
    ASSUME TypeOK
    PROVE  \/ Shifted(1) = DOMAIN queue /\ \A i \in DOMAIN queue : Stopped(queue[i])
           \/ \E k \in DOMAIN queue : /\ Shifted(1) = 1 .. k /\ ~Stopped(queue[k])
                                      /\ \A i \in 1 .. k - 1 : Stopped(queue[i])
<1>1. Len(queue) \in Nat /\ DOMAIN queue = 1 .. Len(queue)
  BY LenProperties DEF TypeOK
<1>2. ASSUME NEW i \in DOMAIN queue
      PROVE  i \in Shifted(1) <=> \A j \in 1 .. i - 1 : Stopped(queue[j])
  <2> DEFINE open == {j \in 1 .. i - 1 : ~Stopped(queue[j])}
  <2>1. IsFiniteSet(open)
    <3>1. IsFiniteSet(1 .. i - 1)
      BY <1>1, FS_Interval
    <3> QED BY <3>1, FS_Subset
  <2>2. Cardinality(open) \in Nat /\ (Cardinality(open) = 0 <=> open = {})
    BY <2>1, FS_EmptySet, FS_CardinalityType
  <2>3. i \in Shifted(1) <=> Cardinality(open) < 1
    BY DEF Shifted
  <2>4. Cardinality(open) < 1 <=> open = {}
    <3> HIDE DEF open
    <3> QED BY <2>2
  <2> QED BY <2>3, <2>4
<1>3. Shifted(1) \subseteq DOMAIN queue
  BY DEF Shifted
<1> DEFINE T == {i \in DOMAIN queue : ~Stopped(queue[i])}
<1>4. CASE T = {}
  <2>1. \A i \in DOMAIN queue : Stopped(queue[i])
    BY <1>4
  <2>2. \A i \in DOMAIN queue : i \in Shifted(1)
    BY <1>1, <1>2, <2>1
  <2> QED BY <1>3, <2>1, <2>2
<1>5. CASE T # {}
  <2>1. T \in SUBSET Nat
    BY <1>1
  <2>2. PICK k \in T : \A i \in T : k <= i
    BY <1>5, <2>1, LeastNatural
  <2>3. k \in 1 .. Len(queue) /\ ~Stopped(queue[k])
    BY <1>1
  <2>4. \A i \in 1 .. k - 1 : Stopped(queue[i])
    BY <1>1, <2>2, <2>3
  <2>5. \A i \in 1 .. Len(queue) : i \in Shifted(1) <=> i <= k
    BY <1>1, <1>2, <2>3, <2>4
  <2>6. Shifted(1) = 1 .. k
    <3>1. \A i \in 1 .. k : i \in 1 .. Len(queue)
      BY <1>1, <2>3
    <3>2. \A i : i \in Shifted(1) <=> i \in 1 .. k
      BY <1>1, <1>3, <2>3, <2>5, <3>1
    <3> QED BY <3>2
  <2> QED BY <1>1, <2>3, <2>4, <2>6
<1> QED BY <1>4, <1>5

\* The two outcomes of a release of r.
Drained(r, cs) ==
    /\ \A i \in DOMAIN queue : Stopped(queue[i])
    /\ active' = active - 1 /\ queue' = <<>> /\ held' = held \ {r}
    /\ call' = [d \in Calls |-> IF At(d, "queued") THEN [cs[d] EXCEPT !.pc = "stopped"] ELSE cs[d]]

Admitted(r, cs, k) ==
    /\ ~Stopped(queue[k]) /\ \A i \in 1 .. k - 1 : Stopped(queue[i])
    /\ active' = active /\ queue' = SubSeq(queue, k + 1, Len(queue))
    /\ held' = (held \ {r}) \cup {This(queue[k])}
    /\ call' = [d \in Calls |->
         CASE d = queue[k] -> [cs[d] EXCEPT !.pc = "granted"]
           [] d # queue[k] /\ (\E i \in 1 .. k - 1 : d = queue[i]) -> [cs[d] EXCEPT !.pc = "stopped"]
           [] OTHER -> cs[d]]

LEMMA ReleaseOutcome ==
    ASSUME IInv, NEW r \in held, NEW cs, Release(r, cs)
    PROVE  Drained(r, cs) \/ \E k \in DOMAIN queue : Admitted(r, cs, k)
<1> DEFINE shifted  == Shifted(MaxActive - active + 1)
           waiters  == {queue[i] : i \in shifted}
           admitted == {d \in waiters : ~Stopped(d)}
<1>1. /\ active' = active - 1 + Cardinality(admitted)
      /\ queue' = SubSeq(queue, Cardinality(shifted) + 1, Len(queue))
      /\ held' = (held \ {r}) \cup {This(d) : d \in admitted}
      /\ call' = [d \in Calls |->
           CASE d \in admitted           -> [cs[d] EXCEPT !.pc = "granted"]
             [] d \in waiters \ admitted -> [cs[d] EXCEPT !.pc = "stopped"]
             [] OTHER                    -> cs[d]]
  BY DEF Release
<1>2. Len(queue) \in Nat /\ DOMAIN queue = 1 .. Len(queue) /\ queue \in Seq(Calls)
      /\ active \in Nat /\ MaxActive \in Nat
  BY LenProperties, CallsAssumption DEF IInv, TypeOK
<1>3. queue # <<>> => shifted = Shifted(1)
  <2>1. queue # <<>> => MaxActive - active + 1 = 1
    BY <1>2 DEF IInv, GateInv
  <2> QED BY <2>1
<1>4. queue = <<>> => shifted = {} /\ DOMAIN queue = {}
  BY <1>2 DEF Shifted
<1> HIDE DEF shifted
<1>5. CASE shifted = DOMAIN queue /\ \A i \in DOMAIN queue : Stopped(queue[i])
  <2>1. admitted = {} /\ waiters = {queue[i] : i \in DOMAIN queue}
    BY <1>5
  <2>2. \A d \in Calls : At(d, "queued") <=> d \in waiters
    BY <2>1 DEF IInv, QueueInv
  <2>3. Cardinality(admitted) = 0 /\ Cardinality(shifted) = Len(queue)
    <3>1. shifted = 1 .. Len(queue)
      BY <1>2, <1>5
    <3> HIDE DEF admitted
    <3>2. Cardinality(admitted) = 0
      BY <2>1, FS_EmptySet
    <3>3. Cardinality(shifted) = IF 1 > Len(queue) THEN 0 ELSE Len(queue) - 1 + 1
      BY <1>2, <3>1, FS_Interval
    <3> QED BY <1>2, <3>2, <3>3
  <2>4. queue' = <<>>
    <3>1. queue' = SubSeq(queue, Len(queue) + 1, Len(queue))
      BY <1>1, <2>3
    <3> QED BY <1>2, <3>1, SubSeqEmpty
  <2>5. active' = active - 1 /\ held' = held \ {r}
    BY <1>1, <1>2, <2>1, <2>3
  <2>6. call' = [d \in Calls |-> IF At(d, "queued") THEN [cs[d] EXCEPT !.pc = "stopped"] ELSE cs[d]]
    <3>1. \A d \in Calls : d \notin admitted
      BY <2>1
    <3> HIDE DEF admitted, waiters
    <3>2. \A d \in Calls : At(d, "queued") <=> d \in waiters \ admitted
      BY <2>2, <3>1
    <3> QED BY <1>1, <3>1, <3>2
  <2> QED BY <1>5, <2>4, <2>5, <2>6 DEF Drained
<1>6. CASE \E k \in DOMAIN queue : /\ shifted = 1 .. k /\ ~Stopped(queue[k])
                                   /\ \A i \in 1 .. k - 1 : Stopped(queue[i])
  <2>1. PICK k \in DOMAIN queue : /\ shifted = 1 .. k /\ ~Stopped(queue[k])
                                  /\ \A i \in 1 .. k - 1 : Stopped(queue[i])
    BY <1>6
  <2>2. k \in Nat /\ k >= 1 /\ k <= Len(queue)
    BY <1>2
  <2>3. admitted = {queue[k]}
    <3>1. queue[k] \in admitted
      BY <2>1, <2>2
    <3>2. ASSUME NEW i \in shifted, ~Stopped(queue[i]) PROVE i = k
      BY <2>1, <2>2, <3>2
    <3> QED BY <3>1, <3>2
  <2>4. \A d \in Calls \ {queue[k]} : d \in waiters \ admitted <=> \E i \in 1 .. k - 1 : d = queue[i]
    <3> SUFFICES ASSUME NEW d \in Calls, d # queue[k]
                 PROVE  (\E i \in 1 .. k : d = queue[i]) <=> \E i \in 1 .. k - 1 : d = queue[i]
      BY <2>1, <2>3
    <3>1. \A i \in 1 .. k : i = k \/ i \in 1 .. k - 1
      BY <2>2
    <3>2. \A i \in 1 .. k - 1 : i \in 1 .. k
      BY <2>2
    <3> QED BY <3>1, <3>2
  <2>5. Cardinality(admitted) = 1 /\ Cardinality(shifted) = k
    <3> HIDE DEF admitted
    <3>1. Cardinality(admitted) = 1
      BY <2>3, FS_Singleton
    <3>3. Cardinality(1 .. k) = k
      BY <2>2, UpTo
    <3> QED BY <2>1, <3>1, <3>3
  <2>6. active' = active /\ queue' = SubSeq(queue, k + 1, Len(queue))
    BY <1>1, <1>2, <2>5
  <2>7. held' = (held \ {r}) \cup {This(queue[k])}
    BY <1>1, <2>3
  <2>8. call' = [d \in Calls |->
             CASE d = queue[k] -> [cs[d] EXCEPT !.pc = "granted"]
               [] d # queue[k] /\ (\E i \in 1 .. k - 1 : d = queue[i]) -> [cs[d] EXCEPT !.pc = "stopped"]
               [] OTHER -> cs[d]]
    <3>1. \A d \in Calls : d \in admitted <=> d = queue[k]
      BY <2>3
    <3> HIDE DEF admitted, waiters
    <3> QED BY <1>1, <2>4, <3>1
  <2> QED BY <2>1, <2>6, <2>7, <2>8 DEF Admitted
<1>7. CASE queue = <<>>
  BY <1>4, <1>5, <1>7
<1>8. CASE queue # <<>>
  BY <1>3, <1>5, <1>6, <1>8, ShiftedForOne DEF IInv
<1> QED BY <1>7, <1>8

\* A release of a slot keeps the gate, and whoever is admitted by it holds the
\* slot of its current try.
LEMMA ReleaseKeeps ==
    ASSUME IInv, NEW r \in held, NEW cs, Release(r, cs),
           cs \in [Calls -> Record],
           \A d \in Calls : d # r[1] => cs[d] = call[d],
           call[r[1]].pc # "queued", cs[r[1]].pc # "queued"
    PROVE  /\ active' \in Nat /\ queue' \in Seq(Calls) /\ held' \in SUBSET Tries
           /\ call' \in [Calls -> Record]
           /\ GateInv' /\ QueueInv'
           /\ call'[r[1]] = cs[r[1]]
           /\ \A d \in Calls : d # r[1] =>
                \/ call'[d] = call[d]
                \/ At(d, "queued") /\ call'[d] = [call[d] EXCEPT !.pc = "granted"]
                \/ At(d, "queued") /\ call'[d] = [call[d] EXCEPT !.pc = "stopped"]
           /\ \A q \in Tries : q \in held' <=>
                \/ q \in held /\ q # r
                \/ Current(q) /\ At(q[1], "queued") /\ call'[q[1]].pc = "granted"
<1>0. /\ Len(queue) \in Nat /\ DOMAIN queue = 1 .. Len(queue) /\ queue \in Seq(Calls)
      /\ \A i \in DOMAIN queue : queue[i] \in Calls /\ At(queue[i], "queued") /\ queue[i] # r[1]
  <2>1. Len(queue) \in Nat /\ DOMAIN queue = 1 .. Len(queue) /\ queue \in Seq(Calls)
    BY LenProperties DEF IInv, TypeOK
  <2>2. \A i \in DOMAIN queue : queue[i] \in Calls
    BY <2>1, ElementOfSeq
  <2> QED BY <2>1, <2>2 DEF IInv, QueueInv, At
<1>1. /\ active \in Nat /\ MaxActive \in Nat /\ MaxQueued \in Nat /\ IsFiniteSet(held)
      /\ active = Cardinality(held) /\ active <= MaxActive
      /\ r \in Tries /\ r[1] \in Calls
  BY CallsAssumption, TryIsPair DEF IInv, TypeOK, GateInv
<1>2. IsFiniteSet(held \ {r}) /\ Cardinality(held \ {r}) = active - 1
  BY <1>1, FS_RemoveElement
<1>3. \A d \in Calls : At(d, "queued") => d # r[1] /\ cs[d] = call[d]
  BY DEF At
<1>4. CASE Drained(r, cs)
  <2> USE DEF Drained
  <2>1. active' \in Nat
    BY <1>2, <1>4, FS_CardinalityType
  <2>2. queue' = <<>> /\ queue' \in Seq(Calls) /\ Len(queue') = 0 /\ DOMAIN queue' = {}
    BY <1>4
  <2>3. call' \in [Calls -> Record]
    BY <1>4 DEF Record, Places, Ends
  <2>4. \A d \in Calls : call'[d].pc # "queued"
    BY <1>3, <1>4 DEF At
  <2>5. GateInv'
    BY <1>1, <1>2, <1>4, <2>1, <2>2 DEF GateInv
  <2>6. QueueInv'
    BY <1>1, <2>2, <2>4 DEF QueueInv, At
  <2>7. /\ call'[r[1]] = cs[r[1]]
        /\ \A d \in Calls : d # r[1] =>
                \/ call'[d] = call[d]
                \/ At(d, "queued") /\ call'[d] = [call[d] EXCEPT !.pc = "stopped"]
        /\ \A d \in Calls : At(d, "queued") => call'[d].pc = "stopped"
    BY <1>1, <1>3, <1>4 DEF At
  <2>8. \A q \in Tries : At(q[1], "queued") => call'[q[1]].pc # "granted"
    BY <2>7, TryIsPair
  <2> QED BY <1>1, <1>4, <2>1, <2>2, <2>3, <2>5, <2>6, <2>7, <2>8 DEF IInv, TypeOK
<1>5. CASE \E k \in DOMAIN queue : Admitted(r, cs, k)
  <2>1. PICK k \in DOMAIN queue : Admitted(r, cs, k)
    BY <1>5
  <2>2. /\ active' = active /\ queue' = SubSeq(queue, k + 1, Len(queue))
        /\ held' = (held \ {r}) \cup {This(queue[k])}
        /\ call' = [d \in Calls |->
             CASE d = queue[k] -> [cs[d] EXCEPT !.pc = "granted"]
               [] d # queue[k] /\ (\E i \in 1 .. k - 1 : d = queue[i]) -> [cs[d] EXCEPT !.pc = "stopped"]
               [] OTHER -> cs[d]]
    BY <2>1 DEF Admitted
  <2> DEFINE w == queue[k]
  <2>3. w \in Calls /\ At(w, "queued") /\ w # r[1] /\ cs[w] = call[w]
    BY <1>0, <1>3
  <2>4. /\ This(w) \in Tries /\ This(w)[1] = w /\ Current(This(w)) /\ This(w) \notin held
        /\ \A q \in Tries : q = This(w) <=> Current(q) /\ q[1] = w
    <3>1. call[w].try >= 1
      BY <2>3 DEF IInv, TriesInv, TryOK, At
    <3>2. /\ This(w) \in Tries /\ This(w)[1] = w /\ Current(This(w))
          /\ \A q \in Tries : q = This(w) <=> Current(q) /\ q[1] = w
      BY <2>3, <3>1, ThisIsATry, TryIsPair DEF IInv
    <3>3. This(w) \notin held
      BY <2>3, <3>2 DEF IInv, SlotInv, Slot, At
    <3> QED BY <3>2, <3>3
  <2>5. k \in 1 .. Len(queue)
    BY <1>0
  <2>6. \A d \in Calls :
          /\ d = w => call'[d] = [call[d] EXCEPT !.pc = "granted"]
          /\ d # w /\ (\E i \in 1 .. k - 1 : d = queue[i]) => call'[d] = [call[d] EXCEPT !.pc = "stopped"]
          /\ d # w /\ ~(\E i \in 1 .. k - 1 : d = queue[i]) => call'[d] = cs[d]
    <3>1. \A i \in 1 .. k - 1 : i \in DOMAIN queue
      BY <1>0, <2>5
    <3> QED BY <1>0, <1>3, <2>2, <2>3, <3>1
  <2>7. \A d \in Calls : (\E i \in 1 .. k - 1 : d = queue[i]) => At(d, "queued") /\ d # r[1]
    <3>1. \A i \in 1 .. k - 1 : i \in DOMAIN queue
      BY <1>0, <2>5
    <3> QED BY <1>0, <3>1
  <2>8. /\ call'[r[1]] = cs[r[1]]
        /\ \A d \in Calls : d # r[1] =>
             \/ call'[d] = call[d]
             \/ At(d, "queued") /\ call'[d] = [call[d] EXCEPT !.pc = "granted"]
             \/ At(d, "queued") /\ call'[d] = [call[d] EXCEPT !.pc = "stopped"]
        /\ \A d \in Calls : At(d, "queued") /\ call'[d].pc = "granted" <=> d = w
    <3>1. call'[r[1]] = cs[r[1]]
      BY <1>1, <2>3, <2>6, <2>7
    <3>2. ASSUME NEW d \in Calls, d # r[1]
          PROVE  \/ call'[d] = call[d]
                 \/ At(d, "queued") /\ call'[d] = [call[d] EXCEPT !.pc = "granted"]
                 \/ At(d, "queued") /\ call'[d] = [call[d] EXCEPT !.pc = "stopped"]
      BY <2>3, <2>6, <2>7, <3>2
    <3>3. \A d \in Calls : call[d] \in Record
      BY DEF IInv, TypeOK
    <3>4. ASSUME NEW d \in Calls
          PROVE  At(d, "queued") /\ call'[d].pc = "granted" <=> d = w
      <4>1. CASE d = w
        <5>1. call'[d] = [call[d] EXCEPT !.pc = "granted"] /\ At(d, "queued")
          BY <2>3, <2>6, <4>1
        <5> QED BY <3>3, <3>4, <4>1, <5>1
      <4>2. CASE d # w /\ \E i \in 1 .. k - 1 : d = queue[i]
        <5>1. call'[d] = [call[d] EXCEPT !.pc = "stopped"]
          BY <2>6, <3>4, <4>2
        <5> HIDE DEF w
        <5> QED BY <3>3, <3>4, <4>2, <5>1
      <4>3. CASE d # w /\ ~\E i \in 1 .. k - 1 : d = queue[i]
        <5>1. At(d, "queued") => call'[d] = call[d]
          BY <1>3, <2>6, <3>4, <4>3
        <5> HIDE DEF w
        <5> QED BY <4>3, <5>1 DEF At
      <4> QED BY <4>1, <4>2, <4>3
    <3> QED BY <3>1, <3>2, <3>4
  <2>9. call' \in [Calls -> Record]
    <3>1. \A d \in Calls : call'[d] \in Record
      <4>1. \A d \in Calls : call[d] \in Record
        BY DEF IInv, TypeOK
      <4>3. "granted" \in Places /\ "stopped" \in Places
        BY DEF Places, Holding, Ends
      <4>4. \A d \in Calls : cs[d] \in Record
        OBVIOUS
      <4> HIDE DEF w
      <4> SUFFICES ASSUME NEW d \in Calls PROVE call'[d] \in Record
        OBVIOUS
      <4>5. CASE d = w
        <5>1. call'[d] = [call[d] EXCEPT !.pc = "granted"]
          BY <2>6, <4>5
        <5> QED BY <4>1, <4>3, <5>1 DEF Record
      <4>6. CASE d # w /\ \E i \in 1 .. k - 1 : d = queue[i]
        <5>1. call'[d] = [call[d] EXCEPT !.pc = "stopped"]
          BY <2>6, <4>6
        <5> QED BY <4>1, <4>3, <5>1 DEF Record
      <4>7. CASE d # w /\ ~\E i \in 1 .. k - 1 : d = queue[i]
        <5>1. call'[d] = cs[d]
          BY <2>6, <4>7
        <5> QED BY <4>4, <5>1
      <4> QED BY <4>5, <4>6, <4>7
    <3> HIDE DEF w
    <3>2. call' = [d \in Calls |-> call'[d]]
      BY <2>2
    <3> QED BY <3>1, <3>2
  <2>10. /\ queue' \in Seq(Calls) /\ Len(queue') = Len(queue) - k
         /\ DOMAIN queue' = 1 .. Len(queue) - k
         /\ \A i \in 1 .. Len(queue) - k : queue'[i] = queue[k + i]
    <3>1. queue' = SubSeq(queue, k + 1, Len(queue)) /\ queue \in Seq(Calls) /\ k \in 1 .. Len(queue)
      BY <1>0, <2>2, <2>5
    <3>2. /\ queue' \in Seq(Calls) /\ Len(queue') = Len(queue) - k
          /\ \A i \in 1 .. Len(queue) - k : queue'[i] = queue[k + i]
      BY <3>1, SuffixProperties
    <3> QED BY <3>2, LenProperties
  <2>11. GateInv'
    <3>1. This(w) \notin held \ {r}
      BY <2>4
    <3>2. IsFiniteSet(held') /\ Cardinality(held') = active - 1 + 1
      <4> HIDE DEF w
      <4>1. held' = (held \ {r}) \cup {This(w)}
        BY <2>2 DEF w
      <4> QED BY <1>2, <3>1, <4>1, FS_AddElement
    <3>3. queue # <<>>
      BY <1>0, <2>5
    <3> QED BY <1>1, <2>2, <3>2, <3>3 DEF IInv, GateInv
  <2>12. QueueInv'
    <3>1. \A i, j \in DOMAIN queue : queue[i] = queue[j] => i = j
      BY DEF IInv, QueueInv
    <3>2. \A i \in 1 .. Len(queue) - k : k + i \in DOMAIN queue /\ k + i # k
      BY <1>0, <2>5
    <3>3. ASSUME NEW d \in Calls
          PROVE  call'[d].pc = "queued" <=> \E i \in DOMAIN queue' : queue'[i] = d
      <4>1. CASE d = w
        <5>1. call'[d].pc = "granted"
          BY <2>8, <4>1
        <5>2. \A i \in DOMAIN queue' : queue'[i] # d
          BY <2>10, <3>1, <3>2, <4>1
        <5> QED BY <5>1, <5>2
      <4>2. CASE d # w /\ \E i \in 1 .. k - 1 : d = queue[i]
        <5>1. call'[d].pc = "stopped"
          BY <2>6, <4>2 DEF IInv, TypeOK, Record
        <5>2. PICK i \in 1 .. k - 1 : d = queue[i]
          BY <4>2
        <5>3. ASSUME NEW j \in DOMAIN queue', queue'[j] = d
              PROVE  FALSE
          <6>1. k + j \in DOMAIN queue /\ queue[k + j] = d /\ i \in DOMAIN queue
            BY <1>0, <2>5, <2>10, <3>2, <5>3
          <6>2. k + j = i
            BY <3>1, <5>2, <6>1
          <6> QED BY <2>5, <2>10, <6>2
        <5> QED BY <5>1, <5>3
      <4>3. CASE d # w /\ ~\E i \in 1 .. k - 1 : d = queue[i]
        <5>1. call'[d].pc = "queued" <=> At(d, "queued")
          BY <1>1, <1>3, <2>6, <4>3 DEF At
        <5>2. At(d, "queued") <=> \E i \in DOMAIN queue : queue[i] = d
          BY DEF IInv, QueueInv
        <5>3. ASSUME NEW i \in DOMAIN queue, queue[i] = d
              PROVE  \E j \in DOMAIN queue' : queue'[j] = d
          <6>1. i # k /\ i \notin 1 .. k - 1
            BY <4>3, <5>3
          <6>2. i - k \in 1 .. Len(queue) - k /\ k + (i - k) = i
            BY <1>0, <2>5, <6>1
          <6>3. queue'[i - k] = queue[k + (i - k)]
            BY <2>10, <6>2
          <6> QED BY <2>10, <5>3, <6>2, <6>3
        <5>4. ASSUME NEW j \in DOMAIN queue', queue'[j] = d
              PROVE  \E i \in DOMAIN queue : queue[i] = d
          BY <2>10, <3>2, <5>4
        <5> QED BY <5>1, <5>2, <5>3, <5>4
      <4> QED BY <4>1, <4>2, <4>3
    <3>4. \A i, j \in DOMAIN queue' : queue'[i] = queue'[j] => i = j
      <4> SUFFICES ASSUME NEW i \in DOMAIN queue', NEW j \in DOMAIN queue', queue'[i] = queue'[j]
                   PROVE  i = j
        OBVIOUS
      <4>1. k + i = k + j
        BY <2>10, <3>1, <3>2
      <4> QED BY <2>5, <2>10, <4>1
    <3>5. Len(queue') <= MaxQueued
      BY <1>0, <1>1, <2>5, <2>10 DEF IInv, QueueInv
    <3> QED BY <3>3, <3>4, <3>5 DEF QueueInv, At
  <2>13. \A q \in Tries : q \in held' <=>
            \/ q \in held /\ q # r
            \/ Current(q) /\ At(q[1], "queued") /\ call'[q[1]].pc = "granted"
    <3> SUFFICES ASSUME NEW q \in Tries
                 PROVE  q = This(w) <=> Current(q) /\ At(q[1], "queued") /\ call'[q[1]].pc = "granted"
      BY <2>2
    <3> QED BY <2>4, <2>8, TryIsPair
  <2>14. active' \in Nat /\ held' \in SUBSET Tries
    BY <1>1, <2>2, <2>4 DEF IInv, TypeOK
  <2> QED BY <2>8, <2>9, <2>10, <2>11, <2>12, <2>13, <2>14
<1> QED BY <1>4, <1>5, ReleaseOutcome

-----------------------------------------------------------------------------
(* The steps.                                                               *)

\* Only the current try of a call can have a browser.
LEMMA BrowserIsCurrent ==
    ASSUME SlotInv, NEW r \in Tries, browser[r] # "none"
    PROVE  Current(r)
BY DEF SlotInv, Slot

\* The end of a try: the call has a place to go, and a try more only if it may.
LEMMA AfterProperties ==
    ASSUME IInv, NEW c \in Calls, NEW got \in Results, call[c].try >= 1
    PROVE  \E m \in Record :
              /\ After(c, got) = [call EXCEPT ![c] = m]
              /\ m.try = call[c].try /\ TryOK(m, MaxTries[c])
              /\ m.pc \in {"stopped", "confirm", "recheck", "failed"}
              /\ got = "unsafe" => m.pc \in {"failed", "stopped"}
<1> DEFINE then == CASE Stopped(c)                      -> "stopped"
                     [] ~Stopped(c) /\ got = "ok"       -> "confirm"
                     [] ~Stopped(c) /\ Retries(c, got)  -> "recheck"
                     [] OTHER                           -> "failed"
           m == [call[c] EXCEPT !.pc = then, !.got = "none"]
<1>1. /\ then \in {"stopped", "confirm", "recheck", "failed"}
      /\ then = "recheck" => call[c].try < MaxTries[c] /\ got = "retryable"
      /\ then = "confirm" => got = "ok"
  BY DEF Retries
<1>2. After(c, got) = [call EXCEPT ![c] = m]
  <2>1. \A p : [call EXCEPT ![c].pc = p, ![c].got = "none"]
              = [call EXCEPT ![c] = [call[c] EXCEPT !.pc = p, !.got = "none"]]
    BY DEF IInv, TypeOK
  <2>2. After(c, got) = [call EXCEPT ![c].pc = then, ![c].got = "none"]
    BY DEF After
  <2> QED BY <2>1, <2>2
<1>3. call[c] \in Record /\ TryOK(call[c], MaxTries[c])
  BY DEF IInv, TypeOK, TriesInv
<1> HIDE DEF then
<1>4. m \in Record /\ m.pc = then /\ m.try = call[c].try
  BY <1>1, <1>3 DEF Record, Places, Ends, Repeating, Results
<1>5. TryOK(m, MaxTries[c])
  BY <1>1, <1>3, <1>4 DEF TryOK, Repeating
<1> HIDE DEF m
<1> QED BY <1>1, <1>2, <1>4, <1>5

\* A step of one call that touches neither the gate nor a browser, between two
\* places where its try has none.
LEMMA QuietKeeps ==
    ASSUME IInv, NEW c \in Calls, NEW m \in Record, call' = [call EXCEPT ![c] = m],
           scope' \in [Calls -> {"open", "late", "aborted"}],
           UNCHANGED <<gateVars, browser, watched>>,
           TryOK(m, MaxTries[c]),
           call[c].pc \notin Holding \cup {"queued", "failed", "stopped"},
           m.pc \notin Holding \cup {"queued"}
    PROVE  IInv'
<1>1. TypeOK'
  BY DEF IInv, TypeOK, gateVars
<1>2. TriesInv'
  BY DEF IInv, TypeOK, TriesInv
<1>3. SlotInv'
  <2> SUFFICES ASSUME NEW r \in Tries PROVE Slot(r)'
    BY DEF SlotInv
  <2>1. Slot(r) /\ r[1] \in Calls
    BY TryIsPair DEF IInv, SlotInv
  <2>2. CASE r[1] = c
    BY <2>1, <2>2 DEF IInv, TypeOK, Slot, Current, Holding, gateVars
  <2>3. CASE r[1] # c
    BY <2>1, <2>3 DEF IInv, TypeOK, Slot, Current, gateVars
  <2> QED BY <2>2, <2>3
<1>4. GateInv'
  BY DEF IInv, GateInv, gateVars
<1>5. QueueInv'
  <2>1. \A d \in Calls : call'[d].pc = "queued" <=> call[d].pc = "queued"
    BY DEF IInv, TypeOK
  <2> QED BY <2>1 DEF IInv, QueueInv, At, gateVars
<1> QED BY <1>1, <1>2, <1>3, <1>4, <1>5 DEF IInv

\* A step at the current try of one call, that leaves the gate alone.
LEMMA OneTryKeeps ==
    ASSUME IInv, NEW r \in Tries, NEW c, r[1] = c, Current(r), UNCHANGED <<scope, gateVars>>,
           NEW m \in Record, call' = [call EXCEPT ![c] = m],
           m.try = call[c].try, TryOK(m, MaxTries[c]),
           call[c].pc # "queued", m.pc # "queued",
           browser' \in [Tries -> {"none", "launching", "up"}], watched' \in SUBSET Tries,
           \A q \in Tries : q # r => browser'[q] = browser[q] /\ (q \in watched' <=> q \in watched),
           Slot(r)'
    PROVE  IInv'
<1>0. c \in Calls
  BY TryIsPair
<1>1. TypeOK'
  BY <1>0 DEF IInv, TypeOK, gateVars
<1>2. TriesInv'
  BY <1>0 DEF IInv, TypeOK, TriesInv
<1>3. SlotInv'
  <2> SUFFICES ASSUME NEW q \in Tries, q # r PROVE Slot(q)'
    BY DEF SlotInv
  <2>1. Slot(q) /\ q[1] \in Calls
    BY TryIsPair DEF IInv, SlotInv
  <2>2. CASE q[1] = c
    <3>1. ~Current(q)
      BY <2>2, TryIsPair DEF Current
    <3>2. ~Current(q)'
      BY <1>0, <2>2, <3>1 DEF Current, IInv, TypeOK
    <3> QED BY <2>1, <3>1, <3>2 DEF Slot, gateVars
  <2>3. CASE q[1] # c
    <3>1. call'[q[1]] = call[q[1]]
      BY <2>1, <2>3 DEF IInv, TypeOK
    <3> QED BY <2>1, <3>1 DEF Slot, Current, gateVars
  <2> QED BY <2>2, <2>3
<1>4. GateInv'
  BY DEF IInv, GateInv, gateVars
<1>5. QueueInv'
  <2>1. \A d \in Calls : call'[d].pc = "queued" <=> call[d].pc = "queued"
    BY DEF IInv, TypeOK
  <2> QED BY <2>1 DEF IInv, QueueInv, At, gateVars
<1> QED BY <1>1, <1>2, <1>3, <1>4, <1>5 DEF IInv

\* The end of the browser of a current try, with the release of its slot.
LEMMA ReleaseStepKeeps ==
    ASSUME IInv, NEW r \in Tries, Current(r), scope' = scope,
           NEW cs \in [Calls -> Record], Release(r, cs),
           \A d \in Calls : d # r[1] => cs[d] = call[d],
           cs[r[1]].try = call[r[1]].try, TryOK(cs[r[1]], MaxTries[r[1]]),
           call[r[1]].pc # "queued",
           cs[r[1]].pc \notin (Holding \ {"closing"}) \cup {"queued"},
           browser' \in [Tries -> {"none", "launching", "up"}], browser'[r] = "none",
           \A q \in Tries : q # r => browser'[q] = browser[q],
           watched' = watched \ {r}
    PROVE  IInv'
<1> DEFINE c == r[1]
<1>0. c \in Calls
  BY TryIsPair
<1>1. /\ active' \in Nat /\ queue' \in Seq(Calls) /\ held' \in SUBSET Tries
      /\ call' \in [Calls -> Record] /\ GateInv' /\ QueueInv'
      /\ call'[c] = cs[c]
      /\ \A d \in Calls : d # c =>
           \/ call'[d] = call[d]
           \/ At(d, "queued") /\ call'[d] = [call[d] EXCEPT !.pc = "granted"]
           \/ At(d, "queued") /\ call'[d] = [call[d] EXCEPT !.pc = "stopped"]
      /\ \A q \in Tries : q \in held' <=>
           \/ q \in held /\ q # r
           \/ Current(q) /\ At(q[1], "queued") /\ call'[q[1]].pc = "granted"
  <2>1. CASE r \in held
    BY <2>1, ReleaseKeeps
  <2>2. CASE r \notin held
    <3>1. call' = cs /\ active' = active /\ queue' = queue /\ held' = held
      BY <2>2 DEF Release, gateVars
    <3>2. \A d \in Calls : call'[d].pc = "queued" <=> call[d].pc = "queued"
      BY <1>0, <3>1
    <3>3. GateInv' /\ QueueInv'
      BY <3>1, <3>2 DEF IInv, GateInv, QueueInv, At
    <3>4. \A q \in Tries : ~(At(q[1], "queued") /\ call'[q[1]].pc = "granted")
      BY <3>1, <3>2, TryIsPair DEF At
    <3> QED BY <1>0, <2>2, <3>1, <3>3, <3>4 DEF IInv, TypeOK
  <2> QED BY <2>1, <2>2
<1>2. TypeOK'
  BY <1>1 DEF IInv, TypeOK
<1>3. \A d \in Calls : call'[d].try = call[d].try
  <2> SUFFICES ASSUME NEW d \in Calls PROVE call'[d].try = call[d].try
    OBVIOUS
  <2>1. call[d] \in Record
    BY DEF IInv, TypeOK
  <2>3. CASE d = c
    BY <1>1, <2>3
  <2>4. CASE d # c
    BY <1>1, <2>1, <2>4 DEF Record
  <2> QED BY <2>3, <2>4
<1>4. TriesInv'
  <2> SUFFICES ASSUME NEW d \in Calls PROVE TryOK(call'[d], MaxTries[d])
    BY DEF TriesInv
  <2>1. TryOK(call[d], MaxTries[d]) /\ call[d] \in Record
    BY DEF IInv, TypeOK, TriesInv
  <2>2. CASE d = c
    BY <1>1, <2>2
  <2>3. CASE d # c
    <3>1. call'[d].try = call[d].try
      BY <1>3
    <3>2. \/ call'[d] = call[d]
          \/ call[d].pc = "queued" /\ call'[d].pc = "granted"
          \/ call[d].pc = "queued" /\ call'[d].pc = "stopped"
      BY <1>1, <2>1, <2>3 DEF At, Record
    <3> QED BY <2>1, <3>1, <3>2 DEF TryOK, Repeating
  <2> QED BY <2>2, <2>3
<1>5. SlotInv'
  <2> SUFFICES ASSUME NEW q \in Tries PROVE Slot(q)'
    BY DEF SlotInv
  <2>1. Slot(q) /\ q[1] \in Calls /\ (Current(q)' <=> Current(q))
    BY <1>3, TryIsPair DEF IInv, SlotInv, Current
  <2>2. CASE q = r
    <3>1. q \notin held'
      BY <1>1, <2>2 DEF At
    <3>2. q \notin watched' /\ browser'[q] = "none"
      BY <2>2
    <3>3. call'[q[1]].pc \notin Holding \ {"closing"}
      BY <1>1, <2>2
    <3> QED BY <3>1, <3>2, <3>3 DEF Slot, Holding
  <2>3. CASE q # r /\ q[1] = c
    <3>1. ~Current(q)
      BY <2>3, TryIsPair DEF Current
    <3>2. (q \in held' <=> q \in held) /\ (q \in watched' <=> q \in watched) /\ browser'[q] = browser[q]
      BY <1>1, <2>3, <3>1
    <3> QED BY <2>1, <3>1, <3>2 DEF Slot
  <2>4. CASE q[1] # c /\ call'[q[1]] = call[q[1]]
    <3>1. (q \in held' <=> q \in held) /\ (q \in watched' <=> q \in watched) /\ browser'[q] = browser[q]
      BY <1>1, <2>4 DEF At
    <3> QED BY <2>1, <2>4, <3>1 DEF Slot
  <2>5. CASE q[1] # c /\ At(q[1], "queued") /\ call'[q[1]] = [call[q[1]] EXCEPT !.pc = "granted"]
    <3>0. call[q[1]] \in Record
      BY <2>1 DEF IInv, TypeOK
    <3>1. call'[q[1]].pc = "granted"
      BY <2>5, <3>0 DEF Record
    <3>2. q \notin held /\ q \notin watched /\ browser[q] = "none"
      BY <2>1, <2>5 DEF Slot, At
    <3>3. (q \in held' <=> Current(q)) /\ q \notin watched' /\ browser'[q] = "none"
      BY <1>1, <2>5, <3>1, <3>2
    <3> QED BY <2>1, <3>1, <3>3 DEF Slot
  <2>6. CASE q[1] # c /\ At(q[1], "queued") /\ call'[q[1]] = [call[q[1]] EXCEPT !.pc = "stopped"]
    <3>0. call[q[1]] \in Record
      BY <2>1 DEF IInv, TypeOK
    <3>1. call'[q[1]].pc = "stopped"
      BY <2>6, <3>0 DEF Record
    <3>2. q \notin held /\ q \notin watched /\ browser[q] = "none"
      BY <2>1, <2>6 DEF Slot, At
    <3>3. q \notin held' /\ q \notin watched' /\ browser'[q] = "none"
      BY <1>1, <2>6, <3>1, <3>2
    <3> QED BY <2>1, <3>1, <3>3 DEF Slot
  <2> QED BY <1>1, <2>1, <2>2, <2>3, <2>4, <2>5, <2>6
<1> QED BY <1>1, <1>2, <1>4, <1>5 DEF IInv

\* A new place for a call, and nothing else of it.
LEMMA GoProperties ==
    ASSUME TypeOK, NEW c \in Calls, NEW pc \in Places
    PROVE  \E m \in Record :
              /\ m.pc = pc /\ m.try = call[c].try
              /\ Go(c, pc) <=> call' = [call EXCEPT ![c] = m]
<1> DEFINE m == [call[c] EXCEPT !.pc = pc]
<1>1. m \in Record /\ m.pc = pc /\ m.try = call[c].try
  BY DEF TypeOK, Record
<1>2. [call EXCEPT ![c].pc = pc] = [call EXCEPT ![c] = m]
  BY DEF TypeOK
<1> QED BY <1>1, <1>2 DEF Go

LEMMA AskLeaseKeeps == ASSUME IInv, NEW c \in Calls, AskLease(c) PROVE IInv'
<1>0. /\ call[c] \in Record /\ TryOK(call[c], MaxTries[c]) /\ TypeOK /\ MaxTries[c] \in Nat \ {0}
      /\ call[c].pc \in {"require", "check", "recheck", "again", "confirm"}
      /\ UNCHANGED <<gateVars, browser, watched>>
  BY CallsAssumption DEF IInv, TypeOK, TriesInv, AskLease, Follows
<1>1. call[c].pc \notin Holding \cup {"queued", "failed", "stopped"}
  BY <1>0 DEF Holding
<1>2. scope' \in [Calls -> {"open", "late", "aborted"}]
  BY DEF AskLease, IInv, TypeOK
<1>3. CASE Go(c, "stopped")
  <2>1. PICK m \in Record : m.pc = "stopped" /\ m.try = call[c].try /\ call' = [call EXCEPT ![c] = m]
    BY <1>0, <1>3, GoProperties DEF Places, Ends
  <2>2. TryOK(m, MaxTries[c]) /\ m.pc \notin Holding \cup {"queued"}
    BY <1>0, <2>1 DEF TryOK, Repeating, Holding
  <2> QED BY <1>0, <1>1, <1>2, <2>1, <2>2, QuietKeeps
<1>4. CASE GoOn(c)
  <2> DEFINE then == Follows[call[c].pc]
             t == IF then = "acquire" THEN call[c].try + 1 ELSE call[c].try
             m == [call[c] EXCEPT !.pc = then, !.try = t]
  <2>1. /\ call[c].pc = "require" => then = "check"
        /\ call[c].pc = "check" => then = "acquire"
        /\ call[c].pc = "recheck" => then = "sleep"
        /\ call[c].pc = "again" => then = "acquire"
        /\ call[c].pc = "confirm" => then = "publish"
    BY DEF Follows
  <2>2. call' = [call EXCEPT ![c] = m]
    BY <1>4 DEF GoOn, IInv, TypeOK
  <2> HIDE DEF then
  <2>3. then \in Places /\ then \notin Holding \cup {"queued"}
    BY <1>0, <2>1 DEF Places, Holding, Repeating
  <2>4. m \in Record /\ m.pc = then /\ m.try = IF then = "acquire" THEN call[c].try + 1 ELSE call[c].try
    <3>1. t \in Nat
      BY <1>0 DEF Record
    <3> HIDE DEF t
    <3>2. m \in Record /\ m.pc = then /\ m.try = t
      BY <1>0, <2>3, <3>1 DEF Record
    <3> QED BY <3>2 DEF t
  <2>5. TryOK(m, MaxTries[c])
    BY <1>0, <2>1, <2>4 DEF TryOK, Repeating, Record
  <2> HIDE DEF m
  <2> QED BY <1>0, <1>1, <1>2, <2>2, <2>3, <2>4, <2>5, QuietKeeps
<1> QED BY <1>3, <1>4 DEF AskLease

LEMMA QuietStepsKeep ==
    ASSUME IInv, NEW c \in Calls, NoPages(c) \/ Sleep(c) \/ Publish(c)
    PROVE  IInv'
<1>0. /\ call[c] \in Record /\ TryOK(call[c], MaxTries[c]) /\ TypeOK
      /\ call[c].pc \in {"acquire", "sleep", "publish"}
      /\ UNCHANGED <<scope, gateVars, browser, watched>>
  BY DEF IInv, TypeOK, TriesInv, NoPages, Sleep, Publish, At
<1>1. call[c].pc \notin Holding \cup {"queued", "failed", "stopped"} /\ call[c].try >= 1
  BY <1>0 DEF Holding, TryOK
<1>2. scope' \in [Calls -> {"open", "late", "aborted"}]
  BY <1>0 DEF TypeOK
<1>3. \E m \in Record : /\ call' = [call EXCEPT ![c] = m] /\ TryOK(m, MaxTries[c])
                        /\ m.pc \notin Holding \cup {"queued"}
  <2>1. CASE NoPages(c)
    <3>1. PICK got \in {"retryable", "fatal"} : call' = After(c, got)
      BY <2>1 DEF NoPages
    <3>2. got \in Results
      BY DEF Results
    <3> QED BY <1>1, <3>1, <3>2, AfterProperties DEF Holding
  <2>2. CASE Sleep(c) \/ Publish(c)
    <3>1. PICK pc \in {"stopped", "again", "ok", "failed"} : Go(c, pc) /\ (pc = "again" => At(c, "sleep"))
      BY <2>2 DEF Sleep, Publish
    <3>2. PICK m \in Record : m.pc = pc /\ m.try = call[c].try /\ call' = [call EXCEPT ![c] = m]
      BY <1>0, <3>1, GoProperties DEF Places, Ends, Repeating
    <3>3. TryOK(m, MaxTries[c]) /\ m.pc \notin Holding \cup {"queued"}
      BY <1>0, <3>1, <3>2 DEF TryOK, Repeating, Holding, At
    <3> QED BY <3>2, <3>3
  <2> QED BY <2>1, <2>2
<1> QED BY <1>0, <1>1, <1>2, <1>3, QuietKeeps

LEMMA AcquireKeeps == ASSUME IInv, NEW c \in Calls, Acquire(c) PROVE IInv'
<1>0. /\ call[c] \in Record /\ TryOK(call[c], MaxTries[c]) /\ TypeOK /\ TriesInv
      /\ call[c].pc = "acquire" /\ UNCHANGED <<scope, browser, watched>>
      /\ active \in Nat /\ MaxActive \in Nat /\ MaxQueued \in Nat /\ queue \in Seq(Calls)
      /\ Len(queue) \in Nat /\ DOMAIN queue = 1 .. Len(queue)
  BY CallsAssumption, LenProperties DEF IInv, TypeOK, TriesInv, Acquire, At
<1>1. call[c].pc \notin Holding \cup {"queued", "failed", "stopped"} /\ call[c].try >= 1
  BY <1>0 DEF Holding, TryOK
<1>2. CASE UNCHANGED gateVars /\ \E got \in Results : call' = After(c, got)
  <2>1. \E m \in Record : /\ call' = [call EXCEPT ![c] = m] /\ TryOK(m, MaxTries[c])
                          /\ m.pc \notin Holding \cup {"queued"}
    BY <1>1, <1>2, AfterProperties DEF Holding
  <2>2. scope' \in [Calls -> {"open", "late", "aborted"}]
    BY <1>0 DEF TypeOK
  <2> QED BY <1>0, <1>1, <1>2, <2>1, <2>2, QuietKeeps
<1>3. CASE /\ ~Stopped(c) /\ active < MaxActive
           /\ active' = active + 1 /\ held' = held \cup {This(c)}
           /\ Go(c, "granted") /\ UNCHANGED queue
  <2>1. PICK m \in Record : m.pc = "granted" /\ m.try = call[c].try /\ call' = [call EXCEPT ![c] = m]
    BY <1>0, <1>3, GoProperties DEF Places, Holding
  <2>2. TryOK(m, MaxTries[c])
    BY <1>0, <2>1 DEF TryOK, Repeating
  <2>3. /\ This(c) \in Tries /\ This(c)[1] = c /\ Current(This(c))
        /\ \A r \in Tries : r = This(c) <=> Current(r) /\ r[1] = c
    BY <1>0, <1>1, ThisIsATry, TryIsPair
  <2>4. This(c) \notin held
    BY <1>0, <2>3 DEF IInv, SlotInv, Slot
  <2>5. TypeOK'
    BY <1>0, <1>3, <2>1, <2>3 DEF TypeOK
  <2>6. TriesInv'
    BY <1>0, <2>1, <2>2 DEF TriesInv, TypeOK
  <2>7. \A d \in Calls : call'[d].try = call[d].try
    BY <1>0, <2>1 DEF TypeOK
  <2>8. SlotInv'
    <3> SUFFICES ASSUME NEW r \in Tries PROVE Slot(r)'
      BY DEF SlotInv
    <3>1. Slot(r) /\ r[1] \in Calls /\ (Current(r)' <=> Current(r))
      BY <2>7, TryIsPair DEF IInv, SlotInv, Current
    <3>2. CASE r = This(c)
      <4>1. call'[r[1]].pc = "granted" /\ r \in held' /\ r \notin watched' /\ browser'[r] = "none"
        BY <1>0, <1>3, <2>1, <2>3, <3>1, <3>2 DEF Slot, TypeOK
      <4>2. Current(r)'
        BY <2>3, <3>1, <3>2
      <4> QED BY <4>1, <4>2 DEF Slot
    <3>3. CASE r # This(c) /\ r[1] = c
      <4>1. ~Current(r) /\ (r \in held' <=> r \in held)
        BY <1>3, <2>3, <3>3
      <4> QED BY <1>0, <3>1, <4>1 DEF Slot
    <3>4. CASE r[1] # c
      <4>1. call'[r[1]] = call[r[1]] /\ (r \in held' <=> r \in held)
        BY <1>0, <1>3, <2>1, <2>3, <3>1, <3>4 DEF TypeOK
      <4> QED BY <1>0, <3>1, <4>1 DEF Slot
    <3> QED BY <3>2, <3>3, <3>4
  <2>9. GateInv'
    <3>1. IsFiniteSet(held') /\ Cardinality(held') = Cardinality(held) + 1
      BY <1>3, <2>4, FS_AddElement DEF IInv, GateInv
    <3> QED BY <1>0, <1>3, <3>1 DEF IInv, GateInv
  <2>10. QueueInv'
    <3>1. \A d \in Calls : call'[d].pc = "queued" <=> call[d].pc = "queued"
      BY <1>0, <2>1 DEF TypeOK
    <3> QED BY <1>3, <3>1 DEF IInv, QueueInv, At
  <2> QED BY <2>5, <2>6, <2>8, <2>9, <2>10 DEF IInv
<1>4. CASE /\ ~Stopped(c) /\ active >= MaxActive /\ Len(queue) < MaxQueued
           /\ queue' = Append(queue, c) /\ Go(c, "queued") /\ UNCHANGED <<active, held>>
  <2>1. PICK m \in Record : m.pc = "queued" /\ m.try = call[c].try /\ call' = [call EXCEPT ![c] = m]
    BY <1>0, <1>4, GoProperties DEF Places
  <2>2. TryOK(m, MaxTries[c])
    BY <1>0, <2>1 DEF TryOK, Repeating
  <2>3. /\ queue' \in Seq(Calls) /\ Len(queue') = Len(queue) + 1
        /\ \A i \in 1 .. Len(queue) : queue'[i] = queue[i]
        /\ queue'[Len(queue) + 1] = c
    BY <1>0, <1>4, AppendProperties
  <2>4. DOMAIN queue' = 1 .. Len(queue) + 1
    BY <2>3, LenProperties
  <2>5. TypeOK'
    BY <1>0, <1>4, <2>1, <2>3 DEF TypeOK
  <2>6. TriesInv'
    BY <1>0, <2>1, <2>2 DEF TriesInv, TypeOK
  <2>7. SlotInv'
    <3> SUFFICES ASSUME NEW r \in Tries PROVE Slot(r)'
      BY DEF SlotInv
    <3>1. Slot(r) /\ r[1] \in Calls
      BY TryIsPair DEF IInv, SlotInv
    <3>2. CASE r[1] = c
      BY <1>0, <1>4, <2>1, <3>1, <3>2 DEF Slot, Current, TypeOK
    <3>3. CASE r[1] # c
      BY <1>0, <1>4, <2>1, <3>1, <3>3 DEF Slot, Current, TypeOK
    <3> QED BY <3>2, <3>3
  <2>8. GateInv'
    BY <1>0, <1>4 DEF IInv, GateInv
  <2>9. QueueInv'
    <3>1. \A i \in DOMAIN queue : queue[i] \in Calls /\ queue[i] # c
      BY <1>0, ElementOfSeq DEF IInv, QueueInv, At
    <3>2. ASSUME NEW d \in Calls
          PROVE  call'[d].pc = "queued" <=> \E i \in DOMAIN queue' : queue'[i] = d
      <4>1. CASE d = c
        <5>1. call'[d].pc = "queued"
          BY <1>0, <2>1, <4>1 DEF TypeOK
        <5> QED BY <1>0, <2>3, <2>4, <4>1, <5>1
      <4>2. CASE d # c
        <5>1. call'[d].pc = "queued" <=> \E i \in DOMAIN queue : queue[i] = d
          BY <1>0, <2>1, <4>2 DEF TypeOK, IInv, QueueInv, At
        <5>2. \A i \in DOMAIN queue' : i \in DOMAIN queue \/ i = Len(queue) + 1
          BY <1>0, <2>4
        <5>3. \A i \in DOMAIN queue : i \in DOMAIN queue' /\ queue'[i] = queue[i]
          BY <1>0, <2>3, <2>4
        <5> QED BY <2>3, <4>2, <5>1, <5>2, <5>3
      <4> QED BY <4>1, <4>2
    <3>3. \A i, j \in DOMAIN queue' : queue'[i] = queue'[j] => i = j
      <4> SUFFICES ASSUME NEW i \in DOMAIN queue', NEW j \in DOMAIN queue', queue'[i] = queue'[j]
                   PROVE  i = j
        OBVIOUS
      <4>1. /\ (i \in DOMAIN queue /\ queue'[i] = queue[i]) \/ i = Len(queue) + 1
            /\ (j \in DOMAIN queue /\ queue'[j] = queue[j]) \/ j = Len(queue) + 1
        BY <1>0, <2>3, <2>4
      <4> QED BY <2>3, <3>1, <4>1 DEF IInv, QueueInv
    <3>4. Len(queue') <= MaxQueued
      BY <1>0, <1>4, <2>3
    <3> QED BY <3>2, <3>3, <3>4 DEF QueueInv, At
  <2> QED BY <2>5, <2>6, <2>7, <2>8, <2>9 DEF IInv
<1>5. "aborted" \in Results /\ "retryable" \in Results
  BY DEF Results
<1> QED BY <1>0, <1>2, <1>3, <1>4, <1>5 DEF Acquire

LEMMA ClosingProperties ==
    ASSUME TypeOK, NEW c \in Calls, NEW got \in Results, Closing(c, got)
    PROVE  \E m \in Record : m.pc = "closing" /\ m.try = call[c].try /\ call' = [call EXCEPT ![c] = m]
<1> DEFINE m == [call[c] EXCEPT !.pc = "closing", !.got = got]
<1>1. m \in Record /\ m.pc = "closing" /\ m.try = call[c].try
  BY DEF TypeOK, Record, Places, Holding
<1>2. call' = [call EXCEPT ![c] = m]
  BY DEF TypeOK, Closing
<1> QED BY <1>1, <1>2

\* A waiter leaves, for a place where its try is over.
LEMMA LeavingKeeps ==
    ASSUME IInv, NEW c \in Calls, At(c, "queued"),
           scope' \in [Calls -> {"open", "late", "aborted"}], UNCHANGED <<browser, watched>>,
           NEW cs, LeaveQueue(c, cs), NEW m \in Record, cs = [call EXCEPT ![c] = m],
           m.try = call[c].try, TryOK(m, MaxTries[c]),
           m.pc \in {"stopped", "confirm", "recheck", "failed"}
    PROVE  IInv'
<1>1. cs \in [Calls -> Record] /\ cs[c] = m /\ \A d \in Calls \ {c} : cs[d] = call[d]
  BY DEF IInv, TypeOK
<1>2. /\ active' \in Nat /\ queue' \in Seq(Calls) /\ held' = held /\ call' = cs
      /\ GateInv' /\ QueueInv'
  BY <1>1, LeaveQueueKeeps
<1>3. TypeOK'
  BY <1>1, <1>2 DEF IInv, TypeOK
<1>4. TriesInv'
  BY <1>1, <1>2 DEF IInv, TriesInv
<1>5. SlotInv'
  <2> SUFFICES ASSUME NEW r \in Tries PROVE Slot(r)'
    BY DEF SlotInv
  <2>1. Slot(r) /\ r[1] \in Calls
    BY TryIsPair DEF IInv, SlotInv
  <2>2. CASE r[1] = c
    BY <1>1, <1>2, <2>1, <2>2 DEF Slot, At
  <2>3. CASE r[1] # c
    BY <1>1, <1>2, <2>1, <2>3 DEF Slot, Current
  <2> QED BY <2>2, <2>3
<1> QED BY <1>2, <1>3, <1>4, <1>5 DEF IInv

LEMMA QueueTimerKeeps == ASSUME IInv, NEW c \in Calls, QueueTimer(c) PROVE IInv'
<1> DEFINE cs == After(c, "retryable")
<1>0. /\ call[c] \in Record /\ TryOK(call[c], MaxTries[c]) /\ TypeOK /\ TriesInv
      /\ At(c, "queued") /\ call[c].pc = "queued" /\ UNCHANGED <<scope, browser, watched>>
      /\ LeaveQueue(c, cs)
  BY DEF IInv, TypeOK, TriesInv, QueueTimer, At
<1>1. call[c].try >= 1 /\ "retryable" \in Results
  BY <1>0 DEF TryOK, Results
<1>2. PICK m \in Record : /\ cs = [call EXCEPT ![c] = m]
                          /\ m.try = call[c].try /\ TryOK(m, MaxTries[c])
                          /\ m.pc \in {"stopped", "confirm", "recheck", "failed"}
  BY <1>1, AfterProperties
<1> HIDE DEF cs
<1>3. scope' \in [Calls -> {"open", "late", "aborted"}]
  BY <1>0 DEF TypeOK
<1> QED BY <1>0, <1>2, <1>3, LeavingKeeps

LEMMA TimeKeeps ==
    ASSUME IInv, NEW c \in Calls, DeadlinePasses(c) \/ Abort(c)
    PROVE  IInv'
<1>0. scope' \in [Calls -> {"open", "late", "aborted"}] /\ UNCHANGED <<browser, watched>>
  BY DEF DeadlinePasses, Abort, IInv, TypeOK
<1>1. CASE UNCHANGED <<call, gateVars>>
  BY <1>0, <1>1 DEF IInv, TypeOK, TriesInv, SlotInv, Slot, Current, GateInv, QueueInv, At, gateVars
<1>2. CASE At(c, "queued") /\ LeaveQueue(c, [call EXCEPT ![c].pc = "stopped"])
  <2> DEFINE cs == [call EXCEPT ![c].pc = "stopped"]
             m == [call[c] EXCEPT !.pc = "stopped"]
  <2>0. call[c] \in Record /\ TryOK(call[c], MaxTries[c]) /\ TypeOK
    BY DEF IInv, TypeOK, TriesInv
  <2>1. m \in Record /\ m.pc = "stopped" /\ m.try = call[c].try
    BY <2>0 DEF Record, Places, Ends
  <2>2. cs = [call EXCEPT ![c] = m]
    BY <2>0 DEF TypeOK
  <2> HIDE DEF m
  <2>3. TryOK(m, MaxTries[c])
    BY <2>0, <2>1 DEF TryOK, Repeating
  <2>4. LeaveQueue(c, cs)
    BY <1>2
  <2> HIDE DEF cs
  <2> QED BY <1>0, <1>2, <2>1, <2>2, <2>3, <2>4, LeavingKeeps
<1> QED BY <1>1, <1>2 DEF DeadlinePasses, Abort

LEMMA LaunchKeeps ==
    ASSUME IInv, NEW c \in Calls, Launch(c) \/ LaunchGivenUp(c) \/ Pages(c)
    PROVE  IInv'
<1>0. /\ call[c] \in Record /\ TryOK(call[c], MaxTries[c]) /\ TypeOK /\ TriesInv
      /\ call[c].pc \in {"granted", "launch", "pages"} /\ UNCHANGED <<scope, gateVars>>
  BY DEF IInv, TypeOK, TriesInv, Launch, LaunchGivenUp, Pages, At
<1>1. call[c].try >= 1
  BY <1>0 DEF TryOK
<1>2. PICK r \in Tries : r = This(c) /\ r[1] = c /\ Current(r)
  BY <1>0, <1>1, ThisIsATry
<1>3. /\ r \in held /\ r \notin watched /\ browser[r] \in {"none", "launching", "up"}
      /\ call[c].pc = "granted" => browser[r] = "none"
      /\ call[c].pc = "launch" => browser[r] = "launching"
      /\ call[c].pc = "pages" => browser[r] # "launching"
  BY <1>0, <1>2 DEF IInv, SlotInv, Slot, TypeOK
<1>4. CASE \E pc \in {"launch", "abandon"} :
             /\ Go(c, pc) /\ call[c].pc \in {"granted", "launch"} /\ UNCHANGED watched
             /\ pc = "launch" => browser' = [browser EXCEPT ![r] = "launching"]
             /\ pc = "abandon" => UNCHANGED browser
  <2>1. PICK pc \in {"launch", "abandon"} :
             /\ Go(c, pc) /\ call[c].pc \in {"granted", "launch"} /\ UNCHANGED watched
             /\ pc = "launch" => browser' = [browser EXCEPT ![r] = "launching"]
             /\ pc = "abandon" => UNCHANGED browser
    BY <1>4
  <2>2. PICK m \in Record : m.pc = pc /\ m.try = call[c].try /\ call' = [call EXCEPT ![c] = m]
    BY <1>0, <2>1, GoProperties DEF Places, Holding
  <2>3. TryOK(m, MaxTries[c]) /\ m.pc # "queued"
    BY <1>0, <1>1, <2>2 DEF TryOK, Repeating
  <2>4. /\ browser' \in [Tries -> {"none", "launching", "up"}] /\ watched' \in SUBSET Tries
        /\ \A q \in Tries : q # r => browser'[q] = browser[q] /\ (q \in watched' <=> q \in watched)
        /\ pc = "launch" => browser'[r] = "launching"
    BY <1>0, <1>2, <2>1 DEF TypeOK
  <2>5. Slot(r)'
    <3>1. call'[c].pc = pc /\ call'[c].try = call[c].try /\ r \in held' /\ r \notin watched'
      BY <1>0, <1>3, <2>1, <2>2 DEF TypeOK, gateVars
    <3>2. Current(r)'
      BY <1>2, <3>1 DEF Current
    <3> QED BY <1>2, <2>1, <2>4, <3>1, <3>2 DEF Slot
  <2> QED BY <1>0, <1>2, <2>2, <2>3, <2>4, <2>5, OneTryKeeps
<1>5. CASE Pages(c)
  <2>1. PICK got \in Results : Closing(c, got)
    BY <1>5 DEF Pages, Results
  <2>2. call[c].pc = "pages" /\ browser' = browser /\ watched' = watched \cup {r}
    BY <1>2, <1>5, <2>1 DEF Pages, Closing, At
  <2>4. PICK m \in Record : m.pc = "closing" /\ m.try = call[c].try /\ call' = [call EXCEPT ![c] = m]
    BY <1>0, <2>1, ClosingProperties
  <2>3. Slot(r)' /\ watched' \in SUBSET Tries
        /\ \A q \in Tries : q # r => (q \in watched' <=> q \in watched)
    <3>1. call'[c].pc = "closing" /\ call'[c].try = call[c].try
      BY <1>0, <2>4 DEF TypeOK
    <3>2. r \in held' /\ r \in watched' /\ browser'[r] = browser[r]
      BY <1>0, <1>3, <2>2 DEF gateVars
    <3>3. Current(r)'
      BY <1>2, <3>1 DEF Current
    <3>4. Slot(r)'
      BY <1>0, <1>2, <1>3, <2>2, <3>1, <3>2, <3>3 DEF Slot
    <3> QED BY <1>0, <1>2, <2>2, <3>4 DEF TypeOK
  <2>5. TryOK(m, MaxTries[c]) /\ m.pc # "queued"
    BY <1>0, <1>1, <2>4 DEF TryOK, Repeating
  <2> QED BY <1>0, <1>2, <2>2, <2>3, <2>4, <2>5, OneTryKeeps DEF TypeOK
<1> QED BY <1>0, <1>2, <1>4, <1>5 DEF Launch, LaunchGivenUp, At

LEMMA LaunchSucceedsKeeps == ASSUME IInv, NEW r \in Tries, LaunchSucceeds(r) PROVE IInv'
<1> DEFINE c == r[1]
           waits == At(c, "launch") /\ r = This(c)
<1>0. /\ c \in Calls /\ call[c] \in Record /\ TryOK(call[c], MaxTries[c]) /\ TypeOK /\ TriesInv
      /\ browser[r] = "launching" /\ browser' = [browser EXCEPT ![r] = "up"]
      /\ UNCHANGED <<scope, gateVars>> /\ Slot(r)
  BY TryIsPair DEF IInv, TypeOK, TriesInv, SlotInv, LaunchSucceeds
<1>1. Current(r) /\ r = This(c)
  BY <1>0, BrowserIsCurrent, ThisIsATry DEF IInv
<1>2. call[c].pc \in {"launch", "abandon", "failed", "stopped"} /\ (r \in watched => r \in held)
  BY <1>0, <1>1 DEF Slot
<1>3. /\ browser' \in [Tries -> {"none", "launching", "up"}] /\ browser'[r] = "up"
      /\ \A q \in Tries : q # r => browser'[q] = browser[q]
  BY <1>0 DEF TypeOK
<1>4. CASE call[c].pc = "launch" /\ ~Stopped(c)
  <2>1. Go(c, "pages") /\ UNCHANGED watched
    BY <1>1, <1>4 DEF LaunchSucceeds, At
  <2>2. PICK m \in Record : m.pc = "pages" /\ m.try = call[c].try /\ call' = [call EXCEPT ![c] = m]
    BY <1>0, <2>1, GoProperties DEF Places, Holding
  <2>3. TryOK(m, MaxTries[c]) /\ m.pc # "queued"
    BY <1>0, <1>4, <2>2 DEF TryOK, Repeating
  <2>4. Slot(r)'
    <3>1. call'[c].pc = "pages" /\ call'[c].try = call[c].try /\ r \in held' /\ r \notin watched'
      BY <1>0, <1>1, <1>4, <2>1, <2>2 DEF Slot, TypeOK, gateVars
    <3> QED BY <1>1, <1>3, <3>1 DEF Slot, Current
  <2> QED BY <1>0, <1>1, <1>3, <1>4, <2>1, <2>2, <2>3, <2>4, OneTryKeeps DEF TypeOK
<1>5. CASE call[c].pc = "launch" /\ Stopped(c)
  <2>1. Closing(c, "aborted") /\ "aborted" \in Results
    BY <1>1, <1>5 DEF LaunchSucceeds, At, Results
  <2>2. PICK m \in Record : m.pc = "closing" /\ m.try = call[c].try /\ call' = [call EXCEPT ![c] = m]
    BY <1>0, <2>1, ClosingProperties
  <2>3. TryOK(m, MaxTries[c]) /\ m.pc # "queued"
    BY <1>0, <1>5, <2>2 DEF TryOK, Repeating
  <2>4. watched' = watched \cup {r}
    BY <1>1, <2>1 DEF Closing
  <2>5. Slot(r)'
    <3>1. call'[c].pc = "closing" /\ call'[c].try = call[c].try /\ r \in held' /\ r \in watched'
      BY <1>0, <1>1, <1>5, <2>2, <2>4 DEF Slot, TypeOK, gateVars
    <3> QED BY <1>1, <1>3, <3>1 DEF Slot, Current
  <2> QED BY <1>0, <1>1, <1>3, <1>5, <2>2, <2>3, <2>4, <2>5, OneTryKeeps DEF TypeOK
<1>6. CASE call[c].pc # "launch"
  <2>1. UNCHANGED <<call, watched>>
    BY <1>6 DEF LaunchSucceeds, At
  <2>2. Slot(r)'
    BY <1>0, <1>1, <1>2, <1>3, <1>6, <2>1 DEF Slot, Current, gateVars
  <2>3. call' = [call EXCEPT ![c] = call[c]]
    BY <1>0, <2>1 DEF TypeOK
  <2> QED BY <1>0, <1>1, <1>2, <1>3, <2>1, <2>2, <2>3, OneTryKeeps DEF TypeOK
<1> QED BY <1>4, <1>5, <1>6

\* The browser of a try is gone, or does not come up: its slot is given back by
\* whoever watches it.
LEMMA GoneKeeps ==
    ASSUME IInv, NEW r \in Tries, LaunchFails(r) \/ BrowserGone(r)
    PROVE  IInv'
<1> DEFINE c == r[1]
<1>0. /\ c \in Calls /\ call[c] \in Record /\ TryOK(call[c], MaxTries[c]) /\ TypeOK /\ TriesInv
      /\ browser[r] # "none" /\ browser' = [browser EXCEPT ![r] = "none"]
      /\ scope' = scope /\ Slot(r)
  BY TryIsPair DEF IInv, TypeOK, TriesInv, SlotInv, LaunchFails, BrowserGone
<1>1. Current(r) /\ r = This(c)
  BY <1>0, BrowserIsCurrent, ThisIsATry DEF IInv
<1>2. call[c].pc \in {"launch", "pages", "closing", "abandon", "failed", "stopped"}
  BY <1>0, <1>1 DEF Slot
<1>3. /\ browser' \in [Tries -> {"none", "launching", "up"}] /\ browser'[r] = "none"
      /\ \A q \in Tries : q # r => browser'[q] = browser[q]
  BY <1>0 DEF TypeOK
<1>4. CASE r \in watched
  <2>1. call[c].pc \in {"closing", "failed", "stopped"}
    BY <1>0, <1>1, <1>2, <1>4 DEF Slot
  <2>2. Release(r, call) /\ watched' = watched \ {r}
    BY <1>4, <2>1 DEF LaunchFails, BrowserGone, At
  <2>3. call \in [Calls -> Record] /\ call[c].pc \notin (Holding \ {"closing"}) \cup {"queued"}
    BY <1>0, <2>1 DEF TypeOK, Holding
  <2> QED BY <1>0, <1>1, <1>3, <2>1, <2>2, <2>3, ReleaseStepKeeps
<1>5. CASE r \notin watched /\ call[c].pc = "launch"
  <2>1. browser[r] = "launching"
    BY <1>0, <1>1, <1>5 DEF Slot
  <2>2. Go(c, "abandon") /\ UNCHANGED <<gateVars, watched>>
    BY <1>1, <1>5, <2>1 DEF LaunchFails, BrowserGone, At
  <2>3. PICK m \in Record : m.pc = "abandon" /\ m.try = call[c].try /\ call' = [call EXCEPT ![c] = m]
    BY <1>0, <2>2, GoProperties DEF Places, Holding
  <2>4. TryOK(m, MaxTries[c]) /\ m.pc # "queued"
    BY <1>0, <1>5, <2>3 DEF TryOK, Repeating
  <2>5. Slot(r)'
    <3>1. call'[c].pc = "abandon" /\ call'[c].try = call[c].try /\ r \in held' /\ r \notin watched'
      BY <1>0, <1>1, <1>5, <2>2, <2>3 DEF Slot, TypeOK, gateVars
    <3> QED BY <1>1, <3>1 DEF Slot, Current
  <2> QED BY <1>0, <1>1, <1>3, <1>5, <2>2, <2>3, <2>4, <2>5, OneTryKeeps DEF TypeOK
<1>6. CASE r \notin watched /\ call[c].pc # "launch"
  <2>1. UNCHANGED <<call, gateVars, watched>>
    BY <1>6 DEF LaunchFails, BrowserGone, At
  <2>2. Slot(r)'
    BY <1>0, <1>1, <1>2, <1>3, <1>6, <2>1 DEF Slot, Current, gateVars
  <2>3. call' = [call EXCEPT ![c] = call[c]]
    BY <1>0, <2>1 DEF TypeOK
  <2> QED BY <1>0, <1>1, <1>2, <1>3, <2>1, <2>2, <2>3, OneTryKeeps DEF TypeOK
<1> QED BY <1>4, <1>5, <1>6

\* The end of the try of a call, with the slot given back or left to the watch.
LEMMA EndOfTryKeeps ==
    ASSUME IInv, NEW c \in Calls, Abandon(c) \/ Close(c)
    PROVE  IInv'
<1>0. /\ call[c] \in Record /\ TryOK(call[c], MaxTries[c]) /\ TypeOK /\ TriesInv
      /\ call[c].pc \in {"abandon", "closing"} /\ UNCHANGED <<scope, browser>>
  BY DEF IInv, TypeOK, TriesInv, Abandon, Close, At
<1>1. call[c].try >= 1 /\ "fatal" \in Results /\ "unsafe" \in Results /\ call[c].got \in Results
  BY <1>0 DEF TryOK, Record, Results
<1>2. PICK r \in Tries : r = This(c) /\ r[1] = c /\ Current(r)
  BY <1>0, <1>1, ThisIsATry
<1>3. /\ Slot(r) /\ browser' \in [Tries -> {"none", "launching", "up"}]
      /\ browser'[r] = browser[r] /\ \A q \in Tries : q # r => browser'[q] = browser[q]
  BY <1>0 DEF IInv, TypeOK, SlotInv
<1>4. CASE browser[r] = "none"
  <2>1. PICK got \in Results : Release(r, After(c, got))
    BY <1>1, <1>2, <1>4 DEF Abandon, Close
  <2> DEFINE cs == After(c, got)
  <2>2. PICK m \in Record : /\ cs = [call EXCEPT ![c] = m]
                            /\ m.try = call[c].try /\ TryOK(m, MaxTries[c])
                            /\ m.pc \in {"stopped", "confirm", "recheck", "failed"}
    BY <1>1, AfterProperties
  <2>3. watched' = watched \ {r}
    BY <1>0, <1>2, <1>3, <1>4 DEF Abandon, Close, Slot, At
  <2>4. Release(r, cs)
    BY <2>1
  <2> HIDE DEF cs
  <2>5. /\ cs \in [Calls -> Record] /\ cs[c] = m /\ \A d \in Calls : d # r[1] => cs[d] = call[d]
        /\ cs[c].pc \notin (Holding \ {"closing"}) \cup {"queued"}
    BY <1>0, <1>2, <2>2 DEF TypeOK, Holding
  <2>6. /\ cs[r[1]].try = call[r[1]].try /\ TryOK(cs[r[1]], MaxTries[r[1]])
        /\ call[r[1]].pc # "queued" /\ cs[r[1]].pc \notin (Holding \ {"closing"}) \cup {"queued"}
    BY <1>0, <1>2, <2>2, <2>5
  <2>7. browser'[r] = "none"
    BY <1>3, <1>4
  <2> QED BY <1>0, <1>2, <1>3, <2>3, <2>4, <2>5, <2>6, <2>7, ReleaseStepKeeps
<1>5. CASE browser[r] # "none"
  <2>1. call' = After(c, "unsafe") /\ UNCHANGED gateVars
    BY <1>2, <1>5 DEF Abandon, Close
  <2>2. PICK m \in Record : /\ call' = [call EXCEPT ![c] = m]
                            /\ m.try = call[c].try /\ TryOK(m, MaxTries[c])
                            /\ m.pc \in {"failed", "stopped"}
    <3>1. PICK m \in Record : /\ After(c, "unsafe") = [call EXCEPT ![c] = m]
                              /\ m.try = call[c].try /\ TryOK(m, MaxTries[c])
                              /\ m.pc \in {"failed", "stopped"}
      BY <1>1, AfterProperties
    <3> QED BY <2>1, <3>1
  <2>3. r \in held /\ watched' = watched \cup {r}
    BY <1>0, <1>2, <1>3, <1>5 DEF Abandon, Close, Slot, At
  <2>4. Slot(r)'
    <3>1. call'[c].pc = m.pc /\ call'[c].try = call[c].try /\ r \in held' /\ r \in watched'
      BY <1>0, <2>1, <2>2, <2>3 DEF TypeOK, gateVars
    <3>2. Current(r)'
      BY <1>2, <3>1 DEF Current
    <3> QED BY <1>2, <1>3, <1>5, <2>2, <3>1, <3>2 DEF Slot
  <2> QED BY <1>0, <1>2, <1>3, <2>1, <2>2, <2>3, <2>4, OneTryKeeps DEF TypeOK
<1> QED BY <1>4, <1>5

LEMMA InitEstablishes == ASSUME Init PROVE IInv
<1>1. TypeOK /\ TriesInv
  BY CallsAssumption DEF Init, TypeOK, TriesInv, TryOK, Record, Places, Results, Repeating
<1>2. SlotInv
  BY TryIsPair DEF Init, SlotInv, Slot, Current
<1>3. GateInv
  BY CallsAssumption, FS_EmptySet DEF Init, GateInv
<1>4. QueueInv
  BY CallsAssumption DEF Init, QueueInv, At
<1> QED BY <1>1, <1>2, <1>3, <1>4 DEF IInv

LEMMA StepKeeps == ASSUME IInv, [Next]_vars PROVE IInv'
<1>1. CASE UNCHANGED vars
  BY <1>1 DEF vars, gateVars, IInv, TypeOK, TriesInv, SlotInv, Slot, Current, GateInv, QueueInv, At
<1>2. ASSUME NEW c \in Calls, Step(c) \/ DeadlinePasses(c) \/ Abort(c)
      PROVE  IInv'
  BY <1>2, AskLeaseKeeps, QuietStepsKeep, AcquireKeeps, QueueTimerKeeps, LaunchKeeps,
     EndOfTryKeeps, TimeKeeps DEF Step
<1>3. ASSUME NEW r \in Tries, LaunchSucceeds(r) \/ LaunchFails(r) \/ BrowserGone(r)
      PROVE  IInv'
  BY <1>3, LaunchSucceedsKeeps, GoneKeeps
<1> QED BY <1>1, <1>2, <1>3 DEF Next

\* The invariant holds in every state that the calls and the gate can reach.
THEOREM Invariance == Spec => []IInv
<1>1. Init => IInv
  BY InitEstablishes
<1>2. IInv /\ [Next]_vars => IInv'
  BY StepKeeps
<1> QED BY <1>1, <1>2, PTL DEF Spec

\* Every variable keeps its type.
THEOREM TypeCorrect == Spec => []TypeOK
<1>1. IInv => TypeOK
  BY DEF IInv
<1> QED BY <1>1, Invariance, PTL

\* browser-execution-gate.ts: no more than maxActive browsers, those that their
\* calls gave up on counted.
THEOREM Counted == Spec => []BrowsersAreCounted
<1>1. IInv => BrowsersAreCounted
  <2> SUFFICES ASSUME IInv, NEW r \in Tries, browser[r] # "none" PROVE r \in held
    BY DEF IInv, GateInv, BrowsersAreCounted
  <2> QED BY DEF IInv, SlotInv, Slot
<1> QED BY <1>1, Invariance, PTL

\* release and drain hand on a slot in the turn in which it gets free.
THEOREM NoneWaitsInVain == Spec => []NoWaitForFreeSlot
<1>1. IInv => NoWaitForFreeSlot
  <2> SUFFICES ASSUME IInv PROVE NoWaitForFreeSlot
    OBVIOUS
  <2>1. Len(queue) \in Nat /\ DOMAIN queue = 1 .. Len(queue)
    BY LenProperties DEF IInv, TypeOK
  <2>2. \A c \in Calls : At(c, "queued") <=> Contains(queue, c)
    BY <2>1 DEF IInv, QueueInv, Contains
  <2>3. IsInjective(queue)
    BY DEF IInv, QueueInv, IsInjective
  <2> QED BY <2>2, <2>3 DEF IInv, GateInv, QueueInv, NoWaitForFreeSlot
<1> QED BY <1>1, Invariance, PTL

\* tool-retry-policy.ts: no try over a browser that may be alive, and no success.
THEOREM NoTryOverABrowser == Spec => []GoneBeforeGoingOn
<1>1. IInv => GoneBeforeGoingOn
  <2> SUFFICES ASSUME IInv, NEW r \in Tries,
                      \/ r[2] < call[r[1]].try
                      \/ call[r[1]].pc \in {"recheck", "sleep", "again", "confirm", "publish", "ok"}
               PROVE  browser[r] = "none" /\ r \notin held
    BY DEF GoneBeforeGoingOn
  <2>1. Slot(r)
    BY DEF IInv, SlotInv
  <2>2. ~Current(r) \/ call[r[1]].pc \in {"recheck", "sleep", "again", "confirm", "publish", "ok"}
    BY TryIsPair DEF Current, IInv, TypeOK, Record
  <2> QED BY <2>1, <2>2 DEF Slot
<1> QED BY <1>1, Invariance, PTL

-----------------------------------------------------------------------------
(* Nothing new once stopped.                                                *)

\* What a step may do to a call whose time is over.
NothingNew(d, m) == m.try = call[d].try /\ (m.pc = "ok" => call[d].pc = "ok")

LEMMA AfterIsNothingNew ==
    ASSUME IInv, NEW c \in Calls, NEW got \in Results, call[c].try >= 1
    PROVE  /\ After(c, got) \in [Calls -> Record]
           /\ \A d \in Calls : NothingNew(d, After(c, got)[d])
<1>1. PICK m \in Record : /\ After(c, got) = [call EXCEPT ![c] = m]
                          /\ m.try = call[c].try
                          /\ m.pc \in {"stopped", "confirm", "recheck", "failed"}
  BY AfterProperties
<1> QED BY <1>1 DEF NothingNew, IInv, TypeOK

LEMMA ReleaseIsNothingNew ==
    ASSUME NEW r, NEW cs \in [Calls -> Record], Release(r, cs), \A d \in Calls : NothingNew(d, cs[d])
    PROVE  \A d \in Calls : NothingNew(d, call'[d])
<1>1. CASE r \notin held
  BY <1>1 DEF Release
<1>2. CASE r \in held
  <2> SUFFICES ASSUME NEW d \in Calls PROVE NothingNew(d, call'[d])
    OBVIOUS
  <2>1. \/ call'[d] = cs[d]
        \/ call'[d] = [cs[d] EXCEPT !.pc = "granted"]
        \/ call'[d] = [cs[d] EXCEPT !.pc = "stopped"]
    BY <1>2 DEF Release
  <2>2. cs[d] \in Record /\ NothingNew(d, cs[d])
    OBVIOUS
  <2> QED BY <2>1, <2>2 DEF NothingNew, Record
<1> QED BY <1>1, <1>2

\* A step of call c leaves what other calls did, and begins nothing for c when
\* it is stopped.
LEMMA StepIsNothingNew ==
    ASSUME IInv, NEW c \in Calls, Step(c) \/ DeadlinePasses(c) \/ Abort(c), NEW d \in Calls, Stopped(d)
    PROVE  NothingNew(d, call'[d])
<1>0. /\ TypeOK /\ call[c] \in Record /\ TryOK(call[c], MaxTries[c])
      /\ call[d] \in Record /\ NothingNew(d, call[d])
      /\ {"aborted", "retryable", "fatal", "unsafe"} \subseteq Results
  BY DEF IInv, TypeOK, TriesInv, NothingNew, Results
<1>1. ASSUME NEW pc \in Places, Go(c, pc), pc = "ok" => c # d
      PROVE  NothingNew(d, call'[d])
  <2>1. PICK m \in Record : m.pc = pc /\ m.try = call[c].try /\ call' = [call EXCEPT ![c] = m]
    BY <1>0, <1>1, GoProperties
  <2> QED BY <1>0, <1>1, <2>1 DEF NothingNew, TypeOK
<1>2. ASSUME NEW got \in Results, call[c].try >= 1, call' = After(c, got)
      PROVE  NothingNew(d, call'[d])
  BY <1>2, AfterIsNothingNew
<1>3. ASSUME NEW got \in Results, call[c].try >= 1, NEW r, Release(r, After(c, got))
      PROVE  NothingNew(d, call'[d])
  BY <1>3, AfterIsNothingNew, ReleaseIsNothingNew
<1>4. call[c].pc \notin {"require", "check", "stopped"} => call[c].try >= 1
  BY <1>0 DEF TryOK
<1>5. ASSUME UNCHANGED call PROVE NothingNew(d, call'[d])
  BY <1>0, <1>5
<1>6. CASE AskLease(c)
  <2>1. ASSUME Heard(c), GoOn(c)
        PROVE  NothingNew(d, call'[d])
    <3>1. CASE c # d
      BY <1>0, <2>1, <3>1 DEF GoOn, TypeOK
    <3>2. CASE c = d
      <4>1. call[c].pc \in {"require", "confirm"}
        BY <1>6, <2>1, <3>2 DEF Heard, Stopped
      <4>2. PICK pc \in {"check", "publish"} : Follows[call[c].pc] = pc
        BY <4>1 DEF Follows
      <4>3. call' = [call EXCEPT ![c].pc = pc, ![c].try = @]
        BY <2>1, <4>2 DEF GoOn
      <4> QED BY <1>0, <3>2, <4>3 DEF NothingNew, TypeOK, Record
    <3> QED BY <3>1, <3>2
  <2> QED BY <1>1, <1>6, <2>1 DEF AskLease, Places, Ends
<1>7. CASE NoPages(c)
  BY <1>0, <1>2, <1>4, <1>7 DEF NoPages, At
<1>8. CASE Acquire(c)
  BY <1>0, <1>1, <1>2, <1>4, <1>8 DEF Acquire, At, Places, Holding
<1>9. CASE QueueTimer(c)
  BY <1>0, <1>2, <1>4, <1>9 DEF QueueTimer, LeaveQueue, At
<1>10. CASE Launch(c) \/ LaunchGivenUp(c)
  BY <1>1, <1>10 DEF Launch, LaunchGivenUp, Places, Holding
<1>11. CASE Pages(c)
  <2>1. PICK got \in Results : Closing(c, got)
    BY <1>11 DEF Pages, Results
  <2>2. PICK m \in Record : m.pc = "closing" /\ m.try = call[c].try /\ call' = [call EXCEPT ![c] = m]
    BY <1>0, <2>1, ClosingProperties
  <2> QED BY <1>0, <2>2 DEF NothingNew, TypeOK
<1>12. CASE Abandon(c)
  BY <1>0, <1>2, <1>3, <1>4, <1>12 DEF Abandon, At
<1>13. CASE Close(c)
  <2>1. call[c].got \in Results /\ call[c].try >= 1
    BY <1>0, <1>4, <1>13 DEF Close, At, Record
  <2> QED BY <1>0, <1>2, <1>3, <1>13, <2>1 DEF Close
<1>14. CASE Sleep(c)
  BY <1>1, <1>14 DEF Sleep, Places, Repeating, Ends
<1>15. CASE Publish(c)
  BY <1>1, <1>15 DEF Publish, Places, Ends
<1>16. CASE DeadlinePasses(c)
  BY <1>5, <1>16 DEF DeadlinePasses
<1>17. CASE Abort(c)
  <2>1. CASE UNCHANGED call
    BY <1>5, <2>1
  <2>2. CASE call' = [call EXCEPT ![c].pc = "stopped"]
    BY <1>0, <2>2 DEF NothingNew, TypeOK, Record
  <2> QED BY <1>17, <2>1, <2>2 DEF Abort, LeaveQueue
<1> QED BY <1>6, <1>7, <1>8, <1>9, <1>10, <1>11, <1>12, <1>13, <1>14, <1>15, <1>16, <1>17 DEF Step

\* A launch, or the end of a browser, begins nothing for any call.
LEMMA BrowserIsNothingNew ==
    ASSUME IInv, NEW r \in Tries, LaunchSucceeds(r) \/ LaunchFails(r) \/ BrowserGone(r), NEW d \in Calls
    PROVE  NothingNew(d, call'[d])
<1>0. /\ TypeOK /\ call \in [Calls -> Record] /\ r[1] \in Calls
      /\ \A e \in Calls : NothingNew(e, call[e])
  BY TryIsPair DEF IInv, TypeOK, NothingNew
<1>1. CASE UNCHANGED call
  BY <1>0, <1>1
<1>2. CASE \E pc \in {"pages", "abandon"} : Go(r[1], pc)
  <2>1. PICK pc \in {"pages", "abandon"} : Go(r[1], pc)
    BY <1>2
  <2>2. PICK m \in Record : m.pc = pc /\ m.try = call[r[1]].try /\ call' = [call EXCEPT ![r[1]] = m]
    BY <1>0, <2>1, GoProperties DEF Places, Holding
  <2> QED BY <1>0, <2>2 DEF NothingNew
<1>3. CASE Closing(r[1], "aborted")
  <2>1. PICK m \in Record :
            m.pc = "closing" /\ m.try = call[r[1]].try /\ call' = [call EXCEPT ![r[1]] = m]
    BY <1>0, <1>3, ClosingProperties DEF Results
  <2> QED BY <1>0, <2>1 DEF NothingNew
<1>4. CASE Release(r, call)
  BY <1>0, <1>4, ReleaseIsNothingNew
<1> QED BY <1>1, <1>2, <1>3, <1>4 DEF LaunchSucceeds, LaunchFails, BrowserGone

\* Chromium is launched for a call that has time left, by the call itself.
LEMMA LaunchesInTime ==
    ASSUME IInv, Next, NEW r \in Tries, Stopped(r[1]), browser'[r] = "launching"
    PROVE  browser[r] = "launching"
<1>1. TypeOK /\ r[1] \in Calls
  BY TryIsPair DEF IInv
<1>2. ASSUME NEW q \in Tries, LaunchSucceeds(q) \/ LaunchFails(q) \/ BrowserGone(q)
      PROVE  browser[r] = "launching"
  BY <1>1, <1>2 DEF LaunchSucceeds, LaunchFails, BrowserGone, TypeOK
<1>3. ASSUME NEW c \in Calls, Launch(c)
      PROVE  browser[r] = "launching"
  <2>1. CASE browser' = browser
    BY <2>1
  <2>2. CASE ~Stopped(c) /\ browser' = [browser EXCEPT ![This(c)] = "launching"]
    <3>1. r # This(c)
      BY <2>2 DEF This
    <3> QED BY <1>1, <2>2, <3>1 DEF TypeOK
  <2> QED BY <1>3, <2>1, <2>2 DEF Launch
<1>4. ASSUME NEW c \in Calls, Step(c) \/ DeadlinePasses(c) \/ Abort(c), ~Launch(c)
      PROVE  browser[r] = "launching"
  BY <1>4 DEF Step, AskLease, NoPages, Acquire, QueueTimer, LaunchGivenUp, Pages, Abandon,
     Close, Sleep, Publish, DeadlinePasses, Abort
<1> QED BY <1>2, <1>3, <1>4 DEF Next, Step

\* throwIfToolInvocationAborted and requireActiveToolLease, wherever a call goes
\* on after an await: no step begins a try, launches a Chromium or counts an
\* answer for a call whose lease or time is gone.
THEOREM StoppedForGood == Spec => NothingNewOnceStopped
<1>1. IInv /\ [Next]_vars =>
        [ /\ \A c \in Calls : Stopped(c) =>
               call'[c].try = call[c].try /\ (call'[c].pc = "ok" => At(c, "ok"))
          /\ \A r \in Tries : Stopped(r[1]) /\ browser'[r] = "launching" =>
               browser[r] = "launching" ]_vars
  <2> SUFFICES ASSUME IInv, Next
               PROVE  /\ \A c \in Calls : Stopped(c) =>
                           call'[c].try = call[c].try /\ (call'[c].pc = "ok" => At(c, "ok"))
                      /\ \A r \in Tries : Stopped(r[1]) /\ browser'[r] = "launching" =>
                           browser[r] = "launching"
    OBVIOUS
  <2>1. \A c \in Calls : Stopped(c) => NothingNew(c, call'[c])
    BY StepIsNothingNew, BrowserIsNothingNew DEF Next
  <2> QED BY <2>1, LaunchesInTime DEF NothingNew, At
<1> QED BY <1>1, Invariance, PTL DEF Spec, NothingNewOnceStopped
==============================================================================
