------------------------ MODULE EditorialStoreProofs ------------------------
(***************************************************************************)
(* Theorems of EditorialStore, for any runs and any hidden ones.           *)
(*                                                                         *)
(* The invariant: a run in a state of the critical section has the guard,  *)
(* which nobody else removes; a lock that is being written is the          *)
(* writer's; a lock about to be moved belongs to a run that is over or     *)
(* hidden; and a run that works still owns the lock, whose removal takes   *)
(* the guard and either its owner or the owner's end.                      *)
(***************************************************************************)
EXTENDS EditorialStore, TLAPS

\* The states in which a run has the guard.
InGuard == {"recheck", "move", "unguard", "assert", "fence", "rename", "unlock"}

GuardHeld == \A p \in Runs : run[p].pc \in InGuard => guard = p

\* A run goes to the guard, and leaves it, for one of three purposes each.
Purposes ==
    \A p \in Runs :
        /\ run[p].pc = "guard" => run[p].next \in {"recheck", "assert", "unlock"}
        /\ run[p].pc = "unguard" => run[p].next \in {"create", "unlock", "ended"}

WriterHasLock ==
    \A p \in Runs : run[p].pc = "write" => lock = [owner |-> p, whole |-> FALSE]

\* The lock that a reclaimer moves is whole, and of nobody who works.
MovedIsStale ==
    \A p \in Runs : run[p].pc = "move" =>
        /\ lock.whole /\ lock.owner \in Runs
        /\ run[lock.owner].pc \in Over \/ lock.owner \in Hidden

WorkerHasLock == \A p \in Runs \ Hidden : Working(p) => OwnsLock(p)

\* Under the guard the lock was compared, and nobody can have moved it since.
PublisherHasLock == \A p \in Runs : run[p].pc \in {"fence", "rename"} => OwnsLock(p)

Inv ==
    /\ TypeOK /\ GuardHeld /\ Purposes /\ WriterHasLock /\ MovedIsStale
    /\ WorkerHasLock /\ PublisherHasLock

-----------------------------------------------------------------------------
LEMMA InitInv == Init => Inv
<1> SUFFICES ASSUME Init PROVE Inv OBVIOUS
<1>1. TypeOK BY DEF Init, TypeOK, NoLock, NotRun, States, Nexts, Results
<1>2. \A p \in Runs : run[p].pc = "idle" BY DEF Init, NotRun
<1> QED
  BY <1>1, <1>2 DEF Inv, GuardHeld, Purposes, WriterHasLock, MovedIsStale, WorkerHasLock,
                   PublisherHasLock, InGuard, Working

USE StoreAssumption

\* The parts of the type invariant, each disturbed by other steps.
LockTyped ==
    lock \in [owner : Runs \cup {None}, whole : BOOLEAN] /\ (lock.owner = None => lock = NoLock)

RunTyped ==
    run \in [Runs -> [pc : States, seen : Runs \cup {None}, next : Nexts, result : Results]]

RestTyped ==
    /\ aged \in BOOLEAN /\ current \in BOOLEAN
    /\ guard \in Runs \cup {None} /\ slot \in Runs \cup {None}
    /\ staged \subseteq Runs

\* The ways in which a run moves on keep its type.
LEMMA GoTyped ==
    ASSUME RunTyped, NEW p \in Runs, NEW pc \in States, Go(p, pc)
    PROVE  RunTyped'
BY DEF RunTyped, Go

LEMMA LeaveTyped ==
    ASSUME RunTyped, NEW p \in Runs, NEW next \in Nexts, NEW result \in Results,
           Leave(p, next, result)
    PROVE  RunTyped'
<1>1. "unguard" \in States BY DEF States, Alive
<1> QED BY <1>1 DEF RunTyped, Leave

LEMMA FinishTyped ==
    ASSUME RunTyped, NEW p \in Runs, NEW result \in Results, Finish(p, result)
    PROVE  RunTyped'
<1>1. "guard" \in States /\ "unlock" \in Nexts BY DEF States, Alive, Nexts
<1> QED BY <1>1 DEF RunTyped, Finish

LEMMA BusyTyped ==
    ASSUME RunTyped, NEW p \in Runs, Busy(p)
    PROVE  RunTyped'
<1>1. "ended" \in States /\ "busy" \in Results BY DEF States, Over, Results
<1> QED BY <1>1 DEF RunTyped, Busy

\* Every step of a run keeps the type of its own state.
LEMMA RunStep ==
    ASSUME RunTyped, Purposes, LockTyped, NEW p \in Runs, Acquire(p) \/ Publish(p) \/ Crash(p)
    PROVE  RunTyped'
<1>1. /\ {"create", "write", "observe", "guard", "recheck", "move", "unguard", "cleanup",
          "read", "owned", "existing", "stage", "winner", "assert", "fence", "rename",
          "adopt", "unlock", "ended", "crashed"} \subseteq States
      /\ {"recheck", "create", "assert", "unlock", "ended"} \subseteq Nexts
      /\ {"none", "busy", "failed", "switched", "returned"} \subseteq Results
  BY DEF States, Alive, Over, Nexts, Results
<1> USE <1>1, GoTyped, LeaveTyped, FinishTyped, BusyTyped
<1>2. CASE Start(p) BY <1>2 DEF Start
<1>3. CASE CreateLock(p) BY <1>3 DEF CreateLock
<1>4. CASE WriteLock(p)
  <2>1. CASE Go(p, "cleanup") BY <2>1
  <2>2. CASE run' = [run EXCEPT ![p].pc = "ended", ![p].result = "failed"]
    BY <2>2 DEF RunTyped
  <2> QED BY <1>4, <2>1, <2>2 DEF WriteLock
<1>5. CASE Observe(p)
  <2>1. CASE Stale
    <3>1. run' = [run EXCEPT ![p].pc = "guard", ![p].next = "recheck", ![p].seen = lock.owner]
      BY <1>5, <2>1 DEF Observe
    <3>2. lock.owner \in Runs \cup {None} BY DEF LockTyped
    <3> QED BY <3>1, <3>2 DEF RunTyped
  <2>2. CASE ~Stale BY <1>5, <2>2 DEF Observe
  <2> QED BY <2>1, <2>2
<1>6. CASE TakeGuard(p)
  <2>1. run[p].next \in {"recheck", "assert", "unlock"} BY <1>6 DEF TakeGuard, At, Purposes
  <2> QED BY <1>6, <2>1 DEF TakeGuard
<1>7. CASE Recheck(p) BY <1>7 DEF Recheck
<1>8. CASE MoveLock(p) BY <1>8 DEF MoveLock
<1>9. CASE Unguard(p)
  <2>1. run[p].next \in {"create", "unlock", "ended"} BY <1>9 DEF Unguard, At, Purposes
  <2> QED BY <1>9, <2>1 DEF Unguard
<1>10. CASE Cleanup(p) BY <1>10 DEF Cleanup
<1>11. CASE ReadSlot(p) BY <1>11 DEF ReadSlot
<1>12. CASE AssertOwned(p) BY <1>12 DEF AssertOwned
<1>13. CASE ReadExisting(p) BY <1>13 DEF ReadExisting
<1>14. CASE Adopt(p) BY <1>14 DEF Adopt
<1>15. CASE Stage(p) BY <1>15 DEF Stage
<1>16. CASE ReadWinner(p)
  <2>1. CASE Guarded(p, "assert") BY <2>1 DEF RunTyped, Guarded
  <2> QED BY <1>16, <2>1 DEF ReadWinner
<1>17. CASE AssertStillOwned(p) BY <1>17 DEF AssertStillOwned
<1>18. CASE Fence(p) BY <1>18 DEF Fence
<1>19. CASE PublishRename(p) BY <1>19 DEF PublishRename
<1>20. CASE ReleaseLock(p)
  <2>1. run[p].result \in Results BY DEF RunTyped
  <2> QED BY <1>20, <2>1 DEF ReleaseLock
<1>21. CASE Crash(p) BY <1>21 DEF Crash
<1> QED
  BY <1>2, <1>3, <1>4, <1>5, <1>6, <1>7, <1>8, <1>9, <1>10, <1>11, <1>12, <1>13, <1>14,
     <1>15, <1>16, <1>17, <1>18, <1>19, <1>20, <1>21
  DEF Acquire, Publish

\* A run that is over takes no step.
LEMMA OverIsOver ==
    ASSUME NEW p \in Runs, Acquire(p) \/ Publish(p) \/ Crash(p)
    PROVE  run[p].pc \notin Over
BY DEF Acquire, Publish, Crash, At, Alive, Over, Start, CreateLock, WriteLock, Observe, TakeGuard,
       Recheck, MoveLock, Unguard, Cleanup, ReadSlot, AssertOwned, ReadExisting, Adopt, Stage,
       ReadWinner, AssertStillOwned, Fence, PublishRename, ReleaseLock

\* A step of p touches no other run's state, takes the guard only when it is
\* free and gives back only its own.
LEMMA OthersStay ==
    ASSUME NEW p \in Runs, Acquire(p) \/ Publish(p) \/ Crash(p), RunTyped
    PROVE  /\ \A q \in Runs \ {p} : run'[q] = run[q]
           /\ \/ UNCHANGED guard
              \/ guard = None /\ guard' = p
              \/ guard = p /\ guard' = None
<1> USE DEF RunTyped
<1>1. \A pc : Go(p, pc) => \A q \in Runs \ {p} : run'[q] = run[q] BY DEF Go
<1>2. \A next, result : Leave(p, next, result) => \A q \in Runs \ {p} : run'[q] = run[q]
  BY DEF Leave
<1>3. \A result : Finish(p, result) => \A q \in Runs \ {p} : run'[q] = run[q] BY DEF Finish
<1>4. Busy(p) => \A q \in Runs \ {p} : run'[q] = run[q] BY DEF Busy
<1>5. \A next : Guarded(p, next) => \A q \in Runs \ {p} : run'[q] = run[q] BY DEF Guarded
<1> USE <1>1, <1>2, <1>3, <1>4, <1>5
<1>6. CASE Start(p) BY <1>6 DEF Start
<1>7. CASE CreateLock(p) BY <1>7 DEF CreateLock
<1>8. CASE WriteLock(p) BY <1>8 DEF WriteLock
<1>9. CASE Observe(p) BY <1>9 DEF Observe
<1>10. CASE TakeGuard(p) BY <1>10 DEF TakeGuard
<1>11. CASE Recheck(p) BY <1>11 DEF Recheck
<1>12. CASE MoveLock(p) BY <1>12 DEF MoveLock
<1>13. CASE Unguard(p) BY <1>13 DEF Unguard
<1>14. CASE Cleanup(p) BY <1>14 DEF Cleanup
<1>15. CASE ReadSlot(p) BY <1>15 DEF ReadSlot
<1>16. CASE AssertOwned(p) BY <1>16 DEF AssertOwned
<1>17. CASE ReadExisting(p) BY <1>17 DEF ReadExisting
<1>18. CASE Adopt(p) BY <1>18 DEF Adopt
<1>19. CASE Stage(p) BY <1>19 DEF Stage
<1>20. CASE ReadWinner(p) BY <1>20 DEF ReadWinner
<1>21. CASE AssertStillOwned(p) BY <1>21 DEF AssertStillOwned
<1>22. CASE Fence(p) BY <1>22 DEF Fence
<1>23. CASE PublishRename(p) BY <1>23 DEF PublishRename
<1>24. CASE ReleaseLock(p) BY <1>24 DEF ReleaseLock
<1>25. CASE Crash(p) BY <1>25 DEF Crash
<1> QED
  BY <1>6, <1>7, <1>8, <1>9, <1>10, <1>11, <1>12, <1>13, <1>14, <1>15, <1>16, <1>17, <1>18, <1>19, <1>20, <1>21, <1>22, <1>23, <1>24, <1>25
  DEF Acquire, Publish

\* What the steps of p may do to the lock: take a free one, write its own, and
\* under the guard remove its own or that of nobody who works.
LEMMA LockMoves ==
    ASSUME NEW p \in Runs, Acquire(p) \/ Publish(p) \/ Crash(p), TypeOK,
           GuardHeld, WriterHasLock, MovedIsStale
    PROVE  \/ UNCHANGED lock
           \/ lock = NoLock /\ lock' = [owner |-> p, whole |-> FALSE]
           \/ lock = [owner |-> p, whole |-> FALSE]
              /\ \E w \in BOOLEAN : lock' = [owner |-> p, whole |-> w]
           \/ /\ guard = p /\ lock' = NoLock /\ lock.whole
              /\ lock.owner = p \/ run[lock.owner].pc \in Over \/ lock.owner \in Hidden
<1>1. CASE CreateLock(p) BY <1>1 DEF CreateLock
<1>2. CASE WriteLock(p)
  <2>1. lock = [owner |-> p, whole |-> FALSE] BY <1>2 DEF WriteLock, At, WriterHasLock
  <2>2. PICK w \in BOOLEAN : lock' = [lock EXCEPT !.whole = w] BY <1>2 DEF WriteLock
  <2>3. lock' = [owner |-> p, whole |-> w] BY <2>1, <2>2
  <2> QED BY <2>1, <2>3
<1>3. CASE MoveLock(p)
  <2>1. run[p].pc = "move" /\ lock' = NoLock BY <1>3 DEF MoveLock, At
  <2> QED BY <2>1 DEF GuardHeld, InGuard, MovedIsStale
<1>4. CASE ReleaseLock(p)
  <2>1. run[p].pc = "unlock" BY <1>4 DEF ReleaseLock, At
  <2>2. guard = p BY <2>1 DEF GuardHeld, InGuard
  <2>3. CASE OwnsLock(p)
    <3>1. lock' = NoLock BY <1>4, <2>3 DEF ReleaseLock
    <3> QED BY <2>2, <2>3, <3>1 DEF OwnsLock
  <2>4. CASE ~OwnsLock(p) BY <1>4, <2>4 DEF ReleaseLock
  <2> QED BY <2>3, <2>4
<1> QED
  BY <1>1, <1>2, <1>3, <1>4
  DEF Acquire, Publish, Start, Observe, TakeGuard, Recheck, Unguard, Cleanup, ReadSlot,
      AssertOwned, ReadExisting, Adopt, Stage, ReadWinner, AssertStillOwned, Fence,
      PublishRename, Crash

\* The safety part of the invariant, as it concerns one run.
SafeAt(r) ==
    /\ run[r].pc \in InGuard => guard = r
    /\ run[r].pc = "guard" => run[r].next \in {"recheck", "assert", "unlock"}
    /\ run[r].pc = "unguard" => run[r].next \in {"create", "unlock", "ended"}
    /\ run[r].pc = "write" => lock = [owner |-> r, whole |-> FALSE]
    /\ run[r].pc = "move" =>
         /\ lock.whole /\ lock.owner \in Runs
         /\ run[lock.owner].pc \in Over \/ lock.owner \in Hidden
    /\ r \notin Hidden /\ Working(r) => OwnsLock(r)
    /\ run[r].pc \in {"fence", "rename"} => OwnsLock(r)

LEMMA SafeIsInv == Inv <=> TypeOK /\ \A r \in Runs : SafeAt(r)
<1>1. GuardHeld <=> \A r \in Runs : run[r].pc \in InGuard => guard = r BY DEF GuardHeld
<1> QED
  BY <1>1 DEF Inv, SafeAt, Purposes, WriterHasLock, MovedIsStale, WorkerHasLock,
              PublisherHasLock

\* What a step of p does leaves the other runs safe.
LEMMA OthersSafe ==
    ASSUME Inv, NEW p \in Runs, Acquire(p) \/ Publish(p) \/ Crash(p), NEW r \in Runs \ {p}
    PROVE  SafeAt(r)'
<1>1. SafeAt(r) BY SafeIsInv
<1>2. RunTyped /\ LockTyped BY DEF Inv, TypeOK, RunTyped, LockTyped
<1>3. /\ \A q \in Runs \ {p} : run'[q] = run[q]
      /\ guard = r => guard' = r
  BY <1>2, OthersStay
<1>4. \/ UNCHANGED lock
      \/ lock = NoLock /\ lock' = [owner |-> p, whole |-> FALSE]
      \/ lock = [owner |-> p, whole |-> FALSE]
         /\ \E w \in BOOLEAN : lock' = [owner |-> p, whole |-> w]
      \/ /\ guard = p /\ lock' = NoLock /\ lock.whole
         /\ lock.owner = p \/ run[lock.owner].pc \in Over \/ lock.owner \in Hidden
  BY LockMoves DEF Inv
<1>5. run'[r] = run[r] BY <1>3
<1>6. /\ run'[r].pc \in InGuard => guard' = r
      /\ run'[r].pc = "guard" => run'[r].next \in {"recheck", "assert", "unlock"}
      /\ run'[r].pc = "unguard" => run'[r].next \in {"create", "unlock", "ended"}
  BY <1>1, <1>3, <1>5 DEF SafeAt
<1>7. run'[r].pc = "write" => lock' = [owner |-> r, whole |-> FALSE]
  <2> SUFFICES ASSUME run[r].pc = "write" PROVE lock' = [owner |-> r, whole |-> FALSE]
    BY <1>5
  <2>1. lock = [owner |-> r, whole |-> FALSE] BY <1>1 DEF SafeAt
  <2>2. lock # NoLock /\ lock # [owner |-> p, whole |-> FALSE] /\ ~lock.whole
    BY <2>1 DEF NoLock
  <2> QED BY <1>4, <2>1, <2>2
<1>8. run'[r].pc = "move" =>
         /\ lock'.whole /\ lock'.owner \in Runs
         /\ run'[lock'.owner].pc \in Over \/ lock'.owner \in Hidden
  <2> SUFFICES ASSUME run[r].pc = "move"
               PROVE  /\ lock'.whole /\ lock'.owner \in Runs
                      /\ run'[lock'.owner].pc \in Over \/ lock'.owner \in Hidden
    BY <1>5
  <2>1. /\ guard = r /\ lock.whole /\ lock.owner \in Runs
        /\ run[lock.owner].pc \in Over \/ lock.owner \in Hidden
    BY <1>1 DEF SafeAt, InGuard
  <2>2. lock # NoLock /\ lock # [owner |-> p, whole |-> FALSE] BY <2>1 DEF NoLock
  <2>3. UNCHANGED lock BY <1>4, <2>1, <2>2
  <2>4. run[lock.owner].pc \in Over => run'[lock.owner] = run[lock.owner]
    BY <1>3, <2>1, OverIsOver
  <2> QED BY <2>1, <2>3, <2>4
<1>9. Working(r)' <=> Working(r) BY <1>5 DEF Working
<1>10. ASSUME OwnsLock(r), (r \notin Hidden /\ Working(r)) \/ run[r].pc \in {"fence", "rename"}
       PROVE  OwnsLock(r)'
  <2>1. lock # NoLock /\ lock # [owner |-> p, whole |-> FALSE] /\ lock.owner = r
    BY <1>10 DEF OwnsLock, NoLock
  <2>2. run[r].pc \in {"fence", "rename"} => guard = r BY <1>1 DEF SafeAt, InGuard
  <2>3. r \notin Hidden /\ Working(r) => run[r].pc \notin Over BY DEF Working, Over
  <2>4. UNCHANGED lock BY <1>4, <1>10, <2>1, <2>2, <2>3
  <2> QED BY <1>10, <2>4 DEF OwnsLock
<1>11. /\ r \notin Hidden /\ Working(r)' => OwnsLock(r)'
       /\ run'[r].pc \in {"fence", "rename"} => OwnsLock(r)'
  BY <1>1, <1>5, <1>9, <1>10 DEF SafeAt
<1> QED BY <1>6, <1>7, <1>8, <1>11 DEF SafeAt

\* Where a run is after it has moved on.
LEMMA GoIs ==
    ASSUME RunTyped, NEW p \in Runs, NEW pc, Go(p, pc)
    PROVE  run'[p].pc = pc /\ run'[p].next = run[p].next
BY DEF RunTyped, Go

LEMMA LeaveIs ==
    ASSUME RunTyped, NEW p \in Runs, NEW next, NEW result, Leave(p, next, result)
    PROVE  run'[p].pc = "unguard" /\ run'[p].next = next
BY DEF RunTyped, Leave

LEMMA FinishIs ==
    ASSUME RunTyped, NEW p \in Runs, NEW result, Finish(p, result)
    PROVE  run'[p].pc = "guard" /\ run'[p].next = "unlock"
BY DEF RunTyped, Finish

LEMMA BusyIs ==
    ASSUME RunTyped, NEW p \in Runs, Busy(p)
    PROVE  run'[p].pc = "ended"
BY DEF RunTyped, Busy

\* Every step leaves the run that takes it safe.
LEMMA OwnSafe ==
    ASSUME Inv, NEW p \in Runs, Acquire(p) \/ Publish(p) \/ Crash(p)
    PROVE  SafeAt(p)'
<1>1. SafeAt(p) BY SafeIsInv
<1>2. RunTyped /\ LockTyped BY DEF Inv, TypeOK, RunTyped, LockTyped
<1>3. UNCHANGED lock => (OwnsLock(p)' <=> OwnsLock(p)) BY DEF OwnsLock
<1>4. run[p].pc \in {"cleanup", "read", "owned", "existing", "stage", "winner", "adopt"}
        => p \in Hidden \/ OwnsLock(p)
  BY <1>1 DEF SafeAt, Working
<1>a. \A pc : Go(p, pc) => run'[p].pc = pc /\ run'[p].next = run[p].next BY <1>2, GoIs
<1>b. \A next, result : Leave(p, next, result) =>
                           run'[p].pc = "unguard" /\ run'[p].next = next
  BY <1>2, LeaveIs
<1>c. \A result : Finish(p, result) => run'[p].pc = "guard" /\ run'[p].next = "unlock"
  BY <1>2, FinishIs
<1>d. Busy(p) => run'[p].pc = "ended" BY <1>2, BusyIs
<1> USE <1>2, <1>a, <1>b, <1>c, <1>d DEF At
<1>5. ASSUME \/ run'[p].pc \in {"idle", "create", "observe", "ended", "crashed"}
             \/ run'[p].pc = "guard" /\ run'[p].next \in {"recheck", "unlock"}
             \/ /\ run'[p].pc = "unguard" /\ run'[p].next \in {"create", "unlock", "ended"}
                /\ guard' = p
      PROVE  SafeAt(p)'
  BY <1>5 DEF SafeAt, InGuard, Working
<1>6. ASSUME \/ run'[p].pc \in {"cleanup", "read", "owned", "existing", "stage", "winner",
                                "adopt"}
             \/ run'[p].pc = "guard" /\ run'[p].next = "assert",
             p \in Hidden \/ OwnsLock(p)'
      PROVE  SafeAt(p)'
  BY <1>6 DEF SafeAt, InGuard, Working
<1>7. CASE Start(p) BY <1>5, <1>7 DEF Start
<1>8. CASE CreateLock(p)
  <2>1. CASE lock = NoLock
    <3>1. run'[p].pc = "write" /\ lock' = [owner |-> p, whole |-> FALSE]
      BY <1>8, <2>1 DEF CreateLock
    <3> QED BY <3>1 DEF SafeAt, InGuard, Working
  <2>2. CASE lock # NoLock BY <1>5, <1>8, <2>2 DEF CreateLock
  <2> QED BY <2>1, <2>2
<1>9. CASE WriteLock(p)
  <2>1. CASE lock' = [lock EXCEPT !.whole = TRUE] /\ Go(p, "cleanup")
    <3>1. lock = [owner |-> p, whole |-> FALSE] BY <1>1, <1>9 DEF WriteLock, SafeAt
    <3>2. OwnsLock(p)' BY <2>1, <3>1 DEF OwnsLock
    <3> QED BY <1>6, <2>1, <3>2
  <2>2. CASE run' = [run EXCEPT ![p].pc = "ended", ![p].result = "failed"]
    <3>1. run'[p].pc = "ended" BY <2>2 DEF RunTyped
    <3> QED BY <1>5, <3>1
  <2> QED BY <1>9, <2>1, <2>2 DEF WriteLock
<1>10. CASE Observe(p)
  <2>1. CASE Stale
    <3>1. run'[p].pc = "guard" /\ run'[p].next = "recheck"
      BY <1>10, <2>1 DEF Observe, RunTyped
    <3> QED BY <1>5, <3>1
  <2>2. CASE ~Stale BY <1>5, <1>10, <2>2 DEF Observe
  <2> QED BY <2>1, <2>2
<1>11. CASE TakeGuard(p)
  <2>1. run[p].next \in {"recheck", "assert", "unlock"} BY <1>1, <1>11 DEF TakeGuard, SafeAt
  <2>2. CASE guard = None
    <3>1. guard' = p /\ run'[p].pc \in {"recheck", "assert", "unlock"} /\ UNCHANGED lock
      BY <1>11, <2>1, <2>2 DEF TakeGuard
    <3>2. run'[p].pc = "assert" => Working(p)
      BY <1>11, <2>1, <2>2 DEF TakeGuard, Working
    <3> QED BY <1>1, <1>3, <3>1, <3>2 DEF SafeAt, InGuard, Working
  <2>3. CASE guard # None BY <1>5, <1>11, <2>1, <2>3 DEF TakeGuard
  <2> QED BY <2>2, <2>3
<1>12. CASE Recheck(p)
  <2>1. guard' = p BY <1>1, <1>12 DEF Recheck, SafeAt, InGuard
  <2>2. CASE lock.owner = run[p].seen /\ Stale
    <3>1. run'[p].pc = "move" /\ UNCHANGED lock BY <1>12, <2>2 DEF Recheck
    <3>2. lock.whole /\ lock.owner \in Runs /\ (run[lock.owner].pc \in Over \/ lock.owner \in Hidden)
      BY <2>2 DEF Stale, LockTyped, NoLock
    <3>3. lock.owner = p => p \in Hidden BY <1>12, <3>2 DEF Recheck, Over
    <3>4. lock.owner # p => run'[lock.owner] = run[lock.owner] BY <3>2, OthersStay
    <3> QED BY <2>1, <3>1, <3>2, <3>3, <3>4 DEF SafeAt, InGuard, Working
  <2>3. CASE ~(lock.owner = run[p].seen /\ Stale) BY <1>5, <1>12, <2>1, <2>3 DEF Recheck
  <2> QED BY <2>2, <2>3
<1>13. CASE MoveLock(p)
  <2>1. guard' = p BY <1>1, <1>13 DEF MoveLock, SafeAt, InGuard
  <2> QED BY <1>5, <1>13, <2>1 DEF MoveLock
<1>14. CASE Unguard(p)
  <2>1. run[p].next \in {"create", "unlock", "ended"} BY <1>1, <1>14 DEF Unguard, SafeAt
  <2> QED BY <1>5, <1>14, <2>1 DEF Unguard
<1>15. CASE Cleanup(p) BY <1>3, <1>4, <1>5, <1>6, <1>15 DEF Cleanup
<1>16. CASE ReadSlot(p) BY <1>3, <1>4, <1>6, <1>16 DEF ReadSlot
<1>17. CASE AssertOwned(p) BY <1>3, <1>4, <1>5, <1>6, <1>17 DEF AssertOwned
<1>18. CASE ReadExisting(p) BY <1>3, <1>4, <1>6, <1>18 DEF ReadExisting
<1>19. CASE Adopt(p) BY <1>5, <1>19 DEF Adopt
<1>20. CASE Stage(p) BY <1>3, <1>4, <1>5, <1>6, <1>20 DEF Stage
<1>21. CASE ReadWinner(p)
  <2>1. Guarded(p, "assert") => run'[p].pc = "guard" /\ run'[p].next = "assert"
    BY DEF RunTyped, Guarded
  <2> QED BY <1>3, <1>4, <1>6, <1>21, <2>1 DEF ReadWinner
<1>22. CASE AssertStillOwned(p)
  <2>1. guard' = p BY <1>1, <1>22 DEF AssertStillOwned, SafeAt, InGuard
  <2>2. CASE OwnsLock(p)
    <3>1. run'[p].pc = "fence" /\ OwnsLock(p)' BY <1>3, <1>22, <2>2 DEF AssertStillOwned
    <3> QED BY <2>1, <3>1 DEF SafeAt, InGuard, Working
  <2>3. CASE ~OwnsLock(p) BY <1>5, <1>22, <2>1, <2>3 DEF AssertStillOwned
  <2> QED BY <2>2, <2>3
<1>23. CASE Fence(p)
  <2>1. guard' = p /\ OwnsLock(p)' BY <1>1, <1>3, <1>23 DEF Fence, SafeAt, InGuard
  <2>2. CASE current
    <3>1. run'[p].pc = "rename" BY <1>23, <2>2 DEF Fence
    <3> QED BY <2>1, <3>1 DEF SafeAt, InGuard, Working
  <2>3. CASE ~current BY <1>5, <1>23, <2>1, <2>3 DEF Fence
  <2> QED BY <2>2, <2>3
<1>24. CASE PublishRename(p)
  <2>1. guard' = p BY <1>1, <1>24 DEF PublishRename, SafeAt, InGuard
  <2> QED BY <1>5, <1>24, <2>1 DEF PublishRename
<1>25. CASE ReleaseLock(p)
  <2>1. guard' = p BY <1>1, <1>25 DEF ReleaseLock, SafeAt, InGuard
  <2> QED BY <1>5, <1>25, <2>1 DEF ReleaseLock
<1>26. CASE Crash(p) BY <1>5, <1>26 DEF Crash
<1> QED
  BY <1>7, <1>8, <1>9, <1>10, <1>11, <1>12, <1>13, <1>14, <1>15, <1>16, <1>17, <1>18, <1>19,
     <1>20, <1>21, <1>22, <1>23, <1>24, <1>25, <1>26
  DEF Acquire, Publish

-----------------------------------------------------------------------------
\* The type invariant is kept by the steps of a run.
LEMMA TypeStep ==
    ASSUME Inv, NEW p \in Runs, Acquire(p) \/ Publish(p) \/ Crash(p)
    PROVE  TypeOK'
<1>1. RunTyped /\ LockTyped /\ RestTyped BY DEF Inv, TypeOK, RunTyped, LockTyped, RestTyped
<1>2. RunTyped' BY <1>1, RunStep DEF Inv
<1>3. LockTyped'
  <2>1. CASE UNCHANGED lock BY <1>1, <2>1 DEF LockTyped
  <2>2. CASE lock' = NoLock BY <2>2 DEF LockTyped, NoLock
  <2>3. ASSUME NEW w \in BOOLEAN, lock' = [owner |-> p, whole |-> w] PROVE LockTyped'
    BY <2>3 DEF LockTyped
  <2> QED BY <2>1, <2>2, <2>3, LockMoves DEF Inv
<1>4. aged' \in BOOLEAN /\ current' \in BOOLEAN
  BY <1>1
  DEF RestTyped, Acquire, Publish, Crash, Start, CreateLock, WriteLock, Observe, TakeGuard,
      Recheck, MoveLock, Unguard, Cleanup, ReadSlot, AssertOwned, ReadExisting, Adopt, Stage,
      ReadWinner, AssertStillOwned, Fence, PublishRename, ReleaseLock
<1>5. guard' \in Runs \cup {None} BY <1>1, OthersStay DEF RestTyped
<1>6. slot' \in Runs \cup {None} /\ staged' \subseteq Runs
  BY <1>1
  DEF RestTyped, Acquire, Publish, Crash, Start, CreateLock, WriteLock, Observe, TakeGuard,
      Recheck, MoveLock, Unguard, Cleanup, ReadSlot, AssertOwned, ReadExisting, Adopt, Stage,
      ReadWinner, AssertStillOwned, Fence, PublishRename, ReleaseLock
<1> QED BY <1>2, <1>3, <1>4, <1>5, <1>6 DEF TypeOK, RunTyped, LockTyped

LEMMA InvStep == Inv /\ [Next]_vars => Inv'
<1> SUFFICES ASSUME Inv, [Next]_vars PROVE Inv' OBVIOUS
<1>1. ASSUME NEW p \in Runs, Acquire(p) \/ Publish(p) \/ Crash(p) PROVE Inv'
  <2>1. TypeOK' BY <1>1, TypeStep
  <2>2. ASSUME NEW r \in Runs PROVE SafeAt(r)'
    <3>1. CASE r = p BY <1>1, <3>1, OwnSafe
    <3>2. CASE r # p BY <1>1, <3>2, OthersSafe
    <3> QED BY <3>1, <3>2
  <2>3. \A r \in Runs : SafeAt(r)' BY <2>2
  <2> QED
    BY <2>1, <2>3
    DEF SafeAt, Inv, GuardHeld, Purposes, WriterHasLock, MovedIsStale, WorkerHasLock,
        PublisherHasLock
<1>2. ASSUME UNCHANGED <<lock, guard, slot, staged, run>>, aged' \in BOOLEAN, current' \in BOOLEAN
      PROVE  Inv'
  <2>1. TypeOK' BY <1>2 DEF Inv, TypeOK
  <2> QED
    BY <1>2, <2>1
    DEF Inv, GuardHeld, Purposes, WriterHasLock, MovedIsStale, WorkerHasLock,
        PublisherHasLock, Working, OwnsLock
<1>3. CASE LockAges BY <1>2, <1>3 DEF LockAges, Inv, TypeOK
<1>4. CASE SourceMoves BY <1>2, <1>4 DEF SourceMoves, Inv, TypeOK
<1>5. CASE UNCHANGED vars BY <1>2, <1>5 DEF vars, Inv, TypeOK
<1> QED BY <1>1, <1>3, <1>4, <1>5 DEF Next

\* The inductive invariant holds in every reachable state.
LEMMA InvAlways == Spec => []Inv
BY InitInv, InvStep, PTL DEF Spec

\* The types of the files' contents and of every run's state.
THEOREM StoreTypeCorrect == Spec => []TypeOK
BY InvAlways, PTL DEF Inv

\* One run at a time generates the report, for any number of runs that find
\* stale locks in any order (acquire, tryReap, release).
THEOREM OneOwnerAlways == Spec => []OneOwner
<1>1. Inv => OneOwner
  <2> SUFFICES ASSUME Inv, NEW p \in Runs \ Hidden, NEW q \in Runs \ Hidden,
                      Working(p), Working(q)
               PROVE  p = q
    BY DEF OneOwner
  <2>1. OwnsLock(p) /\ OwnsLock(q) BY DEF Inv, WorkerHasLock
  <2> QED BY <2>1 DEF OwnsLock
<1> QED BY <1>1, InvAlways, PTL

\* What is published is published by the owner of lock and guard (publish).
THEOREM PublishedByOwnerAlways == Spec => PublishedByOwner
<1>1. Inv /\ [Next]_vars => [\A p \in Runs : slot # p /\ slot' = p => OwnsLock(p) /\ guard = p]_vars
  <2> SUFFICES ASSUME Inv, Next, NEW r \in Runs, slot # r, slot' = r
               PROVE  OwnsLock(r) /\ guard = r
    OBVIOUS
  <2>1. \E p \in Runs : PublishRename(p) /\ slot' = p
    <3>1. ASSUME NEW p \in Runs, Acquire(p) \/ Crash(p) PROVE FALSE
      BY <3>1
      DEF Acquire, Crash, Start, CreateLock, WriteLock, Observe, TakeGuard, Recheck, MoveLock,
          Unguard, Cleanup
    <3>2. ASSUME NEW p \in Runs, Publish(p), ~PublishRename(p) PROVE FALSE
      BY <3>2
      DEF Publish, ReadSlot, AssertOwned, ReadExisting, Adopt, Stage, ReadWinner,
          AssertStillOwned, Fence, ReleaseLock
    <3>3. ~LockAges /\ ~SourceMoves BY DEF LockAges, SourceMoves
    <3>4. \A p \in Runs : PublishRename(p) => slot' = p BY DEF PublishRename
    <3> QED BY <3>1, <3>2, <3>3, <3>4 DEF Next
  <2>2. PublishRename(r) BY <2>1
  <2>3. run[r].pc = "rename" BY <2>2 DEF PublishRename, At
  <2> QED BY <2>3 DEF Inv, GuardHeld, PublisherHasLock, InGuard
<1> QED BY <1>1, InvAlways, PTL DEF Spec, PublishedByOwner

\* The source has moved, and p has no report of its own out and was not past
\* its last look at the source.
TooLate(p) == ~current /\ ~LastFencePassed(p) /\ slot # p

\* It is too late for good: only Fence leads to the rename, and only with a
\* source that is current, and so does Adopt to an answer.
LEMMA TooLateStays ==
    ASSUME Inv, [Next]_vars, NEW p \in Runs, TooLate(p)
    PROVE  TooLate(p)'
<1>1. RunTyped BY DEF Inv, TypeOK, RunTyped
<1>2. ~current /\ run[p].pc # "rename" /\ run[p].result # "returned" /\ slot # p
  BY DEF TooLate, LastFencePassed
<1>3. ASSUME ~current', run'[p].pc # "rename", run'[p].result # "returned", slot' # p
      PROVE  TooLate(p)'
  BY <1>3 DEF TooLate, LastFencePassed
<1>4. ASSUME NEW q \in Runs, Acquire(q) \/ Publish(q) \/ Crash(q) PROVE TooLate(p)'
  <2>1. ~current'
    BY <1>2, <1>4
    DEF Acquire, Publish, Crash, Start, CreateLock, WriteLock, Observe, TakeGuard, Recheck,
        MoveLock, Unguard, Cleanup, ReadSlot, AssertOwned, ReadExisting, Adopt, Stage,
        ReadWinner, AssertStillOwned, Fence, PublishRename, ReleaseLock
  <2>2. PublishRename(q) => q # p BY <1>2 DEF PublishRename, At
  <2>3. slot' # p
    BY <1>2, <1>4, <2>2
    DEF Acquire, Publish, Crash, Start, CreateLock, WriteLock, Observe, TakeGuard, Recheck,
        MoveLock, Unguard, Cleanup, ReadSlot, AssertOwned, ReadExisting, Adopt, Stage,
        ReadWinner, AssertStillOwned, Fence, PublishRename, ReleaseLock
  <2>4. CASE q # p
    <3>1. run'[p] = run[p] BY <1>1, <1>4, <2>4, OthersStay
    <3> QED BY <1>2, <1>3, <2>1, <2>3, <3>1
  <2>5. CASE q = p
    <3>1. \A pc : Go(p, pc) => run'[p].pc = pc /\ run'[p].result = run[p].result
      BY <1>1 DEF RunTyped, Go
    <3>2. \A next, result : Leave(p, next, result) =>
                              run'[p].pc = "unguard" /\ run'[p].result = result
      BY <1>1 DEF RunTyped, Leave
    <3>3. \A result : Finish(p, result) => run'[p].pc = "guard" /\ run'[p].result = result
      BY <1>1 DEF RunTyped, Finish
    <3>4. Busy(p) => run'[p].pc = "ended" /\ run'[p].result = "busy"
      BY <1>1 DEF RunTyped, Busy
    <3>5. Guarded(p, "assert") => run'[p].pc = "guard" /\ run'[p].result = run[p].result
      BY <1>1 DEF RunTyped, Guarded
    <3>6. Inv => /\ run[p].pc = "guard" => run[p].next \in {"recheck", "assert", "unlock"}
                 /\ run[p].pc = "unguard" => run[p].next \in {"create", "unlock", "ended"}
      BY DEF Inv, Purposes
    <3> HIDE DEF RunTyped
    <3> USE <3>1, <3>2, <3>3, <3>4, <3>5, <3>6, <1>2 DEF At
    <3>7. CASE Acquire(p)
      <4>1. CASE WriteLock(p)
        <5>1. run' = [run EXCEPT ![p].pc = "ended", ![p].result = "failed"]
                => run'[p].pc # "rename" /\ run'[p].result # "returned"
          BY <1>1 DEF RunTyped
        <5> QED BY <1>3, <2>1, <2>3, <4>1, <5>1 DEF WriteLock
      <4>2. CASE Observe(p)
        <5>1. run' = [run EXCEPT ![p].pc = "guard", ![p].next = "recheck", ![p].seen = lock.owner]
                => run'[p].pc # "rename" /\ run'[p].result = run[p].result
          BY <1>1 DEF RunTyped
        <5> QED BY <1>3, <2>1, <2>3, <4>2, <5>1 DEF Observe
      <4> QED
        BY <1>3, <2>1, <2>3, <3>7, <4>1, <4>2
        DEF Acquire, Start, CreateLock, TakeGuard, Recheck, MoveLock, Unguard, Cleanup
    <3>8. CASE Publish(p)
      BY <1>3, <2>1, <2>3, <3>8
      DEF Publish, ReadSlot, AssertOwned, ReadExisting, Adopt, Stage, ReadWinner,
          AssertStillOwned, Fence, PublishRename, ReleaseLock
    <3>9. CASE Crash(p) BY <1>3, <2>1, <2>3, <3>9 DEF Crash
    <3> QED BY <1>4, <2>5, <3>7, <3>8, <3>9
  <2> QED BY <2>4, <2>5
<1>5. CASE LockAges BY <1>2, <1>3, <1>5 DEF LockAges
<1>6. CASE SourceMoves BY <1>2, <1>6 DEF SourceMoves
<1>7. CASE UNCHANGED vars BY <1>2, <1>3, <1>7 DEF vars
<1> QED BY <1>4, <1>5, <1>6, <1>7 DEF Next

\* After a switch of the source nothing is published and nothing is returned,
\* by any run that was not past its last fence (assertStillCurrent).
THEOREM NothingAfterSwitchEver == Spec => NothingAfterSwitch
<1>1. ASSUME NEW p \in Runs
      PROVE  Spec => [](TooLate(p) => [](run[p].result # "returned" /\ slot # p))
  <2>1. Inv /\ [Next]_vars /\ TooLate(p) => TooLate(p)' BY TooLateStays
  <2>2. TooLate(p) => run[p].result # "returned" /\ slot # p BY DEF TooLate, LastFencePassed
  <2> QED BY <2>1, <2>2, InvAlways, PTL DEF Spec
<1> QED BY <1>1 DEF NothingAfterSwitch, TooLate

=============================================================================
