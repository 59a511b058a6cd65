--------------------------- MODULE EditorialStore ---------------------------
(***************************************************************************)
(* Editorial reports of one request key: the runs of the command-line tool *)
(* (EditorialReportPipeline.generate) that want to publish the same report *)
(* into one directory, the slot, of a file system they share               *)
(* (EditorialReportStore).  They agree by two files: the request lock,     *)
(* which names its owner, and the reap guard, under which alone a lock is  *)
(* removed and a slot is published.  A run is a process; it may die        *)
(* between any two of its awaits.                                          *)
(*                                                                         *)
(* All runs share a host: a lock of another host is never stale.  Failure  *)
(* diagnostics go to paths of their own and are left out.                  *)
(***************************************************************************)
EXTENDS Naturals

CONSTANTS
    Runs,     \* processes, each with a pid and an owner token of its own
    Hidden,   \* runs whose pid the others cannot see: isPidAlive is wrong about them
    None

ASSUME StoreAssumption == Hidden \subseteq Runs /\ None \notin Runs

VARIABLES
    lock,     \* the file locks/<key>.lock
    aged,     \* it is older than LOCK_STALE_MS
    guard,    \* the owner of locks/<key>.reap
    slot,     \* the run whose report the fallback slot holds
    staged,   \* runs with a directory under .staging
    current,  \* the task is still bound to the report package of the key
    run       \* run[p]: local state of process p

vars == <<lock, aged, guard, slot, staged, current, run>>

NoLock  == [owner |-> None, whole |-> FALSE]
NotRun  == [pc |-> "idle", seen |-> None, next |-> "idle", result |-> "none"]

Alive == {"create", "write", "observe", "guard", "recheck", "move", "unguard", "cleanup",
          "read", "owned", "existing", "stage", "winner", "assert", "fence", "rename",
          "adopt", "unlock"}
Over  == {"ended", "crashed"}

Init ==
    /\ lock = NoLock /\ aged = FALSE /\ guard = None
    /\ slot = None /\ staged = {} /\ current = TRUE
    /\ run = [p \in Runs |-> NotRun]

-----------------------------------------------------------------------------
At(p, pc)     == run[p].pc = pc
Go(p, pc)     == run' = [run EXCEPT ![p].pc = pc]

\* To the guard, and on to what is done under it.
Guarded(p, next) == run' = [run EXCEPT ![p].pc = "guard", ![p].next = next]

\* The finally of generate: give the lock back, whatever came out.
Finish(p, result) ==
    run' = [run EXCEPT ![p] = [@ EXCEPT !.pc = "guard", !.next = "unlock", !.result = result]]

\* Out of the guard first, when the outcome was found under it.
Leave(p, next, result) ==
    run' = [run EXCEPT ![p] = [@ EXCEPT !.pc = "unguard", !.next = next, !.result = result]]

\* EDITORIAL_REQUEST_BUSY: nothing is owned, so nothing is given back.
Busy(p) == run' = [run EXCEPT ![p].pc = "ended", ![p].result = "busy"]

\* The identity in the lock file is the one p created.
OwnsLock(p) == lock = [owner |-> p, whole |-> TRUE]

\* isStale: old enough, and the process of that pid is gone.
Stale ==
    /\ lock.whole /\ aged
    /\ run[lock.owner].pc \in Over \/ lock.owner \in Hidden

-----------------------------------------------------------------------------
(* acquire.                                                                *)

\* readCurrent, the materialization, and a first look at the ready slot, which
\* the model-free pipeline never fills.
Start(p) ==
    /\ At(p, "idle") /\ current /\ Go(p, "create")
    /\ UNCHANGED <<lock, aged, guard, slot, staged, current>>

\* createLock: the file is created exclusively, and written afterwards.
CreateLock(p) ==
    /\ At(p, "create")
    /\ IF lock = NoLock
       THEN /\ lock' = [owner |-> p, whole |-> FALSE] /\ aged' = FALSE
            /\ Go(p, "write")
       ELSE /\ IF run[p].seen = None THEN Go(p, "observe") ELSE Busy(p)
            /\ UNCHANGED <<lock, aged>>
    /\ UNCHANGED <<guard, slot, staged, current>>

\* A write or sync that fails leaves the file, with or without its content.
WriteLock(p) ==
    /\ At(p, "write")
    /\ \/ lock' = [lock EXCEPT !.whole = TRUE] /\ Go(p, "cleanup")
       \/ /\ \E whole \in BOOLEAN : lock' = [lock EXCEPT !.whole = whole]
          /\ run' = [run EXCEPT ![p].pc = "ended", ![p].result = "failed"]
    /\ UNCHANGED <<aged, guard, slot, staged, current>>

\* A lock that cannot be read counts as busy, like one that is not stale.
Observe(p) ==
    /\ At(p, "observe")
    /\ IF Stale
       THEN run' = [run EXCEPT ![p].pc = "guard", ![p].next = "recheck", ![p].seen = lock.owner]
       ELSE Busy(p)
    /\ UNCHANGED <<lock, aged, guard, slot, staged, current>>

\* tryCreateGuard.  Nobody removes the guard of another: a run that dies with
\* it leaves every later one busy.
TakeGuard(p) ==
    /\ At(p, "guard")
    /\ \/ guard = None /\ guard' = p /\ Go(p, run[p].next)
       \/ /\ guard # None /\ UNCHANGED guard
          /\ \/ run[p].next = "recheck" /\ Busy(p)
             \/ run[p].next = "assert" /\ Finish(p, "failed")
             \/ run[p].next = "unlock" /\ Go(p, "ended")
    /\ UNCHANGED <<lock, aged, slot, staged, current>>

\* Mutant of Recheck: the lock is not read again under the guard.
RecheckNothing(p) ==
    /\ At(p, "recheck") /\ Go(p, "move")
    /\ UNCHANGED <<lock, aged, guard, slot, staged, current>>

\* tryReap compares the lock with the observed one, twice, before the rename.
Recheck(p) ==
    /\ At(p, "recheck")
    /\ IF lock.owner = run[p].seen /\ Stale THEN Go(p, "move")
       ELSE Leave(p, "ended", "busy")
    /\ UNCHANGED <<lock, aged, guard, slot, staged, current>>

\* The rename moves what is at the path by now.
MoveLock(p) ==
    /\ At(p, "move") /\ lock' = NoLock
    /\ Leave(p, "create", "none")
    /\ UNCHANGED <<aged, guard, slot, staged, current>>

\* releaseExact of the guard; what follows was decided under it.
Unguard(p) ==
    /\ At(p, "unguard")
    /\ guard' = IF guard = p THEN None ELSE guard
    /\ Go(p, IF run[p].next = "unlock" THEN "guard" ELSE run[p].next)
    /\ UNCHANGED <<lock, aged, slot, staged, current>>

\* cleanup: staging directories of the key that are a day old are removed,
\* whosever they are; an error gives the lock back.
Cleanup(p) ==
    /\ At(p, "cleanup")
    /\ \E old \in SUBSET staged : staged' = staged \ old
    /\ Go(p, "read") \/ Finish(p, "failed")
    /\ UNCHANGED <<lock, aged, guard, slot, current>>

-----------------------------------------------------------------------------
(* generate under the lock, and publish.                                   *)

ReadSlot(p) ==
    /\ At(p, "read") /\ Go(p, IF slot = None THEN "owned" ELSE "adopt")
    /\ UNCHANGED <<lock, aged, guard, slot, staged, current>>

\* The report is rendered; publish begins with assertLockOwned.
AssertOwned(p) ==
    /\ At(p, "owned")
    /\ \/ OwnsLock(p) /\ Go(p, "existing")
       \/ Finish(p, "failed")
    /\ UNCHANGED <<lock, aged, guard, slot, staged, current>>

ReadExisting(p) ==
    /\ At(p, "existing") /\ Go(p, IF slot = None THEN "stage" ELSE "adopt")
    /\ UNCHANGED <<lock, aged, guard, slot, staged, current>>

\* Mutant of Adopt: what is in the slot is returned without the last fence.
AdoptUnfenced(p) ==
    /\ At(p, "adopt") /\ Finish(p, "returned")
    /\ staged' = staged \ {p}
    /\ UNCHANGED <<lock, aged, guard, slot, current>>

\* A report that is there is returned if the source is still current.
Adopt(p) ==
    /\ At(p, "adopt")
    /\ Finish(p, IF current THEN "returned" ELSE "switched")
    /\ staged' = staged \ {p}
    /\ UNCHANGED <<lock, aged, guard, slot, current>>

\* Five files are written and read back, the manifest last; the finally of
\* publish removes the directory of one that fails.
Stage(p) ==
    /\ At(p, "stage")
    /\ \/ Go(p, "winner") /\ staged' = staged \cup {p}
       \/ Finish(p, "failed") /\ UNCHANGED staged
    /\ UNCHANGED <<lock, aged, guard, slot, current>>

ReadWinner(p) ==
    /\ At(p, "winner")
    /\ IF slot = None THEN Guarded(p, "assert") ELSE Go(p, "adopt")
    /\ UNCHANGED <<lock, aged, guard, slot, staged, current>>

\* Mutant of AssertStillOwned: the lock is not compared under the guard.
AssertNothing(p) ==
    /\ At(p, "assert") /\ Go(p, "fence")
    /\ UNCHANGED <<lock, aged, guard, slot, staged, current>>

\* assertLockOwned once more, under the guard.
AssertStillOwned(p) ==
    /\ At(p, "assert")
    /\ IF OwnsLock(p) THEN Go(p, "fence") /\ UNCHANGED staged
       ELSE Leave(p, "unlock", "failed") /\ staged' = staged \ {p}
    /\ UNCHANGED <<lock, aged, guard, slot, current>>

\* assertStillCurrent, under the guard.
Fence(p) ==
    /\ At(p, "fence")
    /\ IF current THEN Go(p, "rename") /\ UNCHANGED staged
       ELSE Leave(p, "unlock", "switched") /\ staged' = staged \ {p}
    /\ UNCHANGED <<lock, aged, guard, slot, current>>

\* The staging is read once more, after the fence, and renamed to the slot.  A
\* rename onto a report that is there fails, and a directory that is gone too;
\* a winner is returned when the source is still current, and what does not
\* read back after the rename is an error although it stands.
PublishRename(p) ==
    /\ At(p, "rename") /\ staged' = staged \ {p}
    /\ \/ /\ p \in staged /\ slot = None /\ slot' = p
          /\ Leave(p, "unlock", "returned") \/ Leave(p, "unlock", "failed")
       \/ /\ slot # None /\ UNCHANGED slot
          /\ Leave(p, "unlock", IF current THEN "returned" ELSE "switched")
       \/ slot = None /\ Leave(p, "unlock", "failed") /\ UNCHANGED slot
    /\ UNCHANGED <<lock, aged, guard, current>>

-----------------------------------------------------------------------------
(* release.                                                                *)

\* releaseExact of the lock; generate does not look at what release returns.
ReleaseLock(p) ==
    /\ At(p, "unlock")
    /\ lock' = IF OwnsLock(p) THEN NoLock ELSE lock
    /\ Leave(p, "ended", run[p].result)
    /\ UNCHANGED <<aged, guard, slot, staged, current>>

-----------------------------------------------------------------------------
(* The rest of the system.                                                 *)

\* Fifteen minutes pass.
LockAges ==
    /\ lock # NoLock /\ ~aged /\ aged' = TRUE
    /\ UNCHANGED <<lock, guard, slot, staged, current, run>>

\* The task leaves the completed state or its report package is invalidated.
SourceMoves ==
    /\ current /\ current' = FALSE
    /\ UNCHANGED <<lock, aged, guard, slot, staged, run>>

Crash(p) ==
    /\ run[p].pc \in Alive /\ Go(p, "crashed")
    /\ UNCHANGED <<lock, aged, guard, slot, staged, current>>

Acquire(p) ==
    \/ Start(p) \/ CreateLock(p) \/ WriteLock(p) \/ Observe(p)
    \/ TakeGuard(p) \/ Recheck(p) \/ MoveLock(p) \/ Unguard(p) \/ Cleanup(p)

Publish(p) ==
    \/ ReadSlot(p) \/ AssertOwned(p) \/ ReadExisting(p) \/ Adopt(p) \/ Stage(p)
    \/ ReadWinner(p) \/ AssertStillOwned(p) \/ Fence(p) \/ PublishRename(p)
    \/ ReleaseLock(p)

Next ==
    \/ \E p \in Runs : Acquire(p) \/ Publish(p) \/ Crash(p)
    \/ LockAges \/ SourceMoves

Spec == Init /\ [][Next]_vars

-----------------------------------------------------------------------------
States  == {"idle"} \cup Alive \cup Over
Nexts   == {"idle", "recheck", "create", "assert", "unlock", "ended"}
Results == {"none", "busy", "failed", "switched", "returned"}

TypeOK ==
    /\ lock \in [owner : Runs \cup {None}, whole : BOOLEAN]
    /\ lock.owner = None => lock = NoLock
    /\ aged \in BOOLEAN /\ current \in BOOLEAN
    /\ guard \in Runs \cup {None} /\ slot \in Runs \cup {None}
    /\ staged \subseteq Runs
    /\ run \in [Runs -> [pc : States, seen : Runs \cup {None}, next : Nexts, result : Results]]

\* Between acquire and release.
Working(p) ==
    \/ run[p].pc \in {"cleanup", "read", "owned", "existing", "stage", "winner",
                      "assert", "fence", "rename", "adopt"}
    \/ run[p].pc = "guard" /\ run[p].next = "assert"

\* One owner generates a report at a time, however many runs find the lock of
\* a dead one at once: a reclaimer never moves, and an old owner whose pid was
\* misjudged never removes, the lock of its successor (tryReap, releaseExact).
OneOwner ==
    \A p, q \in Runs \ Hidden : Working(p) /\ Working(q) => p = q

\* Only the run that holds the lock and the guard publishes, also when its
\* lock was taken for stale while it staged (publish).
PublishedByOwner ==
    [][\A p \in Runs : slot # p /\ slot' = p => OwnsLock(p) /\ guard = p]_vars

\* It has read the source for the last time before it answers.
LastFencePassed(p) ==
    run[p].pc = "rename" \/ run[p].result = "returned"

\* docs/plans/2026-08-27-editorial-report-postprocessing-development.md 8: when
\* the source has moved, a run that had not passed its last fence neither
\* publishes nor returns a report, its own or that of another.
NothingAfterSwitch ==
    \A p \in Runs :
        [](~current /\ ~LastFencePassed(p) /\ slot # p
            => [](run[p].result # "returned" /\ slot # p))
=============================================================================
