----------------------------- MODULE ToolCalls -----------------------------
(***************************************************************************)
(* The calls of browser Tools by the steps of one worker process: the      *)
(* scope of a step with its deadline and its abort signal                  *)
(* (lease-execution-engine.ts), the tries of invokeWithRetry               *)
(* (tool-retry-policy.ts), the ToolRouter (tool-adapter.ts), the life of a *)
(* Chromium (playwright-page-capture-adapter.ts) and the gate that bounds  *)
(* how many there are (browser-execution-gate.ts).                         *)
(*                                                                         *)
(* One step of a call runs from one await to the next.  The database, the  *)
(* clock, Chromium and its launch are the environment: a launch or a close *)
(* may never be answered, and an answer may come when nobody waits for it. *)
(* Pages are one step with their result: their own timeouts bound them.    *)
(***************************************************************************)
EXTENDS Naturals, Sequences, FiniteSets, SequencesExt

CONSTANTS
    Calls,      \* calls of Tools by steps that run at the same time
    MaxActive,  \* browsers at a time
    MaxQueued,  \* calls that wait for one
    MaxTries    \* MaxTries[c]: retry_policy.max_attempts of the Tool that c calls

ASSUME CallsAssumption ==
    MaxActive \in Nat \ {0} /\ MaxQueued \in Nat /\ MaxTries \in [Calls -> Nat \ {0}]

\* The tries of all calls.
Tries == UNION {{c} \X (1 .. MaxTries[c]) : c \in Calls}

VARIABLES
    scope,    \* scope[c]: "late" past its deadline, "aborted" once its signal is
    call,     \* call[c]: where the call is, its try, and what that brought so far
    active,   \* the gate's count
    queue,    \* the gate's waiters
    held,     \* tries that hold a slot of the gate
    browser,  \* the Chromium of each try
    watched   \* tries whose slot is released once their browser is gone

gateVars == <<active, queue, held>>
vars == <<scope, call, gateVars, browser, watched>>

Init ==
    /\ scope = [c \in Calls |-> "open"]
    /\ call = [c \in Calls |-> [pc |-> "require", try |-> 0, got |-> "none"]]
    /\ active = 0 /\ queue = <<>>
    /\ held = {} /\ browser = [r \in Tries |-> "none"]
    /\ watched = {}

\* The try that c is at.
This(c) == <<c, call[c].try>>

At(c, pc) == call[c].pc = pc
Go(c, pc) == call' = [call EXCEPT ![c].pc = pc]

\* throwIfToolInvocationAborted, abortedResult.
Stopped(c) == scope[c] # "open"

\* How a call ends: with its result, an error, or because it had to stop.
Ends == {"ok", "failed", "stopped"}
Done(c) == call[c].pc \in Ends

\* Mutant of Retries: an unconfirmed cleanup is an error like any other.
RetriesUnsafe(c, got) == got \in {"retryable", "unsafe"} /\ call[c].try < MaxTries[c]

\* retryableFailure, before the last try.
Retries(c, got) == got = "retryable" /\ call[c].try < MaxTries[c]

\* The router and the policy in the turn in which a try ends, by what it
\* brought: a reason to stop is worth more than the result.
After(c, got) ==
    LET then == CASE Stopped(c)                      -> "stopped"
                  [] ~Stopped(c) /\ got = "ok"       -> "confirm"
                  [] ~Stopped(c) /\ Retries(c, got)  -> "recheck"
                  [] OTHER                           -> "failed"
    IN [call EXCEPT ![c].pc = then, ![c].got = "none"]

-----------------------------------------------------------------------------
(* The gate.  release frees one slot and drains the queue in the same turn;  *)
(* a waiter whose time is over is rejected and the next one is looked at.    *)

\* Mutant of Shifted: drain ends at the first waiter whose time is over.
ShiftedOne(room) == {i \in DOMAIN queue : i = 1 /\ room > 0}

\* The places of the queue that drain shifts when there is room for so many.
Shifted(room) ==
    {i \in DOMAIN queue : Cardinality({j \in 1 .. i - 1 : ~Stopped(queue[j])}) < room}

\* lease.release of try r, with the calls otherwise as in cs; a second release
\* of the same lease does nothing.
Release(r, cs) ==
    LET shifted  == Shifted(MaxActive - active + 1)
        waiters  == {queue[i] : i \in shifted}
        admitted == {d \in waiters : ~Stopped(d)}
    IN IF r \notin held THEN call' = cs /\ UNCHANGED gateVars
       ELSE /\ active' = active - 1 + Cardinality(admitted)
            /\ queue' = SubSeq(queue, Cardinality(shifted) + 1, Len(queue))
            /\ held' = (held \ {r}) \cup {This(d) : d \in admitted}
            /\ call' = [d \in Calls |->
                 CASE d \in admitted           -> [cs[d] EXCEPT !.pc = "granted"]
                   [] d \in waiters \ admitted -> [cs[d] EXCEPT !.pc = "stopped"]
                   [] OTHER                    -> cs[d]]

\* normalizePages, when no page is eligible.
NoPages(c) ==
    /\ At(c, "acquire")
    /\ \E got \in {"retryable", "fatal"} : call' = After(c, got)
    /\ UNCHANGED <<scope, gateVars, browser, watched>>

\* acquire.
Acquire(c) ==
    /\ At(c, "acquire")
    /\ CASE Stopped(c) -> call' = After(c, "aborted") /\ UNCHANGED gateVars
         [] ~Stopped(c) /\ active < MaxActive ->
              /\ active' = active + 1 /\ held' = held \cup {This(c)}
              /\ Go(c, "granted") /\ UNCHANGED queue
         [] ~Stopped(c) /\ active >= MaxActive /\ Len(queue) >= MaxQueued ->
              call' = After(c, "retryable") /\ UNCHANGED gateVars        \* capacity
         [] OTHER -> queue' = Append(queue, c) /\ Go(c, "queued") /\ UNCHANGED <<active, held>>
    /\ UNCHANGED <<scope, browser, watched>>

\* settleError of a waiter: spliced out of the queue, its promise rejected.
LeaveQueue(c, cs) ==
    /\ \E i \in DOMAIN queue : queue[i] = c /\ queue' = RemoveAt(queue, i)
    /\ call' = cs /\ UNCHANGED <<active, held>>

\* settleAtQueueExpiry and settleAtDeadline.
QueueTimer(c) ==
    /\ At(c, "queued") /\ LeaveQueue(c, After(c, "retryable"))
    /\ UNCHANGED <<scope, browser, watched>>

-----------------------------------------------------------------------------
(* The adapter, from the slot to the end of Chromium.                        *)

\* Into the finally block of a call that has a browser, with a primary error or
\* none: the browser is watched, closed and waited for.
Closing(c, got) ==
    /\ call' = [call EXCEPT ![c].pc = "closing", ![c].got = got]
    /\ watched' = watched \cup {This(c)}

\* Mutant of Launch: the wait in the queue took no time.
LaunchAnyway(c) ==
    /\ At(c, "granted") /\ Go(c, "launch")
    /\ browser' = [browser EXCEPT ![This(c)] = "launching"]
    /\ UNCHANGED <<scope, gateVars, watched>>

Launch(c) ==
    /\ At(c, "granted")
    /\ IF Stopped(c) THEN Go(c, "abandon") /\ UNCHANGED browser
       ELSE Go(c, "launch") /\ browser' = [browser EXCEPT ![This(c)] = "launching"]
    /\ UNCHANGED <<scope, gateVars, watched>>

\* runBounded around the launch gives up; the launch goes on.
LaunchGivenUp(c) ==
    /\ At(c, "launch") /\ Stopped(c) /\ Go(c, "abandon")
    /\ UNCHANGED <<scope, gateVars, browser, watched>>

\* Chromium is up.  Its call goes on, or into finally with a browser to close;
\* when the call has left, the chain on the late launch watches and closes it.
LaunchSucceeds(r) ==
    LET c == r[1]
        waits == At(c, "launch") /\ r = This(c)
    IN /\ browser[r] = "launching" /\ browser' = [browser EXCEPT ![r] = "up"]
       /\ CASE waits /\ ~Stopped(c) -> Go(c, "pages") /\ UNCHANGED watched
            [] waits /\ Stopped(c)  -> Closing(c, "aborted")
            [] OTHER                -> UNCHANGED <<call, watched>>
       /\ UNCHANGED <<scope, gateVars>>

\* The launch fails; the late chain gives the slot back.
LaunchFails(r) ==
    /\ browser[r] = "launching" /\ browser' = [browser EXCEPT ![r] = "none"]
    /\ CASE At(r[1], "launch") /\ r = This(r[1]) ->
              Go(r[1], "abandon") /\ UNCHANGED <<gateVars, watched>>
         [] r \in watched -> Release(r, call) /\ watched' = watched \ {r}
         [] OTHER -> UNCHANGED <<call, gateVars, watched>>
    /\ UNCHANGED scope

\* newContext, the network controls and the pages: captures, or the kind of
\* failure that the pages had in common.
Pages(c) ==
    /\ At(c, "pages")
    /\ \E got \in IF Stopped(c) THEN {"aborted"} ELSE {"ok", "retryable", "fatal"} :
         Closing(c, got)
    /\ UNCHANGED <<scope, gateVars, browser>>

\* Mutant of Abandon: what is still launching is not waited for.
AbandonAtOnce(c) ==
    /\ At(c, "abandon") /\ Release(This(c), After(c, "fatal"))
    /\ UNCHANGED <<scope, browser, watched>>

\* Mutant of Abandon: the end of a late launch is awaited.
AbandonAwaits(c) ==
    /\ At(c, "abandon") /\ browser[This(c)] # "launching"
    /\ IF browser[This(c)] = "none"
       THEN Release(This(c), After(c, "fatal")) /\ UNCHANGED watched
       ELSE call' = After(c, "unsafe") /\ watched' = watched \cup {This(c)}
            /\ UNCHANGED gateVars
    /\ UNCHANGED <<scope, browser>>

\* finally, when the call knows of no browser: what came up behind its back, or
\* still may, is left to the late chain, and the cleanup is unconfirmed.
Abandon(c) ==
    /\ At(c, "abandon")
    /\ IF browser[This(c)] = "none"
       THEN Release(This(c), After(c, "fatal")) /\ UNCHANGED watched
       ELSE call' = After(c, "unsafe") /\ watched' = watched \cup {This(c)}
            /\ UNCHANGED gateVars
    /\ UNCHANGED <<scope, browser>>

\* Chromium exits, closed or on its own; whoever watches it releases the slot.
BrowserGone(r) ==
    /\ browser[r] = "up" /\ browser' = [browser EXCEPT ![r] = "none"]
    /\ IF r \in watched THEN Release(r, call) /\ watched' = watched \ {r}
       ELSE UNCHANGED <<call, gateVars, watched>>
    /\ UNCHANGED scope

\* waitForClose: confirmed, or not in time (cleanupFailure).
Close(c) ==
    /\ At(c, "closing")
    /\ IF browser[This(c)] = "none"
       THEN Release(This(c), After(c, call[c].got)) /\ watched' = watched \ {This(c)}
       ELSE call' = After(c, "unsafe") /\ UNCHANGED <<gateVars, watched>>
    /\ UNCHANGED <<scope, browser>>

-----------------------------------------------------------------------------
(* The scope of a step and the retry policy.                                 *)

\* Where the lease is asked for, and what follows in the turn of the answer when
\* it is active: after "check" and "again" a try, which enters the router.
Follows == [require |-> "check", check |-> "acquire", recheck |-> "sleep",
            again |-> "acquire", confirm |-> "publish"]

GoOn(c) ==
    LET then == Follows[call[c].pc]
    IN call' = [call EXCEPT ![c].pc = then,
                            ![c].try = IF then = "acquire" THEN @ + 1 ELSE @]

\* The policy looks at the signal and the clock after the answer, and
\* requireActiveToolLease at the signal only.
Heard(c) == scope[c] = "open" \/ (scope[c] = "late" /\ call[c].pc \in {"require", "confirm"})

\* leaseActive and requireActiveToolLease.  What the database answers is not
\* known here; no, or a fault, aborts the scope.
AskLease(c) ==
    /\ call[c].pc \in DOMAIN Follows
    /\ \/ Stopped(c) /\ Go(c, "stopped") /\ UNCHANGED scope
       \/ Heard(c) /\ GoOn(c) /\ UNCHANGED scope
       \/ Heard(c) /\ Go(c, "stopped") /\ scope' = [scope EXCEPT ![c] = "aborted"]
    /\ UNCHANGED <<gateVars, browser, watched>>

\* sleepUntilBackoffOrAbort.
Sleep(c) ==
    /\ At(c, "sleep")
    /\ IF Stopped(c) THEN Go(c, "stopped") ELSE Go(c, "again")
    /\ UNCHANGED <<scope, gateVars, browser, watched>>

\* The rest of runTool may refuse the output; then assertActive of the scope.
Publish(c) ==
    /\ At(c, "publish")
    /\ IF Stopped(c) THEN Go(c, "stopped") ELSE \E how \in {"ok", "failed"} : Go(c, how)
    /\ UNCHANGED <<scope, gateVars, browser, watched>>

DeadlinePasses(c) ==
    /\ scope[c] = "open" /\ ~Done(c) /\ scope' = [scope EXCEPT ![c] = "late"]
    /\ UNCHANGED <<call, gateVars, browser, watched>>

\* abort of the scope, by its timer or by a heartbeat that fails, because the
\* lease is lost or by a fault; a waiter of the gate hears it at once.
Abort(c) ==
    /\ scope[c] # "aborted" /\ ~Done(c) /\ scope' = [scope EXCEPT ![c] = "aborted"]
    /\ IF At(c, "queued")
       THEN LeaveQueue(c, [call EXCEPT ![c].pc = "stopped"])
       ELSE UNCHANGED <<call, gateVars>>
    /\ UNCHANGED <<browser, watched>>

Step(c) ==
    \/ AskLease(c) \/ NoPages(c) \/ Acquire(c) \/ QueueTimer(c) \/ Launch(c)
    \/ LaunchGivenUp(c) \/ Pages(c) \/ Abandon(c) \/ Close(c) \/ Sleep(c) \/ Publish(c)

Next ==
    \/ \E c \in Calls : Step(c) \/ DeadlinePasses(c) \/ Abort(c)
    \/ \E r \in Tries : LaunchSucceeds(r) \/ LaunchFails(r) \/ BrowserGone(r)

Spec == Init /\ [][Next]_vars

\* The process runs and time passes; nothing else is sure to happen: neither a
\* launch nor a close need ever be answered.
FairSpec == Spec /\ \A c \in Calls : WF_vars(Step(c)) /\ WF_vars(DeadlinePasses(c))

-----------------------------------------------------------------------------
\* Every Chromium that runs or may still come up has a slot of the gate, so
\* that no more than maxActive run, also those their calls gave up on.
BrowsersAreCounted ==
    /\ active = Cardinality(held) /\ active <= MaxActive
    /\ \A r \in Tries : browser[r] # "none" => r \in held

\* No call waits while there is a slot: whoever frees one hands it on, past
\* waiters whose time is over, and each waiter is in the queue once.
NoWaitForFreeSlot ==
    /\ queue # <<>> => active = MaxActive
    /\ \A c \in Calls : At(c, "queued") <=> Contains(queue, c)
    /\ Len(queue) <= MaxQueued /\ IsInjective(queue)

\* A call goes on, to another try or to its success, only when the Chromium of
\* its last try is known to be gone; an unconfirmed cleanup ends it.
GoneBeforeGoingOn ==
    \A r \in Tries :
        \/ r[2] < call[r[1]].try
        \/ call[r[1]].pc \in {"recheck", "sleep", "again", "confirm", "publish", "ok"}
        => browser[r] = "none" /\ r \notin held

\* Once the lease or the time of a step is known to be gone, no try of it
\* begins, no Chromium is launched for it, and no answer of it counts.
NothingNewOnceStopped ==
    [][ /\ \A c \in Calls : Stopped(c) =>
              call'[c].try = call[c].try /\ (call'[c].pc = "ok" => At(c, "ok"))
        /\ \A r \in Tries : Stopped(r[1]) /\ browser'[r] = "launching" =>
              browser[r] = "launching" ]_vars

\* Every call ends, although a launch or a close may never be answered and the
\* slots that such browsers keep are never given back.
EveryCallEnds == <>(\A c \in Calls : Done(c))

=============================================================================
