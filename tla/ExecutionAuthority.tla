------------------------- MODULE ExecutionAuthority -------------------------
(***************************************************************************)
(* What the control plane promises about who may execute a task.           *)
(*                                                                         *)
(* Authority over the task is granted to one attempt at a time, and never  *)
(* to the same attempt twice.  It ends when the attempt is suspended or    *)
(* the task is closed; a closed task stays closed.  Every change a client  *)
(* can observe advances the version, so that a decision taken on an older  *)
(* version is recognised as stale.                                         *)
(***************************************************************************)
EXTENDS Naturals

CONSTANT Attempts

VARIABLES
    phase,    \* open: may be granted; held; suspended: waits for a decision; closed
    holders,  \* the attempts with authority
    spent,    \* the attempts that ever had it
    version

vars == <<phase, holders, spent, version>>

Init == phase = "open" /\ holders = {} /\ spent = {} /\ version = 0

Grant(a) ==
    /\ phase = "open" /\ a \notin spent
    /\ phase' = "held" /\ holders' = {a} /\ spent' = spent \cup {a}
    /\ version' = version + 1

\* The holder goes from executing to reviewing to composing.
Advance ==
    /\ phase = "held" /\ version' = version + 1
    /\ UNCHANGED <<phase, holders, spent>>

Suspend ==
    /\ phase = "held" /\ phase' = "suspended" /\ holders' = {}
    /\ version' = version + 1 /\ UNCHANGED spent

\* A retry, a new plan, a confirmation or an approval.
Reopen ==
    /\ phase \in {"open", "suspended"} /\ phase' = "open"
    /\ version' = version + 1 /\ UNCHANGED <<holders, spent>>

Close ==
    /\ phase # "closed" /\ phase' = "closed" /\ holders' = {}
    /\ version' = version + 1 /\ UNCHANGED spent

Next == (\E a \in Attempts : Grant(a)) \/ Advance \/ Suspend \/ Reopen \/ Close

Spec == Init /\ [][Next]_vars
=============================================================================
