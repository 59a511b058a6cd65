------------------------------ MODULE MCToolCalls ------------------------------
(* Instances of ToolCalls for TLC.                                            *)
EXTENDS ToolCalls

CONSTANT Retried   \* the calls whose Tool may be tried twice

Twice == [c \in Calls |-> IF c \in Retried THEN 2 ELSE 1]

=============================================================================
