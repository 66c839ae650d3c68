---------------------------- MODULE MCToolBudget ----------------------------
(* Small instances of ToolBudget. *)
EXTENDS ToolBudget

CONSTANTS a, b, c, d

Calls4 == {a, b, c, d}

\* Two writers and a shell in one session, a shell in another.
TwoSessions == [x \in Call |-> IF x \in {a, b, c} THEN "s1" ELSE "s2"]
Mixed == [x \in Call |-> IF x \in {a, b} THEN "mutation" ELSE "shell"]

OneEach == [k \in ToolClass |-> 1]
=============================================================================
