--------------------------- MODULE MCPersistence ----------------------------
(* Small instances of Persistence. *)
EXTENDS Persistence

CONSTANTS other, reply1

\* A reply of one session, a row of another.
Two == [m \in Row |-> IF m = other THEN "s2" ELSE "s1"]
=============================================================================
