---------------------------- MODULE MCMainTurns ----------------------------
(* Small instances of MainTurns. *)
EXTENDS MainTurns

CONSTANTS r1, r2, p1, p2
Runs2 == {r1, r2}
Prompters2 == {p1, p2}
=============================================================================
