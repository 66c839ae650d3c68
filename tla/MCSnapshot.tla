----------------------------- MODULE MCSnapshot -----------------------------
(* Small instances of Snapshot. *)
EXTENDS Snapshot

CONSTANTS a, m1
One == {a}
OneItem == {m1}
=============================================================================
