---------------------------- MODULE MCTurnQueue ----------------------------
(* Small instances of TurnQueue. *)
EXTENDS QueueOverlap

CONSTANTS t1, t2, t3, c1, c2, k1

Turns3 == {t1, t2, t3}

\* t1 and t2 are one request sent twice.
Retried == [t \in Turn |-> IF t = t3 THEN NoKey ELSE k1]
SameInput == [t \in Turn |-> 1]
=============================================================================
