---------------------------- MODULE MCHostOrder ----------------------------
(* Small instances of HostOrder. *)
EXTENDS HostOrder

CONSTANTS t1, t2, t3, t4, c1, d

Turns4 == {t1, t2, t3, t4}

OneClient == {c1, d}

NoKeys    == [t \in Turn |-> NoKey]
SameInput == [t \in Turn |-> 1]

EndsOnce  == {<<"end">>, <<"error">>}

\* The prompts are alike, so they may as well be issued in this order.
InOrder ==
  /\ t2 \in issued => t1 \in issued
  /\ t3 \in issued => t2 \in issued
  /\ t4 \in issued => t3 \in issued

\* A restart with an empty table is a beginning with fewer prompts.
RestartsQueued == restarts' # restarts => rows # <<>>
=============================================================================
