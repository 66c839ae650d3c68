---------------------------- MODULE MCAgentHost ----------------------------
(* Small instances of AgentHost. *)
EXTENDS AgentHost, TLC

CONSTANTS t1, t2, t3, c1, d

Turns3 == {t1, t2, t3}
OneClient == {c1, d}

NoKeys    == [t \in Turn |-> NoKey]
SameInput == [t \in Turn |-> 1]

EndsOnce  == {<<"end">>, <<"error">>}

\* A run stopped by a guard reports an error and then its end (runtime.ts:6595).
EndsTwice == {<<"end">>, <<"error", "end">>}

\* One fault at most, a restart or a sidecar exit, and an approval only without
\* one: it needs a running prompt and a queued one, not the third.
FewFaults ==
  /\ crashes + restarts <= 1
  /\ planning => crashes + restarts = 0 /\ issued # Turn

\* A restart with an empty table is a beginning with fewer prompts.
RestartsQueued == restarts' # restarts => rows # <<>>

Sym == Permutations(Turn)
=============================================================================
