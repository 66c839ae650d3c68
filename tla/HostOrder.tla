----------------------------- MODULE HostOrder -----------------------------
(***************************************************************************)
(* The Agent Host with a history variable that tells the behaviours apart  *)
(* in which every event was taken for one of the turn it belongs to.  What *)
(* the host promises of the order of its turns, it keeps only in those.    *)
(***************************************************************************)
EXTENDS AgentHost

VARIABLE astray \* history: an event was taken for one of another prompt's turn

orderVars == <<vars, astray>>

\* resolveTurnId takes the run of a prompt that went past the Agent Host, and
\* that it reads while the loop is draining, for the head of the queue; but the
\* loop has shifted its own record away by then.
Misread ==
  LET t == Head(wire).turn
  IN ReadEvent /\ Resolve(t) \notin {t, RunId(t)}

OrderInit == HostInit /\ astray = FALSE
OrderNext == HostNext /\ astray' = (~HostRestart /\ (astray \/ Misread))
OrderSpec == OrderInit /\ [][OrderNext]_orderVars

OrderLiveSpec == OrderSpec /\ HostFairness

-----------------------------------------------------------------------------
(* Properties *)

\* "Only one turn per session may be running"
\* (docs/spec/03-runtime/19-remote-agent-control-protocol.md:261).
OneRunning ==
  ~astray => \A i, j \in Id : IsActive(status[i]) /\ IsActive(status[j]) => i = j

\* What would run the queue is still to come: an active turn is backed by what
\* will end it, and the one way for a released prompt to be left asleep is a
\* push that returns to a session that has become idle meanwhile.
SomethingWakes == ~astray => ActiveHasRun /\ (Asleep => late)

\* A queued prompt of a released queue is taken, if no push comes late, no
\* approval is awaited and no event went astray.
QueueMoves ==
  \A t \in Turn :
    (t \in ToSet(Mem) /\ ~held) ~> (t \notin ToSet(Mem) \/ held \/ late \/ planning \/ astray)

=============================================================================
