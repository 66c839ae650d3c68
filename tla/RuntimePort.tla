----------------------------- MODULE RuntimePort ----------------------------
(***************************************************************************)
(* What Electron Main shows of a session through the runtime port of the   *)
(* Agent Host (packages/agent-host/src/ports.ts, `RuntimePort'): the run   *)
(* it holds the session for, and how far that one is.  A run is closed     *)
(* before the session is free again, and the only run whose place another  *)
(* one takes is a run that is already closing.                             *)
(***************************************************************************)
EXTENDS Naturals

CONSTANTS Run, NoRun

VARIABLES
  phase, \* "none", "open", "closing", or "overtaken": the run before `run' is closing
  run,
  boots  \* restarts of Electron Main

portVars == <<phase, run, boots>>

PortInit == phase = "none" /\ run = NoRun /\ boots = 0

\* A prompt is admitted.
Opens(r) ==
  /\ phase = "none"
  /\ phase' = "open" /\ run' = r
  /\ UNCHANGED boots

\* Its run has ended, was aborted or is given up.
Closes ==
  /\ phase = "open"
  /\ phase' = "closing"
  /\ UNCHANGED <<run, boots>>

\* Nobody waits for it any more.
Frees ==
  /\ phase = "closing"
  /\ phase' = "none" /\ run' = NoRun
  /\ UNCHANGED boots

\* The next run opens between the end of a row and the end of its turn.
Overtakes(r) ==
  /\ phase = "closing" /\ r # run
  /\ phase' = "overtaken" /\ run' = r
  /\ UNCHANGED boots

Settles ==
  /\ phase = "overtaken"
  /\ phase' = "open"
  /\ UNCHANGED <<run, boots>>

Reboots == boots' = boots + 1 /\ phase' = "none" /\ run' = NoRun

PortNext ==
  \/ \E r \in Run : Opens(r) \/ Overtakes(r)
  \/ Closes \/ Frees \/ Settles \/ Reboots

PortSpec == PortInit /\ [][PortNext]_portVars

=============================================================================
