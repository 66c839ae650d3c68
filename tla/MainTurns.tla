----------------------------- MODULE MainTurns -----------------------------
(***************************************************************************)
(* The life of a durable turn of ONE session in Electron Main              *)
(* (apps/desktop/electron/main/index.ts): the agentPrompt and agentAbort   *)
(* handlers, finishTurn, and the sidecar's event stream, over the turns    *)
(* table of host-core (crates/host-core/src/sessions.rs).                  *)
(*                                                                         *)
(* Main owns activeTurns (the turn it believes is running) and             *)
(* turnFinalizations (the endTurn in flight).  finishTurn takes a session, *)
(* not a turn: it closes whatever activeTurns holds when it is called.     *)
(***************************************************************************)
EXTENDS Naturals, Sequences

CONSTANTS
  Run, NoRun,    \* durable turn ids minted by session.beginTurn
  Prompter,      \* concurrent callers of the agentPrompt handler
  MaxAborts,     \* bound: agentAbort calls explored
  MaxCrashes,    \* bound: unexpected sidecar exits explored
  MaxLosses      \* bound: lost host-core calls explored

ASSUME MainAssumption ==
  /\ NoRun \notin Run
  /\ MaxAborts \in Nat /\ MaxCrashes \in Nat /\ MaxLosses \in Nat

VARIABLES
  codex,      \* NEXUS_AGENT_ENGINE=codex, where stale events are dropped
  row,        \* status of each row of the turns table
  activeRun,  \* activeTurns.get(session)
  fin,        \* turnFinalizations.get(session)
  prompt,     \* the agentPrompt call of each prompter
  rt,         \* the run the sidecar's runtime is streaming
  wire,       \* agent events written by the sidecar and not yet read
  abort,      \* the agentAbort call: "idle", "sent", "closing"
  joined,     \* a turn was opened while another was being finalized
  exiting,    \* exit handlers of the sidecar that have not come to finishTurn
  aborts, crashes, losses

mainVars == <<codex, row, activeRun, fin, prompt, rt, wire, abort, joined,
              exiting, aborts, crashes, losses>>
\* What only a few actions change.
ghosts == <<codex, joined, losses, exiting>>

RowStatus == {"none", "running", "completed", "aborted", "error"}
\* What an event says; the last two end a run.
EventType == {"start", "end", "error"}
NoFin    == [run |-> NoRun, status |-> "none", cause |-> NoRun, phase |-> "none"]
NoPrompt == [phase |-> "idle", run |-> NoRun]
PromptPhase == {"idle", "launch", "begun", "open", "calling", "accepted",
                "rejected", "closing", "failed"}

MainTypeOK ==
  /\ row \in [Run -> RowStatus]
  /\ activeRun \in Run \cup {NoRun}
  /\ fin \in {NoFin} \cup [run : Run, status : RowStatus \ {"none", "running"},
                           cause : Run \cup {NoRun}, phase : {"sent", "done"}]
  /\ prompt \in [Prompter -> [phase : PromptPhase, run : Run \cup {NoRun}]]
  /\ rt \in Run \cup {NoRun}
  /\ wire \in Seq([type : EventType, run : Run])
  /\ abort \in {"idle", "sent", "closing"}
  /\ codex \in BOOLEAN /\ joined \in BOOLEAN /\ exiting \in 0..crashes
  /\ aborts \in 0..MaxAborts /\ crashes \in 0..MaxCrashes /\ losses \in 0..MaxLosses

MainInit ==
  /\ row = [r \in Run |-> "none"]
  /\ activeRun = NoRun /\ fin = NoFin
  /\ prompt = [p \in Prompter |-> NoPrompt]
  /\ rt = NoRun /\ wire = <<>>
  /\ codex \in BOOLEAN /\ joined = FALSE /\ exiting = 0
  /\ abort = "idle" /\ aborts = 0 /\ crashes = 0 /\ losses = 0

-----------------------------------------------------------------------------
(* finishTurn *)

Running == {r \in Run : row[r] = "running"}
\* isSessionBusy, what the Agent Host asks before it starts a turn.
MainBusy == activeRun # NoRun \/ fin # NoFin

\* A call joins the finalization in flight, or closes the active turn (`cause'
\* remembers the run whose event asked for it), or has nothing to wait for.
FinishTurn(status, cause) ==
  fin' = IF fin # NoFin \/ activeRun = NoRun THEN fin
         ELSE [run |-> activeRun, status |-> status, cause |-> cause,
               phase |-> "sent"]

\* A host-core call is lost.
Lose == losses < MaxLosses /\ losses' = losses + 1

NothingToFinish == fin = NoFin /\ activeRun = NoRun

\* session.endTurn updates the row only while it is running.
EndTurn ==
  /\ fin.phase = "sent"
  /\ row' = IF row[fin.run] = "running" THEN [row EXCEPT ![fin.run] = fin.status] ELSE row
  /\ fin' = [fin EXCEPT !.phase = "done"]
  /\ UNCHANGED <<activeRun, prompt, rt, wire, abort, aborts, crashes, ghosts>>

\* Mutant: a failed endTurn skips the finally block.
EndTurnLostKeepsActive ==
  /\ Lose /\ fin.phase = "sent" /\ fin' = NoFin
  /\ UNCHANGED <<row, activeRun, prompt, rt, wire, abort, aborts, crashes, codex, joined, exiting>>

\* A failed endTurn is logged and the finalization goes on.
EndTurnLost ==
  /\ Lose /\ fin.phase = "sent"
  /\ fin' = [fin EXCEPT !.phase = "done"]
  /\ UNCHANGED <<row, activeRun, prompt, rt, wire, abort, aborts, crashes, codex, joined, exiting>>

\* Mutant: the session is freed whatever its active turn.
FinishDoneFreesAny ==
  /\ fin.phase = "done"
  /\ activeRun' = NoRun /\ fin' = NoFin
  /\ prompt' = [p \in Prompter |->
       IF prompt[p].phase = "closing" THEN [prompt[p] EXCEPT !.phase = "failed"]
       ELSE prompt[p]]
  /\ abort' = IF abort = "closing" THEN "idle" ELSE abort
  /\ UNCHANGED <<row, rt, wire, aborts, crashes, ghosts>>

\* The finally block frees the session only if the turn is still the active
\* one; then the finalization is released, which wakes who awaits it and kicks
\* the Agent Host's queue.
FinishDone ==
  /\ fin.phase = "done"
  /\ activeRun' = IF activeRun = fin.run THEN NoRun ELSE activeRun
  /\ fin' = NoFin
  /\ prompt' = [p \in Prompter |->
       IF prompt[p].phase = "closing" THEN [prompt[p] EXCEPT !.phase = "failed"]
       ELSE prompt[p]]
  /\ abort' = IF abort = "closing" THEN "idle" ELSE abort
  /\ UNCHANGED <<row, rt, wire, aborts, crashes, ghosts>>

-----------------------------------------------------------------------------
(* agentPrompt *)

Unused == {r \in Run : row[r] = "none" /\ \A p \in Prompter : prompt[p].run # r}

\* Settings, session and launch are read before the turn row exists; whichever
\* id host-core will mint, it is a fresh one.
PromptBegin(p) ==
  /\ prompt[p] = NoPrompt /\ Unused # {}
  /\ prompt' = [prompt EXCEPT ![p] = [phase |-> "launch", run |-> CHOOSE r \in Unused : TRUE]]
  /\ UNCHANGED <<row, activeRun, fin, rt, wire, abort, aborts, crashes, ghosts>>

\* Mutant: the INSERT does not look for a running row.
BeginTurnAnyway(p) ==
  /\ prompt[p].phase = "launch"
  /\ row' = [row EXCEPT ![prompt[p].run] = "running"]
  /\ prompt' = [prompt EXCEPT ![p].phase = "begun"]
  /\ UNCHANGED <<activeRun, fin, rt, wire, abort, aborts, crashes, ghosts>>

\* One INSERT that refuses (AGENT_BUSY) while a row of the session is running.
BeginTurn(p) ==
  /\ prompt[p].phase = "launch"
  /\ IF Running = {}
     THEN /\ row' = [row EXCEPT ![prompt[p].run] = "running"]
          /\ prompt' = [prompt EXCEPT ![p].phase = "begun"]
     ELSE prompt' = [prompt EXCEPT ![p].phase = "failed"] /\ row' = row
  /\ UNCHANGED <<activeRun, fin, rt, wire, abort, aborts, crashes, ghosts>>

\* beginTurn committed and its answer was lost.
BeginTurnLost(p) ==
  /\ Lose /\ prompt[p].phase = "begun"
  /\ prompt' = [prompt EXCEPT ![p].phase = "failed"]
  /\ UNCHANGED <<row, activeRun, fin, rt, wire, abort, aborts, crashes, codex, joined, exiting>>

TurnOpened(p) ==
  /\ prompt[p].phase = "begun"
  /\ activeRun' = prompt[p].run
  /\ joined' = (joined \/ fin # NoFin)
  /\ prompt' = [prompt EXCEPT ![p].phase = "open"]
  /\ UNCHANGED <<row, fin, rt, wire, abort, aborts, crashes, codex, losses, exiting>>

\* Attachments are prepared and the user message appended; any failure, and a
\* rejected agent.prompt call, closes the turn and then rethrows.
PromptFails(p) ==
  /\ prompt[p].phase \in {"open", "calling", "rejected"}
  /\ prompt' = [prompt EXCEPT ![p].phase =
                   IF NothingToFinish THEN "failed" ELSE "closing"]
  /\ FinishTurn("error", NoRun)
  /\ UNCHANGED <<row, activeRun, rt, wire, abort, aborts, crashes, ghosts>>

CallSidecar(p) ==
  /\ prompt[p].phase = "open"
  /\ prompt' = [prompt EXCEPT ![p].phase = "calling"]
  /\ UNCHANGED <<row, activeRun, fin, rt, wire, abort, aborts, crashes, ghosts>>

\* agent.prompt is accepted at once.  A runtime found running rejects the call
\* (PromptFails); one that began to run after it was looked at reports AGENT_BUSY
\* as an error event of the new run.
SidecarPrompt(p) ==
  LET r == prompt[p].run
  IN  /\ prompt[p].phase = "calling"
      /\ prompt' = [prompt EXCEPT ![p].phase = "accepted"]
      /\ rt' = IF rt = NoRun THEN r ELSE rt
      /\ wire' = Append(wire, [type |-> IF rt = NoRun THEN "start" ELSE "error",
                               run |-> r])
      /\ UNCHANGED <<row, activeRun, fin, abort, aborts, crashes, ghosts>>

\* The handler returns { turnId } or throws.
PromptEnds(p) ==
  /\ prompt[p].phase \in {"accepted", "failed"}
  /\ prompt' = [prompt EXCEPT ![p] = NoPrompt]
  /\ UNCHANGED <<row, activeRun, fin, rt, wire, abort, aborts, crashes, ghosts>>

-----------------------------------------------------------------------------
(* The sidecar's runtime and its event stream *)

\* A run ends with agent_end, with an error, or with an error and then
\* agent_end.
RunEnds ==
  /\ rt # NoRun
  /\ \E tail \in {<<"end">>, <<"error">>, <<"error", "end">>} :
       wire' = wire \o [i \in DOMAIN tail |-> [type |-> tail[i], run |-> rt]]
  /\ rt' = NoRun
  /\ UNCHANGED <<row, activeRun, fin, prompt, abort, aborts, crashes, ghosts>>

\* Mutant: no event is stale.
StaleNever(e) == FALSE

\* Main reads the next event; those of another turn than the active one are
\* dropped with one of the two engines.
Stale(e) == codex /\ e.run # activeRun

Hear(type) ==
  /\ wire # <<>> /\ Head(wire).type = type /\ ~Stale(Head(wire))
  /\ wire' = Tail(wire)

HearStart ==
  /\ Hear("start")
  /\ UNCHANGED <<row, activeRun, fin, prompt, rt, abort, aborts, crashes, ghosts>>

HearEnd ==
  /\ Hear("end") /\ FinishTurn("completed", Head(wire).run)
  /\ UNCHANGED <<row, activeRun, prompt, rt, abort, aborts, crashes, ghosts>>

\* Mutant: an error is shown and the turn left open.
HearErrorOnly ==
  /\ Hear("error")
  /\ UNCHANGED <<row, activeRun, fin, prompt, rt, abort, aborts, crashes, ghosts>>

HearError ==
  /\ Hear("error") /\ FinishTurn("error", Head(wire).run)
  /\ UNCHANGED <<row, activeRun, prompt, rt, abort, aborts, crashes, ghosts>>

DropStale ==
  /\ wire # <<>> /\ Stale(Head(wire)) /\ wire' = Tail(wire)
  /\ UNCHANGED <<row, activeRun, fin, prompt, rt, abort, aborts, crashes, ghosts>>

\* agentAbort: the runtime is told to stop, and without waiting for it Main
\* closes the turn and waits for that.
AbortBegin ==
  /\ abort = "idle" /\ aborts < MaxAborts
  /\ abort' = "sent" /\ aborts' = aborts + 1
  /\ UNCHANGED <<row, activeRun, fin, prompt, rt, wire, crashes, ghosts>>

AbortReturn ==
  /\ abort = "sent" /\ abort' = IF NothingToFinish THEN "idle" ELSE "closing"
  /\ FinishTurn("aborted", NoRun)
  /\ UNCHANGED <<row, activeRun, prompt, rt, wire, aborts, crashes, ghosts>>

\* The sidecar exits: its run and the requests it had are gone, and a fresh one
\* is started.  The exit handler first awaits the abort of the session's contract
\* and the write of its checkpoint.
SidecarExit ==
  /\ crashes < MaxCrashes /\ crashes' = crashes + 1
  /\ rt' = NoRun /\ wire' \in {wire, <<>>}
  /\ prompt' = [p \in Prompter |->
       IF prompt[p].phase = "calling" THEN [prompt[p] EXCEPT !.phase = "rejected"]
       ELSE prompt[p]]
  /\ exiting' = IF activeRun = NoRun THEN exiting ELSE exiting + 1
  /\ UNCHANGED <<row, activeRun, fin, abort, aborts, codex, joined, losses>>

\* Then it closes the turn that is active by now.
ExitCloses ==
  /\ exiting > 0 /\ exiting' = exiting - 1
  /\ FinishTurn("aborted", NoRun)
  /\ UNCHANGED <<row, activeRun, prompt, rt, wire, abort, aborts, crashes, codex, joined, losses>>

PromptStep(p) ==
  \/ PromptBegin(p) \/ BeginTurn(p) \/ BeginTurnLost(p) \/ TurnOpened(p) \/ PromptFails(p)
  \/ CallSidecar(p) \/ SidecarPrompt(p) \/ PromptEnds(p)

MainNext ==
  \/ \E p \in Prompter : PromptStep(p)
  \/ EndTurn \/ EndTurnLost \/ FinishDone
  \/ RunEnds \/ HearStart \/ HearEnd \/ HearError \/ DropStale
  \/ AbortBegin \/ AbortReturn \/ SidecarExit \/ ExitCloses

MainSpec == MainInit /\ [][MainNext]_mainVars

\* Promises settle, host-core and the sidecar answer, the event loop reads
\* what was written, and a run does not stream for ever.
MainFairness ==
  /\ WF_mainVars(EndTurn) /\ WF_mainVars(FinishDone)
  /\ WF_mainVars(RunEnds) /\ WF_mainVars(HearStart \/ HearEnd \/ HearError \/ DropStale)
  /\ WF_mainVars(AbortReturn) /\ WF_mainVars(ExitCloses)
  /\ \A p \in Prompter :
       WF_mainVars(BeginTurn(p) \/ TurnOpened(p) \/ CallSidecar(p)
                   \/ SidecarPrompt(p) \/ PromptEnds(p))

MainLiveSpec == MainSpec /\ MainFairness

-----------------------------------------------------------------------------
(* Properties *)

\* A row left `running' makes every later beginTurn answer AGENT_BUSY, so one
\* always has an owner that will close it: the active turn, or a beginTurn
\* whose answer is on its way.  Only a lost answer leaves it without.
RunningRowOwned ==
  losses = 0 =>
    \A r \in Running :
      \/ activeRun = r
      \/ \E p \in Prompter : prompt[p] = [phase |-> "begun", run |-> r]

\* With the engine whose stale events are dropped, a turn is closed by its own
\* outcome: an event of one run never settles another run's row.
ClosesOwnTurn ==
  codex /\ fin.phase = "sent" /\ fin.cause # NoRun => fin.run = fin.cause

\* Every turn that ran is closed, unless a host-core call was lost or the turn
\* was opened while the one before it was being finalized: its events then join
\* that finalization and close nothing.
EveryTurnCloses ==
  \A r \in Run :
    (row[r] = "running") ~> (row[r] # "running" \/ joined \/ losses > 0)

\* Whatever host-core loses, Main's ownership of a session ends, so that the
\* Agent Host gets to start the next turn.
MainFrees == MainBusy ~> (~MainBusy \/ joined)

\* The state is well formed, and a running row has an owner that will close it.
MainInv == MainTypeOK /\ RunningRowOwned

\* Main shows the Agent Host one run at a time: no prompt, event, stop or exit
\* takes the session from a run that is not already being closed.
PortPhase ==
  IF fin # NoFin
  THEN IF fin.run = activeRun THEN "closing" ELSE "overtaken"
  ELSE IF activeRun = NoRun THEN "none" ELSE "open"
Port == INSTANCE RuntimePort WITH phase <- PortPhase, run <- activeRun, boots <- 0
ImplementsPort == Port!PortSpec

=============================================================================
