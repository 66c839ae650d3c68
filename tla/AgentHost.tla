----------------------------- MODULE AgentHost -----------------------------
(***************************************************************************)
(* The Agent Host of ONE session (packages/agent-host/src/agent-host.ts):  *)
(* admission of turns, the drain loop that runs queued prompts one by one, *)
(* steering, cancel, "send now", and the ingestion of runtime events, over *)
(* TurnQueue.  Electron Main and the sidecar are reduced to what the port  *)
(* of apps/desktop/electron/main/agent-host-bridge.ts shows of them; their *)
(* inside is MainTurns.                                                    *)
(*                                                                         *)
(* The sidecar names a run by its durable turn id, which is not the id of  *)
(* the queue record it executes: runtimeAliases maps one to the other once *)
(* runtime.prompt() has returned, and events may arrive before that.       *)
(*                                                                         *)
(* void this.drain() runs in the event-loop turn of its caller: while      *)
(* `wake' is set nothing else happens.                                     *)
(***************************************************************************)
EXTENDS TurnQueue

CONSTANTS
  Drainer,     \* the caller that stands for the drain loop
  Calls,       \* bound: what the clients of this instance call
  Tails,       \* how a run may end: sequences of "end" and "error"
  EarlyEvents, \* whether a run's events may be read before the continuation
               \* of the runtime.prompt() that started it has run
  MaxCrashes,  \* bound: unexpected sidecar exits explored
  PromptFaults \* whether agentPrompt may fail on an idle session

RunId(t) == <<"run", t>>
Run == {RunId(t) : t \in Turn}
Id  == Turn \cup Run      \* a direct turn is known by the id of its run
Client == Caller \ {Drainer}

ASSUME HostAssumption ==
  /\ Drainer \in Caller
  /\ EarlyEvents \in BOOLEAN /\ PromptFaults \in BOOLEAN /\ MaxCrashes \in Nat
  /\ Tails \subseteq Seq({"end", "error"})
  /\ Run \cap (Turn \cup {Hole, NoTurn}) = {} \* runs and records have ids of their own

VARIABLES
  status,    \* TurnRecord.status of each known turn
  active,    \* state.activeTurnId
  alias,     \* prompts whose run is in runtimeAliases
  drain,     \* the drain loop: "off", "shifting", "prompting", "aborting"
  wake,      \* drain() has just been called: "no", "drain", "resume"
  port,      \* the runtime.prompt() call of each caller
  job,       \* why a client removes a record: "steer" or "cancel"
  main,      \* the run Main holds the session for
  streaming, \* the prompt whose run the sidecar streams
  wire,      \* events written by the sidecar and not yet read by Main
  planning,  \* state.planningState is "awaiting_approval"
  idem,      \* prompts remembered under their idempotency key
  late,      \* a push has returned to an idle session since the last wake-up
  attended,  \* a controller attached or sent a turn now since the last restart
  used,      \* how often a prompt was given to the runtime
  crashes

hostVars == <<status, active, alias, drain, wake, port, job, main, streaming,
              wire, planning, idem, late, attended, used, crashes>>
vars == <<queueVars, hostVars>>
\* What a runtime step, a client call and a drain step leave alone.
turnState == <<status, active, alias, idem>>
runState  == <<main, streaming, wire, crashes>>
loopState == <<drain, wake, port, job, planning, late, attended>>

Status == {"unknown", "queued", "running", "completed", "failed", "canceled"}
Terminal == {"completed", "failed", "canceled"}
NoPort == [phase |-> "none", turn |-> NoTurn]
NoMain == [run |-> NoTurn, phase |-> "none"]

HostTypeOK ==
  /\ QueueTypeOK
  /\ status \in [Id -> Status] /\ active \in Id \cup {NoTurn}
  /\ alias \subseteq Turn /\ idem \subseteq Turn
  /\ drain \in {"off", "shifting", "prompting", "aborting"}
  /\ wake \in {"no", "drain", "resume"}
  /\ port \in [Caller -> [phase : {"none", "sent", "ok", "failed"},
                          turn : Turn \cup {NoTurn}]]
  /\ job \in [Client -> {"none", "steer", "cancel"}]
  /\ main \in [run : Turn \cup {NoTurn}, phase : {"none", "open", "closing"}]
  /\ streaming \in Turn \cup {NoTurn}
  /\ wire \in Seq([type : {"start", "end", "error"}, turn : Turn])
  /\ planning \in BOOLEAN /\ late \in BOOLEAN /\ attended \in BOOLEAN
  /\ used \in [Turn -> Nat] /\ crashes \in 0..MaxCrashes

HostInit ==
  /\ QueueInit
  /\ status = [i \in Id |-> "unknown"] /\ active = NoTurn
  /\ alias = {} /\ idem = {}
  /\ drain = "off" /\ wake = "no"
  /\ port = [c \in Caller |-> NoPort] /\ job = [c \in Client |-> "none"]
  /\ main = NoMain /\ streaming = NoTurn /\ wire = <<>>
  /\ planning = FALSE /\ late = FALSE /\ attended = FALSE
  /\ used = [t \in Turn |-> 0] /\ crashes = 0

-----------------------------------------------------------------------------
(* State the handlers ask for. *)

IsActive(s)  == s = "running"
HasActive    == active # NoTurn /\ IsActive(status[active])
\* isOccupied, and isBusy, which counts the queue too.
Occupied == HasActive \/ planning \/ main.phase # "none"
Busy     == Occupied \/ Mem # <<>>
Starting == IF drain \in {"prompting", "aborting"} THEN {port[Drainer].turn} ELSE {}
Gone(t)   == ToSet(Mem) \cap {t, Hole} = {}
Known(t)  == status[t] # "unknown"
Remembered(t) == \E u \in idem : KeyOf[t] # NoKey /\ KeyOf[u] = KeyOf[t]
Free(c) == wake = "no" /\ op[c] = Idle /\ port[c] = NoPort
Ask(c, call) == call \in Calls /\ c \in Client /\ Free(c)

-----------------------------------------------------------------------------
(* startTurn *)

\* A busy session queues the prompt; a retry of a remembered request returns
\* the remembered turn and changes nothing.
StartQueued(c, t) ==
  /\ Ask(c, "start") /\ Busy /\ ~Remembered(t)
  /\ PushBegin(c, t)
  /\ UNCHANGED hostVars

\* The continuation does not look again whether the session is still busy.
QueuedReturn(c) ==
  /\ wake = "no" /\ PushReturn(c)
  /\ status' = [status EXCEPT ![op[c].id] = "queued"]
  /\ idem' = idem \cup {op[c].id}
  /\ late' = (late \/ (~Occupied /\ drain = "off"))
  /\ UNCHANGED <<active, alias, drain, wake, port, job, planning, attended, used, runState>>

StartDirect(c, t) ==
  /\ Ask(c, "start") /\ CanCall(c) /\ ~Busy /\ ~Remembered(t) /\ t \notin issued
  /\ issued' = issued \cup {t}
  /\ port' = [port EXCEPT ![c] = [phase |-> "sent", turn |-> t]]
  /\ UNCHANGED <<rows, heap, cur, held, boot, listed, op, accepted, taken, claims,
                 restarts, turnState, drain, wake, job, planning, late, attended,
                 used, runState>>

DirectReturn(c) ==
  LET r == RunId(port[c].turn)
  IN  /\ wake = "no" /\ c \in Client /\ port[c].phase = "ok"
      /\ status' = [status EXCEPT ![r] = "running"] /\ active' = r
      /\ idem' = idem \cup {port[c].turn}
      /\ port' = [port EXCEPT ![c] = NoPort]
      /\ UNCHANGED <<queueVars, alias, drain, wake, job, planning, late, attended,
                     used, runState>>

DirectRejected(c) ==
  /\ wake = "no" /\ c \in Client /\ port[c].phase = "failed"
  /\ port' = [port EXCEPT ![c] = NoPort]
  /\ UNCHANGED <<queueVars, turnState, drain, wake, job, planning, late, attended,
                 used, runState>>

-----------------------------------------------------------------------------
(* consumeForSteering, cancelTurn, prioritizeTurn, attach, interruptTurn *)

\* agentSteer asks for a running turn, then claims the queued prompt.
SteerBegin(c, t) ==
  /\ Ask(c, "steer") /\ main.phase # "none" /\ Known(t) /\ t \notin Starting
  /\ RemoveBegin(c, t)
  /\ job' = [job EXCEPT ![c] = "steer"]
  /\ UNCHANGED <<turnState, drain, wake, port, planning, late, attended, used, runState>>

CancelBegin(c, t) ==
  /\ Ask(c, "cancel") /\ status[t] = "queued"
  /\ RemoveBegin(c, t)
  /\ job' = [job EXCEPT ![c] = "cancel"]
  /\ UNCHANGED <<turnState, drain, wake, port, planning, late, attended, used, runState>>

\* The claimed record is canceled; steering then hands its prompt to the run.
RemovedReturn(c) ==
  /\ wake = "no" /\ c \in Client /\ RemoveReturn(c)
  /\ status' = [status EXCEPT ![op[c].id] = "canceled"]
  /\ used' = IF job[c] = "steer" THEN [used EXCEPT ![op[c].id] = @ + 1] ELSE used
  /\ job' = [job EXCEPT ![c] = "none"]
  /\ UNCHANGED <<active, alias, idem, drain, wake, port, planning, late, attended, runState>>

\* drain() has shifted the record away: the turn is canceled all the same and
\* drain finds out when its prompt returns.
CancelStarting(c, t) ==
  /\ Ask(c, "cancel") /\ status[t] = "queued" /\ Gone(t)
  /\ status' = [status EXCEPT ![t] = "canceled"]
  /\ UNCHANGED <<queueVars, active, alias, idem, loopState, used, runState>>

SendNow(c, t) ==
  /\ Ask(c, "send_now") /\ status[t] = "queued"
  /\ PrioritizeBegin(c, t)
  /\ UNCHANGED hostVars

SendNowReturn(c) ==
  /\ wake = "no" /\ PrioritizeReturn(c)
  /\ wake' = "resume"
  /\ UNCHANGED <<turnState, drain, port, job, planning, late, attended, used, runState>>

\* The record has left the queue: nothing to move, but the queue is released.
SendNowMiss(c, t) ==
  /\ Ask(c, "send_now") /\ status[t] = "queued" /\ Gone(t)
  /\ wake' = "resume"
  /\ UNCHANGED <<queueVars, turnState, drain, port, job, planning, late, attended,
                 used, runState>>

\* A controller attaches; its snapshot makes the restored turns known.
Attach ==
  /\ held \/ "attach" \in Calls
  /\ wake = "no" /\ wake' = "resume"
  /\ status' = [i \in Id |-> IF status[i] = "unknown" /\ i \in ToSet(Mem)
                             THEN "queued" ELSE status[i]]
  /\ UNCHANGED <<queueVars, active, alias, idem, drain, port, job, planning, late,
                 attended, used, runState>>

\* agentAbort closes Main's turn without waiting for the run to stop.
Interrupt(c, i) ==
  /\ Ask(c, "interrupt") /\ IsActive(status[i]) /\ main.phase = "open"
  /\ main' = [main EXCEPT !.phase = "closing"]
  /\ UNCHANGED <<queueVars, turnState, loopState, used, streaming, wire, crashes>>

\* A client's queue call is refused by host-core or lost with it.
ClientRejected(c) ==
  /\ wake = "no" /\ c \in Client /\ CallRejects(c)
  /\ job' = [job EXCEPT ![c] = "none"]
  /\ UNCHANGED <<turnState, drain, wake, port, planning, late, attended, used, runState>>

-----------------------------------------------------------------------------
(* drain *)

ResumeHeld ==
  /\ wake = "resume" /\ Resume /\ wake' = "drain" /\ attended' = TRUE
  /\ UNCHANGED <<turnState, drain, port, job, planning, late, used, runState>>

\* Mutant: restored prompts do not wait.
CanShiftHeld == drain = "off" /\ ~Occupied /\ Mem # <<>> /\ Head(Mem) # Hole

CanShift == drain = "off" /\ ~held /\ ~Occupied /\ Mem # <<>> /\ Head(Mem) # Hole

DrainEnter ==
  /\ wake = "drain" /\ wake' = "no" /\ late' = FALSE
  /\ IF CanShift THEN ShiftBegin(Drainer) /\ drain' = "shifting"
     ELSE UNCHANGED <<queueVars, drain>>
  /\ UNCHANGED <<turnState, port, job, planning, attended, used, runState>>

\* Mutant: the loop asks again whether the session is occupied, and gives up
\* with the record in its hand.
DrainShiftedRechecks ==
  LET t == op[Drainer].id
  IN  /\ wake = "no" /\ RemoveReturn(Drainer)
      /\ drain' = IF Occupied THEN "off" ELSE "prompting"
      /\ port' = IF Occupied THEN port
                 ELSE [port EXCEPT ![Drainer] = [phase |-> "sent", turn |-> t]]
      /\ status' = [status EXCEPT ![t] = IF @ = "unknown" THEN "queued" ELSE @]
      /\ UNCHANGED <<active, alias, idem, wake, job, planning, late, attended, used, runState>>

\* The record is out of the store: prompt, without asking again whether the
\* session is occupied.
DrainShifted ==
  LET t == op[Drainer].id
  IN  /\ wake = "no" /\ RemoveReturn(Drainer)
      /\ drain' = "prompting"
      /\ port' = [port EXCEPT ![Drainer] = [phase |-> "sent", turn |-> t]]
      /\ status' = [status EXCEPT ![t] = IF @ = "unknown" THEN "queued" ELSE @]
      /\ UNCHANGED <<active, alias, idem, wake, job, planning, late, attended, used, runState>>

\* The store lost the remove: drain rejects, its record is out of memory only.
DrainLost ==
  /\ wake = "no" /\ CallRejects(Drainer) /\ drain' = "off"
  /\ UNCHANGED <<turnState, wake, port, job, planning, late, attended, used, runState>>

Prompted(phase) == wake = "no" /\ drain = "prompting" /\ port[Drainer].phase = phase

\* Mutant: the loop does not look whether the turn was canceled meanwhile.
DrainStartedAnyway ==
  LET t == port[Drainer].turn
  IN  /\ Prompted("ok")
      /\ alias' = alias \cup {t} /\ active' = t
      /\ status' = [status EXCEPT ![t] = "running"]
      /\ drain' = "off" /\ port' = [port EXCEPT ![Drainer] = NoPort]
      /\ UNCHANGED <<queueVars, idem, wake, job, planning, late, attended, used, runState>>

DrainStarted ==
  LET t == port[Drainer].turn
  IN  /\ Prompted("ok") /\ status[t] # "canceled"
      /\ alias' = alias \cup {t} /\ active' = t
      /\ status' = [status EXCEPT ![t] = "running"]
      /\ drain' = "off" /\ port' = [port EXCEPT ![Drainer] = NoPort]
      /\ UNCHANGED <<queueVars, idem, wake, job, planning, late, attended, used, runState>>

\* The turn was canceled while its prompt was admitted: abort the run.
DrainAborts ==
  /\ Prompted("ok") /\ status[port[Drainer].turn] = "canceled"
  /\ drain' = "aborting"
  /\ main' = IF main.phase = "open" THEN [main EXCEPT !.phase = "closing"] ELSE main
  /\ UNCHANGED <<queueVars, turnState, wake, port, job, planning, late, attended,
                 used, streaming, wire, crashes>>

\* agentAbort has waited for the turn to close; the loop goes round again.
DrainAborted ==
  /\ wake = "no" /\ drain = "aborting" /\ main.phase # "closing"
  /\ drain' = "off" /\ wake' = "drain"
  /\ port' = [port EXCEPT ![Drainer] = NoPort]
  /\ UNCHANGED <<queueVars, turnState, job, planning, late, attended, used, runState>>

\* runtime.prompt rejected: the turn has failed, the loop goes round again.
DrainFailed ==
  /\ Prompted("failed")
  /\ status' = [status EXCEPT ![port[Drainer].turn] = "failed"]
  /\ drain' = "off" /\ wake' = "drain"
  /\ port' = [port EXCEPT ![Drainer] = NoPort]
  /\ UNCHANGED <<queueVars, active, alias, idem, job, planning, late, attended, used,
                 runState>>

-----------------------------------------------------------------------------
(* Electron Main and the sidecar behind the runtime port *)

\* A runtime that still streams another run reports AGENT_BUSY as an error.
StartRun(t) ==
  /\ main' = [run |-> t, phase |-> "open"]
  /\ streaming' = IF streaming = NoTurn THEN t ELSE streaming
  /\ wire' = Append(wire, [type |-> IF streaming = NoTurn THEN "start" ELSE "error",
                           turn |-> t])
  /\ used' = [used EXCEPT ![t] = @ + 1]

MainAccepts(c) ==
  /\ wake = "no" /\ port[c].phase = "sent" /\ main.phase = "none"
  /\ StartRun(port[c].turn)
  /\ port' = [port EXCEPT ![c].phase = "ok"]
  /\ UNCHANGED <<queueVars, turnState, drain, wake, job, planning, late, attended, crashes>>

MainRefuses(c) ==
  /\ wake = "no" /\ port[c].phase = "sent" /\ (main.phase # "none" \/ PromptFaults)
  /\ port' = [port EXCEPT ![c].phase = "failed"]
  /\ UNCHANGED <<queueVars, turnState, drain, wake, job, planning, late, attended,
                 used, runState>>

\* The renderer prompts Main directly, past the Agent Host.
LocalPrompt(t) ==
  /\ "local" \in Calls /\ wake = "no" /\ t \notin issued /\ main.phase = "none"
  /\ issued' = issued \cup {t} /\ StartRun(t)
  /\ UNCHANGED <<rows, heap, cur, held, boot, listed, op, accepted, taken, claims,
                 restarts, turnState, loopState, crashes>>

RunEnds ==
  /\ wake = "no" /\ streaming # NoTurn
  /\ \E tail \in Tails :
       wire' = wire \o [i \in DOMAIN tail |-> [type |-> tail[i], turn |-> streaming]]
  /\ streaming' = NoTurn
  /\ UNCHANGED <<queueVars, turnState, loopState, main, used, crashes>>

\* Mutant: the aliases are not consulted.
ResolveNoAlias(t) == RunId(t)

\* Mutant: the first cell of the queue is taken for a record.
ResolveAnyHead(t) ==
  IF t \in alias THEN t
  ELSE IF Mem # <<>> /\ active = NoTurn /\ status[RunId(t)] = "unknown" /\ drain # "off"
       THEN Head(Mem) ELSE RunId(t)

\* resolveTurnId: an unknown run that starts while the loop is draining is
\* taken for the head of the queue.
Resolve(t) ==
  IF t \in alias THEN t
  ELSE IF Mem # <<>> /\ Head(Mem) # Hole /\ active = NoTurn
          /\ status[RunId(t)] = "unknown" /\ drain # "off"
       THEN Head(Mem) ELSE RunId(t)

Settled(t) == \A c \in Caller : port[c].phase = "ok" => port[c].turn # t
Read(type) ==
  /\ wake = "no" /\ wire # <<>> /\ Head(wire).type = type /\ wire' = Tail(wire)
  /\ EarlyEvents \/ Settled(Head(wire).turn)

IngestStart ==
  LET i == Resolve(Head(wire).turn)
  IN  /\ Read("start")
      /\ status' = [status EXCEPT ![i] = "running"] /\ active' = i
      /\ UNCHANGED <<queueVars, alias, idem, loopState, main, streaming, used, crashes>>

\* finishTurn, called right after ingest, holds the session until endTurn
\* has settled.
MainCloses == main' = IF main.phase = "open" THEN [main EXCEPT !.phase = "closing"] ELSE main

Close(i, s) ==
  /\ status' = IF status[i] = "unknown" THEN status ELSE [status EXCEPT ![i] = s]
  /\ active' = NoTurn /\ wake' = "drain"

IngestEnd ==
  /\ Read("end") /\ Close(Resolve(Head(wire).turn), "completed") /\ MainCloses
  /\ UNCHANGED <<queueVars, alias, idem, drain, port, job, planning, late, attended,
                 streaming, used, crashes>>

\* An error of a turn that is not active is diagnostic only.
IngestError ==
  LET i == Resolve(Head(wire).turn)
  IN  /\ Read("error") /\ MainCloses
      /\ IF IsActive(status[i]) THEN Close(i, "failed")
         ELSE UNCHANGED <<status, active, wake>>
      /\ UNCHANGED <<queueVars, alias, idem, drain, port, job, planning, late, attended,
                     streaming, used, crashes>>

\* Mutant: the queue is not kicked.
FinishDoneNoKick ==
  /\ wake = "no" /\ main.phase = "closing" /\ main' = NoMain
  /\ UNCHANGED <<queueVars, turnState, loopState, used, streaming, wire, crashes>>

\* endTurn has settled: the session is free and the queue is kicked.
FinishDone ==
  /\ wake = "no" /\ main.phase = "closing"
  /\ main' = NoMain /\ wake' = "drain"
  /\ UNCHANGED <<queueVars, turnState, drain, port, job, planning, late, attended,
                 used, streaming, wire, crashes>>

\* The sidecar exits: Main closes its turn (MainTurns has what it awaits before);
\* the Agent Host is told nothing.
SidecarExit ==
  /\ wake = "no" /\ crashes < MaxCrashes /\ crashes' = crashes + 1
  /\ streaming' = NoTurn /\ wire' = <<>> /\ MainCloses
  /\ UNCHANGED <<queueVars, turnState, loopState, used>>

\* A run submits a plan for approval, or the approval is settled.
PlanningChanges ==
  /\ "plan" \in Calls /\ wake = "no"
  /\ planning \/ streaming # NoTurn \/ wire # <<>>
  /\ planning' = ~planning /\ wake' = IF planning THEN "drain" ELSE "no"
  /\ UNCHANGED <<queueVars, turnState, drain, port, job, late, attended, used, runState>>

-----------------------------------------------------------------------------
(* The next-state relation *)

\* Electron Main restarts: only the table of the queue survives.
HostRestart ==
  /\ QueueRestart
  /\ status' = [i \in Id |-> "unknown"] /\ active' = NoTurn
  /\ alias' = {} /\ idem' = {} /\ drain' = "off" /\ wake' = "no"
  /\ port' = [c \in Caller |-> NoPort] /\ job' = [c \in Client |-> "none"]
  /\ main' = NoMain /\ streaming' = NoTurn /\ wire' = <<>>
  /\ planning' = FALSE /\ late' = FALSE /\ attended' = FALSE
  /\ UNCHANGED <<used, crashes>>

StoreWorks ==
  /\ wake = "no"
  /\ (\E c \in Caller : StoreStep(c)) \/ StoreList \/ RestoreReturn
  /\ UNCHANGED hostVars

ClientCall(c, t) ==
  \/ StartQueued(c, t) \/ StartDirect(c, t) \/ SteerBegin(c, t) \/ CancelBegin(c, t)
  \/ CancelStarting(c, t) \/ SendNow(c, t) \/ SendNowMiss(c, t)

ClientReturn(c) ==
  \/ QueuedReturn(c) \/ DirectReturn(c) \/ DirectRejected(c) \/ RemovedReturn(c)
  \/ SendNowReturn(c)

DrainStep ==
  \/ ResumeHeld \/ DrainEnter \/ DrainShifted \/ DrainStarted
  \/ DrainAborts \/ DrainAborted \/ DrainFailed

ReadEvent == IngestStart \/ IngestEnd \/ IngestError

HostNext ==
  \/ \E c \in Client, t \in Turn : ClientCall(c, t)
  \/ \E c \in Client, i \in Id : Interrupt(c, i)
  \/ \E c \in Client : ClientReturn(c) \/ ClientRejected(c)
  \/ Attach \/ DrainStep \/ DrainLost
  \/ \E c \in Caller : MainAccepts(c) \/ MainRefuses(c)
  \/ \E t \in Turn : LocalPrompt(t)
  \/ RunEnds \/ ReadEvent \/ FinishDone \/ SidecarExit \/ PlanningChanges
  \/ StoreWorks \/ HostRestart

HostSpec == HostInit /\ [][HostNext]_vars

\* Promises settle, host-core and the sidecar answer, the event loop reads
\* what was written, and a run does not stream for ever.
HostFairness ==
  /\ WF_vars(DrainStep) /\ WF_vars(StoreWorks)
  /\ WF_vars(RunEnds) /\ WF_vars(ReadEvent) /\ WF_vars(FinishDone)
  /\ \A c \in Client : WF_vars(ClientReturn(c))
  /\ \A c \in Caller : WF_vars(MainAccepts(c) \/ MainRefuses(c))

HostLiveSpec == HostSpec /\ HostFairness

-----------------------------------------------------------------------------
(* Properties *)

\* A prompt reaches the runtime at most once, whether drain runs it or a
\* client steers with it, and across restarts.
UsedOnce == \A t \in Turn : used[t] <= 1

\* The turn the Agent Host takes for active is backed by a run or by Main, so
\* an event that ends it is still to come: "Node agent crash | abort active
\* turns" (docs/spec/03-runtime/07-process-model.md:74) included.
ActiveHasRun ==
  HasActive => streaming # NoTurn \/ wire # <<>> \/ main.phase # "none"

\* After a restart no restored prompt runs before a controller has attached or
\* sent a turn now.
RestoredWaits ==
  [][op[Drainer] = Idle /\ op'[Drainer] # Idle /\ cur = Boot => attended]_vars

Settling == \E c \in Caller : op[c] # Idle \/ port[c] # NoPort
Asleep ==
  /\ boot = "ready" /\ ~held /\ Mem # <<>>
  /\ wake = "no" /\ drain = "off" /\ ~Settling /\ ~planning
  /\ main = NoMain /\ streaming = NoTurn /\ wire = <<>>

\* Where a prompt that was reported as queued is to be found: in the queue (in
\* the table, until a restart has restored it); with the call that removes its
\* record or the loop that prompts with it; or it was given to the runtime, or
\* its turn was canceled or has failed.
Queued(t)   == t \in ToSet(IF boot = "ready" THEN Mem ELSE rows)
InHand(t)   == \/ \E c \in Caller : op[c].kind = "remove" /\ op[c].id = t
               \/ port[Drainer].turn = t
Answered(t) == used[t] > 0 \/ status[t] \in {"canceled", "failed"}
Kept(t)     == Queued(t) \/ InHand(t) \/ Answered(t)

\* The two ways in which it is lost: host-core's answer to its remove is, and
\* Electron Main restarts when the queue has let go of it.
RemoveLost(t)  == \E c \in Caller : op[c].kind = "remove" /\ op[c].id = t /\ CallRejects(c)
LostInStart(t) == restarts' # restarts /\ ~Queued(t)

\* A prompt is lost in these two ways only, at whatever await of drain, steer
\* and cancel it is, and it is never given to the runtime twice.
NoLossNoRepeat ==
  [][/\ UsedOnce'
     /\ \A t \in accepted' :
          (t \in accepted => Kept(t)) => Kept(t)' \/ RemoveLost(t) \/ LostInStart(t)]_vars

\* "Never resurrect a turn that the user canceled during that window"
\* (agent-host.ts:718): whenever the cancel comes, no event and no answer makes
\* the turn run or finish.  Its outcome is rewritten in one way: the prompt
\* that was starting it is rejected, and it has failed (agent-host.ts:735).
NeverResurrected ==
  [][\A t \in Turn : status[t] = "canceled" =>
       \/ status'[t] \in {"canceled", "unknown"} /\ t \notin alias' /\ (active' = t => active = t)
       \/ status'[t] = "failed" /\ port[Drainer].turn = t /\ port[Drainer].phase = "failed"]_vars

\* What Main is reduced to here is the runtime port, where no run overtakes.
Port == INSTANCE RuntimePort WITH phase <- main.phase, run <- main.run, boots <- restarts,
                                  Run <- Turn, NoRun <- NoTurn
UsesPort == Port!PortInit /\ [][Port!PortNext /\ main'.phase # "overtaken"]_(Port!portVars)

=============================================================================
