------------------------------ MODULE Contracts -----------------------------
(***************************************************************************)
(* Plan and goal contracts of ONE session: the agent submits a proposal in *)
(* plan mode, the user approves or rejects it, and Electron Main carries   *)
(* the approved execution to the sidecar.  host-core keeps proposal and    *)
(* execution in one row (crates/host-core/src/plans.rs) and interrupts at  *)
(* boot what was open (db.rs); Main dispatches, records how it ended and   *)
(* retries what it could not record (dispatchApprovedPlan,                 *)
(* finishApprovedExecution and their callers in index.ts).                 *)
(*                                                                         *)
(* A turn is "user" for a prompt, or the contract whose execution it is;   *)
(* module MainTurns has the turns in detail.  An action is one call of     *)
(* host-core or what Main does between two awaits.                         *)
(***************************************************************************)
EXTENDS Naturals, Sequences, FiniteSets

CONSTANTS
  Contract,   \* proposals, each with the execution its approval creates
  None,       \* no turn
  MaxPrompts, \* bound on the user's turns
  MaxExits,   \* bound on exits of host-core, of the sidecar and of both with Main
  MaxLosses,  \* bound on calls that commit and whose answer is lost
  MaxAborts,  \* bound on Stop
  MaxTroubles \* bound on these three together

ASSUME ContractAssumption ==
  /\ IsFiniteSet(Contract) /\ "user" \notin Contract /\ None \notin Contract \cup {"user"}
  /\ {MaxPrompts, MaxExits, MaxLosses, MaxAborts, MaxTroubles} \subseteq Nat

Turn == Contract \cup {"user"}
Ended == {"completed", "interrupted"}

VARIABLES
  \* host-core
  status, exec, \* plan_approvals: status and execution_state of each row
  mode,      \* the session's mode
  running,   \* the session's running turn
  up,        \* the process is there
  \* Electron Main
  active,    \* activeTurns
  submitting,\* the active turn is in planSubmissionTurnIds
  closing,   \* turnFinalizations: the turn being closed
  after,     \* what is recorded once it is: executions with their outcome
  joined,    \* history: a turn was to be closed while another one was
  prompt,    \* an agentPrompt that has found the session idle
  stop,      \* agentAbort: what it waits for and the execution it means
  disp,      \* dispatchApprovedPlan of each execution
  retry,     \* executions whose 250 ms timer runs
  drain,     \* drainApprovedPlanExecutions is about to ask for queued executions
  claimed, owner, started, finished, \* claimedExecutionSessions, approvedExecutionIdsBySession, ...
  pend, recording, \* pendingExecutionFinishes, inFlightExecutionFinishes
  \* the sidecar
  side,      \* the process is there
  rt,        \* the turn it runs
  wire,      \* ends of runs that Main has not read: the turn and how it ended
  ran,       \* history: how often each execution was run
  overtaken, \* history: executions that ended in host-core while they were being dispatched
  unheard,   \* history: the end of an execution was dropped, and nothing else records it
  prompts, exits, losses, aborts

hostVars   == <<status, exec, mode, running>>
turnVars   == <<active, submitting, closing, after, joined, prompt, stop>>
dispVars   == <<disp, retry, drain, claimed, owner, started>>
runVars    == <<side, rt, ran, wire, unheard>>
recordVars == <<finished, pend, recording>>
bounds     == <<prompts, exits, losses, aborts>>
contractVars == <<hostVars, up, turnVars, dispVars, recordVars, runVars, overtaken, bounds>>

NoStop == [at |-> "idle", on |-> None]

ContractTypeOK ==
  /\ status \in [Contract -> {"none", "pending", "approved", "rejected", "expired", "interrupted"}]
  /\ exec \in [Contract -> {"none", "queued", "running"} \cup Ended]
  /\ mode \in {"agent", "plan"} /\ up \in BOOLEAN /\ side \in BOOLEAN
  /\ {running, active, closing, rt} \subseteq Turn \cup {None}
  /\ joined \in BOOLEAN /\ submitting \in BOOLEAN /\ drain \in BOOLEAN /\ prompt \in BOOLEAN
  /\ after \subseteq Contract \X Ended
  /\ stop \in [at : {"idle", "sent", "back"}, on : Contract \cup {None}]
  /\ disp \in [Contract -> {"idle", "wait", "claim", "launch", "begin", "execute"}]
  /\ retry \subseteq Contract /\ claimed \subseteq Contract
  /\ started \subseteq Contract /\ finished \subseteq Contract
  /\ owner \in Contract \cup {None} /\ recording \subseteq Contract
  /\ pend \in [Contract -> {"none"} \cup Ended]
  /\ \A c \in Contract : exec[c] # "none" <=> status[c] = "approved"
  /\ ran \in [Contract -> Nat] /\ overtaken \subseteq Contract
  /\ wire \in Seq(Turn \X Ended) /\ unheard \in BOOLEAN
  /\ prompts \in 0..MaxPrompts /\ exits \in 0..MaxExits
  /\ losses \in 0..MaxLosses /\ aborts \in 0..MaxAborts

ContractInit ==
  /\ status = [c \in Contract |-> "none"] /\ exec = [c \in Contract |-> "none"]
  /\ mode = "agent" /\ running = None /\ up = TRUE
  /\ active = None /\ submitting = FALSE /\ closing = None /\ after = {} /\ joined = FALSE
  /\ prompt = FALSE /\ stop = NoStop
  /\ disp = [c \in Contract |-> "idle"] /\ retry = {} /\ drain = FALSE
  /\ claimed = {} /\ owner = None /\ started = {} /\ finished = {}
  /\ pend = [c \in Contract |-> "none"] /\ recording = {}
  /\ side = TRUE /\ rt = None /\ ran = [c \in Contract |-> 0] /\ wire = <<>> /\ overtaken = {} /\ unheard = FALSE
  /\ prompts = 0 /\ exits = 0 /\ losses = 0 /\ aborts = 0

Room == exits + losses + aborts < MaxTroubles
Lose == Room /\ losses < MaxLosses /\ losses' = losses + 1 /\ UNCHANGED <<prompts, exits, aborts>>
ActiveExecution == \E c \in Contract : exec[c] \in {"queued", "running"}

-----------------------------------------------------------------------------
(* finishTurn and finishApprovedExecution *)

\* finishTurn, and what is recorded after it.
Close(then) ==
  /\ closing' = IF closing = None THEN active ELSE closing
  /\ after' = after \cup then
  /\ joined' = (joined \/ (closing # None /\ active # None /\ closing # active))

\* endTurn has settled, the finally block has run.
CloseDone ==
  /\ closing # None /\ closing' = None
  /\ running' = IF up /\ running = closing THEN None ELSE running
  /\ active' = IF active = closing THEN None ELSE active
  /\ submitting' = (submitting /\ active # closing)
  /\ UNCHANGED <<status, exec, mode, up, after, joined, prompt, stop, dispVars, recordVars, runVars, overtaken, bounds>>

\* finishApprovedExecution of the executions cs: the first outcome stands, one
\* call at a time.
Record(cs, outcome) ==
  LET new == cs \ (finished \cup recording)
  IN /\ pend' = [c \in Contract |-> IF c \in new /\ pend[c] = "none" THEN outcome ELSE pend[c]]
     /\ recording' = IF up THEN recording \cup new ELSE recording

After ==
  /\ closing = None
  /\ \E a \in after : after' = after \ {a} /\ Record({a[1]}, a[2])
  /\ UNCHANGED <<hostVars, up, active, submitting, closing, joined, prompt, stop, dispVars, finished, runVars, overtaken, bounds>>

\* Mutant: the outcome that comes last is recorded.
FinishExecutionOverwrites(c) ==
  exec' = IF exec[c] # "none" THEN [exec EXCEPT ![c] = pend[c]] ELSE exec

\* finish_execution in host-core.
FinishExecution(c) ==
  exec' = IF exec[c] \in {"queued", "running"} THEN [exec EXCEPT ![c] = pend[c]] ELSE exec

Overtakes ==
  overtaken' = overtaken \cup {c \in Contract : exec[c] = "running" /\ exec'[c] \in Ended /\ disp[c] # "idle"}

\* The answer is there: the row says what Main wanted, or CONFLICT and Main
\* keeps the outcome for the next drain.
RecordDone(c) ==
  /\ up /\ c \in recording /\ recording' = recording \ {c}
  /\ FinishExecution(c) /\ Overtakes
  /\ IF exec'[c] = pend[c]
     THEN /\ finished' = finished \cup {c} /\ started' = started \ {c}
          /\ pend' = [pend EXCEPT ![c] = "none"]
          /\ claimed' = claimed \ {c}
          /\ owner' = IF owner = c THEN None ELSE owner
     ELSE UNCHANGED <<finished, started, pend, claimed, owner>>
  /\ UNCHANGED <<status, mode, running, up, turnVars, disp, retry, drain, runVars, bounds>>

RecordLost(c) ==
  /\ Lose /\ up /\ c \in recording /\ recording' = recording \ {c}
  /\ FinishExecution(c) /\ Overtakes
  /\ UNCHANGED <<status, mode, running, up, turnVars, dispVars, finished, pend, runVars>>

-----------------------------------------------------------------------------
(* dispatchApprovedPlan *)

\* Mutant: a session in another turn is left alone.
DispatchOnce(c) ==
  IF c \in started \cup finished \/ disp[c] # "idle" \/ ~up \/ ~side
     \/ active \notin {None, "user"} \/ (active = "user" /\ ~submitting)
  THEN UNCHANGED <<disp, retry>>
  ELSE disp' = [disp EXCEPT ![c] = IF active = None THEN "claim" ELSE "wait"] /\ UNCHANGED retry

\* It begins, unless it runs or has run: it waits for a submission turn, comes
\* back later for another one, or claims.
Dispatch(c) ==
  IF c \in started \cup finished \/ disp[c] # "idle" \/ ~up \/ ~side
  THEN UNCHANGED <<disp, retry>>
  ELSE IF active # None /\ ~(active = "user" /\ submitting)
       THEN retry' = retry \cup {c} /\ UNCHANGED disp
       ELSE /\ disp' = [disp EXCEPT ![c] = IF active = None THEN "claim" ELSE "wait"]
            /\ UNCHANGED retry

RetryDue(c) ==
  /\ c \in retry
  /\ IF c \in started \cup finished \/ disp[c] # "idle" \/ ~up \/ ~side
     THEN retry' = retry \ {c} /\ UNCHANGED disp
     ELSE /\ active = None \/ (active = "user" /\ submitting) \* else the timer is set again
          /\ retry' = retry \ {c}
          /\ disp' = [disp EXCEPT ![c] = IF active = None THEN "claim" ELSE "wait"]
  /\ UNCHANGED <<hostVars, up, turnVars, drain, claimed, owner, started, recordVars, runVars, overtaken, bounds>>

\* The submission turn is settled.
WaitDone(c) ==
  /\ disp[c] = "wait" /\ ~submitting
  /\ disp' = [disp EXCEPT ![c] = IF active = None THEN "claim" ELSE "idle"]
  /\ retry' = IF active = None THEN retry ELSE retry \cup {c}
  /\ UNCHANGED <<hostVars, up, turnVars, drain, claimed, owner, started, recordVars, runVars, overtaken, bounds>>

\* claim_execution answers only for a queued row.
ClaimExecution(c) == up /\ exec[c] = "queued"

Claim(c) ==
  /\ disp[c] = "claim"
  /\ IF ClaimExecution(c)
     THEN /\ exec' = [exec EXCEPT ![c] = "running"]
          /\ disp' = [disp EXCEPT ![c] = "launch"] /\ claimed' = claimed \cup {c}
     ELSE /\ disp' = [disp EXCEPT ![c] = "idle"]
          /\ UNCHANGED <<exec, claimed>>
  /\ UNCHANGED <<status, mode, running, up, turnVars, retry, drain, owner, started, recordVars, runVars, overtaken, bounds>>

ClaimLost(c) ==
  /\ Lose /\ disp[c] = "claim" /\ ClaimExecution(c)
  /\ exec' = [exec EXCEPT ![c] = "running"]
  /\ disp' = [disp EXCEPT ![c] = "idle"]
  /\ UNCHANGED <<status, mode, running, up, turnVars, retry, drain, claimed, owner, started, recordVars, runVars, overtaken>>

\* The catch clause of a claimed execution.
Fails(c) ==
  /\ disp' = [disp EXCEPT ![c] = "idle"]
  /\ IF active = c THEN Close({<<c, "interrupted">>})
     ELSE after' = after \cup {<<c, "interrupted">>} /\ UNCHANGED <<closing, joined>>

\* settings.get, session.get and the launch; a host that is down fails them.
Launch(c) ==
  /\ disp[c] = "launch"
  /\ IF up THEN disp' = [disp EXCEPT ![c] = "begin"] /\ UNCHANGED <<closing, after, joined>>
     ELSE Fails(c)
  /\ UNCHANGED <<hostVars, up, active, submitting, prompt, stop, retry, drain, claimed, owner, started, recordVars, runVars, overtaken, bounds>>

\* session.beginTurn
Begin(c) ==
  /\ disp[c] = "begin"
  /\ IF up /\ running = None
     THEN /\ running' = c /\ active' = c /\ owner' = c /\ started' = started \cup {c}
          /\ disp' = [disp EXCEPT ![c] = "execute"]
          /\ UNCHANGED <<closing, after, joined>>
     ELSE Fails(c) /\ UNCHANGED <<running, active, owner, started>>
  /\ UNCHANGED <<status, exec, mode, up, submitting, prompt, stop, retry, drain, claimed, recordVars, runVars, overtaken, bounds>>

\* It has committed, its answer is lost: nobody owns the turn.
BeginLost(c) ==
  /\ Lose /\ disp[c] = "begin" /\ up /\ running = None
  /\ running' = c /\ Fails(c)
  /\ UNCHANGED <<status, exec, mode, up, active, submitting, prompt, stop, retry, drain, claimed, owner, started, recordVars, runVars, overtaken>>

Says(turn, outcome) == wire' = Append(wire, <<turn, outcome>>)

\* agent.executeApprovedPlan: accepted, then run; a runtime that is busy reports
\* an error on the turn.
Execute(c) ==
  /\ disp[c] = "execute"
  /\ IF side
     THEN /\ disp' = [disp EXCEPT ![c] = "idle"] /\ UNCHANGED <<closing, after, joined>>
          /\ IF rt = None
             THEN rt' = c /\ ran' = [ran EXCEPT ![c] = @ + 1] /\ UNCHANGED wire
             ELSE Says(c, "interrupted") /\ UNCHANGED <<rt, ran>>
     ELSE Fails(c) /\ UNCHANGED <<rt, ran, wire>>
  /\ UNCHANGED <<hostVars, up, active, submitting, prompt, stop, retry, drain, claimed, owner, started, recordVars, side, unheard, overtaken, bounds>>

-----------------------------------------------------------------------------
(* The user's turns and the contract they make *)

\* agentPrompt: busy is looked at, then, awaits later, beginTurn is called.
PromptCheck ==
  /\ ~prompt /\ prompts < MaxPrompts /\ up /\ side /\ active = None /\ closing = None
  /\ prompt' = TRUE /\ prompts' = prompts + 1
  /\ UNCHANGED <<hostVars, up, active, submitting, closing, after, joined, stop, dispVars, recordVars, runVars, overtaken, exits, losses, aborts>>

PromptOpen ==
  /\ prompt /\ prompt' = FALSE
  /\ IF up /\ side /\ running = None
     THEN /\ running' = "user" /\ active' = "user" /\ submitting' = FALSE
          /\ IF rt = None THEN rt' = "user" /\ UNCHANGED wire
             ELSE Says("user", "interrupted") /\ UNCHANGED rt
     ELSE UNCHANGED <<running, active, submitting, rt, wire>>
  /\ UNCHANGED <<status, exec, mode, up, closing, after, joined, stop, dispVars, recordVars, side, ran, unheard, overtaken, bounds>>

\* Mutant: an execution that is open is not looked for.
EnterAnyway ==
  /\ up /\ rt = "user" /\ running = "user" /\ mode = "agent"
  /\ mode' = "plan"
  /\ UNCHANGED <<status, exec, running, up, turnVars, dispVars, recordVars, runVars, overtaken, bounds>>

\* plans.enter
Enter ==
  /\ up /\ rt = "user" /\ running = "user" /\ mode = "agent" /\ ~ActiveExecution
  /\ mode' = "plan"
  /\ UNCHANGED <<status, exec, running, up, turnVars, dispVars, recordVars, runVars, overtaken, bounds>>

\* SubmitPlan: its tool_start marks the turn, plans.submit makes the row.
Submit(c) ==
  /\ up /\ rt = "user" /\ running = "user" /\ mode = "plan"
  /\ status[c] = "none" /\ \A d \in Contract : status[d] # "pending"
  /\ status' = [status EXCEPT ![c] = "pending"]
  /\ submitting' = (submitting \/ active = "user")
  /\ UNCHANGED <<exec, mode, running, up, active, closing, after, joined, prompt, stop, dispVars, recordVars, runVars, overtaken, bounds>>

\* expire_pending_approvals
Expire(c) ==
  /\ up /\ status[c] = "pending" /\ status' = [status EXCEPT ![c] = "expired"]
  /\ UNCHANGED <<exec, mode, running, up, turnVars, dispVars, recordVars, runVars, overtaken, bounds>>

\* What resolve asks of an approval.
Approvable(c) == up /\ status[c] = "pending" /\ ~ActiveExecution /\ mode = "plan"

\* resolve, approving; then Main dispatches what the answer names.  Approving
\* again gets the same answer.
Approve(c) ==
  /\ \/ /\ Approvable(c)
        /\ status' = [status EXCEPT ![c] = "approved"]
        /\ exec' = [exec EXCEPT ![c] = "queued"] /\ mode' = "agent"
     \/ /\ up /\ exec[c] = "queued" /\ UNCHANGED <<status, exec, mode>>
  /\ Dispatch(c)
  /\ UNCHANGED <<running, up, turnVars, drain, claimed, owner, started, recordVars, runVars, overtaken, bounds>>

ApproveLost(c) ==
  /\ Lose /\ Approvable(c)
  /\ status' = [status EXCEPT ![c] = "approved"]
  /\ exec' = [exec EXCEPT ![c] = "queued"] /\ mode' = "agent"
  /\ UNCHANGED <<running, up, turnVars, dispVars, recordVars, runVars, overtaken>>

Reject(c) ==
  /\ up /\ status[c] = "pending" /\ status' = [status EXCEPT ![c] = "rejected"]
  /\ UNCHANGED <<exec, mode, running, up, turnVars, dispVars, recordVars, runVars, overtaken, bounds>>

\* The run of a turn ends with agent_end or an error.
TurnEnds(outcome) ==
  /\ rt # None /\ rt' = None /\ Says(rt, outcome)
  /\ UNCHANGED <<hostVars, up, turnVars, dispVars, recordVars, side, ran, unheard, overtaken, bounds>>

\* Main reads that: the active turn is closed, then the execution that ended is
\* recorded, unless it is to be recorded as interrupted.  One of the two engines
\* has the end of another turn than the active one dropped.
HearEnd ==
  /\ wire # <<>> /\ wire' = Tail(wire)
  /\ LET turn == Head(wire)[1]
         own  == turn = owner /\ pend[owner] # "interrupted"
     IN \/ Close(IF own THEN {Head(wire)} ELSE {}) /\ UNCHANGED unheard
        \/ /\ turn # active /\ UNCHANGED <<closing, after, joined>>
           /\ unheard' = (unheard \/ (own /\ pend[owner] = "none" /\ <<owner, "interrupted">> \notin after))
  /\ UNCHANGED <<hostVars, up, active, submitting, prompt, stop, dispVars, recordVars, side, rt, ran, overtaken, bounds>>

\* plans.abort
AbortSession ==
  status' = IF up THEN [c \in Contract |-> IF status[c] = "pending" THEN "interrupted" ELSE status[c]]
            ELSE status

\* agentAbort: it means the execution that owns the session, or one that is
\* claimed.
Stop ==
  /\ stop = NoStop /\ side /\ Room /\ aborts < MaxAborts /\ aborts' = aborts + 1
  /\ \E c \in Contract \cup {None} :
       /\ IF owner # None THEN c = owner ELSE IF claimed # {} THEN c \in claimed ELSE c = None
       /\ stop' = [at |-> "sent", on |-> c]
  /\ UNCHANGED <<hostVars, up, active, submitting, closing, after, joined, prompt, dispVars, recordVars, runVars, overtaken, prompts, exits, losses>>

\* agent.abort in the sidecar: the contract is aborted, and the run, which says so.
StopRun ==
  /\ stop.at = "sent" /\ side /\ stop' = [stop EXCEPT !.at = "back"]
  /\ AbortSession
  /\ IF rt = None THEN UNCHANGED <<rt, wire>> ELSE rt' = None /\ Says(rt, "interrupted")
  /\ UNCHANGED <<exec, mode, running, up, active, submitting, closing, after, joined, prompt, dispVars, recordVars, side, ran, unheard, overtaken, bounds>>

\* Then the turn is closed and the execution recorded, whatever the answer.
StopDone ==
  /\ stop.at = "back" /\ stop' = NoStop
  /\ Close(IF stop.on = None THEN {} ELSE {<<stop.on, "interrupted">>})
  /\ UNCHANGED <<hostVars, up, active, submitting, prompt, dispVars, recordVars, runVars, overtaken, bounds>>

-----------------------------------------------------------------------------
(* Exits and starts *)

Exit == Room /\ exits < MaxExits /\ exits' = exits + 1 /\ UNCHANGED <<prompts, losses, aborts>>

\* host-core exits: every call fails, what is claimed is to be recorded as
\* interrupted, and the turn of the owner closed.
HostExit ==
  /\ Exit /\ up /\ up' = FALSE /\ drain' = FALSE /\ recording' = {}
  /\ pend' = [c \in Contract |-> IF c \in claimed \ finished /\ pend[c] = "none"
                                 THEN "interrupted" ELSE pend[c]]
  /\ IF owner \in claimed THEN Close({}) ELSE UNCHANGED <<closing, after, joined>>
  /\ UNCHANGED <<hostVars, active, submitting, prompt, stop, disp, retry, claimed, owner, started, finished, runVars, overtaken>>

\* Mutant: an execution that was running is queued again.
BootRequeues ==
  /\ status' = [c \in Contract |-> IF status[c] = "pending" THEN "interrupted" ELSE status[c]]
  /\ exec' = [c \in Contract |-> IF exec[c] = "running" THEN "queued" ELSE exec[c]]
  /\ running' = None

\* boot_maintenance
Boot ==
  /\ status' = [c \in Contract |-> IF status[c] = "pending" THEN "interrupted" ELSE status[c]]
  /\ exec' = [c \in Contract |-> IF exec[c] \in {"queued", "running"} THEN "interrupted" ELSE exec[c]]
  /\ running' = None

\* The start of drainApprovedPlanExecutions, if both processes are there.
Drain(both) ==
  /\ drain' = both
  /\ recording' = IF both THEN recording \cup {c \in Contract : pend[c] # "none"} ELSE recording

HostStart ==
  /\ ~up /\ up' = TRUE /\ Boot /\ Overtakes /\ Drain(side)
  /\ UNCHANGED <<mode, turnVars, disp, retry, claimed, owner, started, finished, pend, runVars, bounds>>

\* The sidecar exits: the contract is aborted, the active turn closed, and every
\* claimed execution recorded as interrupted.
SidecarExit ==
  /\ Exit /\ side /\ side' = FALSE /\ rt' = None /\ wire' \in {wire, <<>>} /\ drain' = FALSE
  /\ IF active = None THEN UNCHANGED <<status, closing, after, joined>>
     ELSE AbortSession /\ Close(IF owner = None THEN {} ELSE {<<owner, "interrupted">>})
  /\ Record(claimed, "interrupted")
  /\ stop' = IF stop.at = "sent" THEN [stop EXCEPT !.at = "back"] ELSE stop
  /\ UNCHANGED <<exec, mode, running, up, active, submitting, prompt, disp, retry, claimed, owner, started, finished, ran, unheard, overtaken>>

SidecarStart ==
  /\ ~side /\ side' = TRUE /\ Drain(up)
  /\ UNCHANGED <<hostVars, up, turnVars, disp, retry, claimed, owner, started, finished, pend, rt, ran, wire, unheard, overtaken, bounds>>

\* plans.queuedExecutions has answered.
DrainQueued ==
  /\ drain /\ recording = {} /\ drain' = FALSE
  /\ IF \E c \in Contract : exec[c] = "queued"
     THEN \E c \in Contract : exec[c] = "queued" /\ Dispatch(c)
     ELSE UNCHANGED <<disp, retry>>
  /\ UNCHANGED <<hostVars, up, turnVars, claimed, owner, started, recordVars, runVars, overtaken, bounds>>

\* Main exits with both processes and forgets everything.
MainExit ==
  /\ Exit /\ up' = FALSE /\ side' = FALSE /\ rt' = None /\ wire' = <<>>
  /\ active' = None /\ submitting' = FALSE /\ closing' = None /\ after' = {}
  /\ prompt' = FALSE /\ stop' = NoStop
  /\ disp' = [c \in Contract |-> "idle"] /\ retry' = {} /\ drain' = FALSE
  /\ claimed' = {} /\ owner' = None /\ started' = {} /\ finished' = {}
  /\ pend' = [c \in Contract |-> "none"] /\ recording' = {}
  /\ UNCHANGED <<hostVars, ran, unheard, joined, overtaken>>

-----------------------------------------------------------------------------

DispatchStep == \E c \in Contract :
  RetryDue(c) \/ WaitDone(c) \/ Claim(c) \/ Launch(c) \/ Begin(c) \/ Execute(c)
RecordStep == After \/ \E c \in Contract : RecordDone(c)
Starts == HostStart \/ SidecarStart

ContractNext ==
  \/ DispatchStep \/ RecordStep \/ CloseDone \/ DrainQueued \/ Starts
  \/ \E c \in Contract : RecordLost(c) \/ ClaimLost(c) \/ BeginLost(c) \/ ApproveLost(c)
  \/ \E c \in Contract : Submit(c) \/ Expire(c) \/ Approve(c) \/ Reject(c)
  \/ (\E outcome \in Ended : TurnEnds(outcome)) \/ HearEnd
  \/ PromptCheck \/ PromptOpen \/ Enter \/ Stop \/ StopRun \/ StopDone
  \/ HostExit \/ SidecarExit \/ MainExit

ContractSpec == ContractInit /\ [][ContractNext]_contractVars

\* Timers fire, calls settle, turns end and what has exited is started again.
ContractFairness ==
  /\ \A c \in Contract :
       /\ WF_contractVars(RetryDue(c)) /\ WF_contractVars(WaitDone(c)) /\ WF_contractVars(Claim(c))
       /\ WF_contractVars(Launch(c)) /\ WF_contractVars(Begin(c)) /\ WF_contractVars(Execute(c))
       /\ WF_contractVars(RecordDone(c))
  /\ WF_contractVars(After) /\ WF_contractVars(CloseDone) /\ WF_contractVars(DrainQueued)
  /\ WF_contractVars(HostStart) /\ WF_contractVars(SidecarStart)
  /\ WF_contractVars(\E outcome \in Ended : TurnEnds(outcome)) /\ WF_contractVars(HearEnd)
  /\ WF_contractVars(PromptOpen) /\ WF_contractVars(StopRun) /\ WF_contractVars(StopDone)

ContractLiveSpec == ContractSpec /\ ContractFairness

-----------------------------------------------------------------------------
(* Properties *)

\* "An interrupted execution is paused and never replayed" (docs/spec/03-runtime/
\* 01-ipc-protocol.md:1325): whatever exits, is lost or is clicked twice, an
\* approved plan is run at most once, only an approved one is, and what is
\* recorded as completed has been.
RunsOnce ==
  \A c \in Contract :
    /\ ran[c] <= 1
    /\ ran[c] = 1 => status[c] = "approved"
    /\ exec[c] = "completed" => ran[c] = 1

\* A decision and an outcome are final: nothing that arrives late, not a boot
\* either, turns a settled proposal or an ended execution into something else.
\* "An interrupted execution is paused": it does not start after all, but for a
\* dispatch that is past its claim when the outcome is recorded.
SettledStays ==
  [][\A c \in Contract :
       /\ status[c] \notin {"none", "pending"} => status'[c] = status[c]
       /\ exec[c] \in Ended => exec'[c] = exec[c]
       /\ exec[c] # "running" /\ c \notin overtaken => ran'[c] = ran[c]]_contractVars

\* A session carries out one contract at a time, in agent mode.
OneContract ==
  /\ Cardinality({c \in Contract : exec[c] \in {"queued", "running"}}) <= 1
  /\ Cardinality({c \in Contract : status[c] = "pending"}) <= 1
  /\ ActiveExecution => mode = "agent"

\* An approved execution ends, and with it what keeps the session from its next
\* contract; unless the answer of a call was lost, a turn's end joined the end of
\* another turn, a dispatch was overtaken, or a late Stop of another turn had
\* closed the turn of the execution and its end was dropped for that.
ExecutionEnds ==
  \A c \in Contract :
    exec[c] \in {"queued", "running"} ~>
      (exec[c] \in Ended \/ losses > 0 \/ joined \/ overtaken # {} \/ unheard)

\* The state is well formed, and a session carries out one contract at a time.
ContractInv == ContractTypeOK /\ OneContract

=============================================================================
