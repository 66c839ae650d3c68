------------------------------ MODULE ToolGate ------------------------------
(***************************************************************************)
(* The way of a tool call through host-core: tools.execute, tools.abort    *)
(* and the permission requests in between (crates/host-core/src/rpc/mod.rs,*)
(* state.rs, permissions.rs).  The handlers are tokio tasks that share     *)
(* AppState under one lock: each action is what a task does under the lock *)
(* once, and the local variables of tools.execute are the record of a call.*)
(*                                                                         *)
(* A tombstone is younger than BASH_ABORT_TOMBSTONE_TTL here.              *)
(***************************************************************************)
EXTENDS Integers, FiniteSets

CONSTANTS
  Call, SessionOf, ToolOf, \* the tool calls, their sessions and their tools
  Shell,                   \* the calls of Bash and ProcessStart
  Verdicts                 \* what the modes and the risk of a call may decide

Allow == {"allow-once", "allow-session"}
Decision == Allow \cup {"deny"}

ASSUME GateAssumption ==
  /\ IsFiniteSet(Call) /\ Shell \subseteq Call
  /\ Verdicts \subseteq {"allow-once", "deny", "ask"}

VARIABLES
  call,       \* where each tools.execute is, its decision, whether it sent
              \* permissions.request, and its outcome
  request,    \* the request of each call in PermissionManager.pending
  registered, \* the calls in pending_permissions
  sent,       \* what the request's oneshot channel carries
  watch,      \* the channel of each call in active_bash_cancellations
  tombstones, \* pending_bash_aborts
  grants,     \* session_grants: sessions with a tool
  shutting,   \* shutting_down
  accepted,   \* history: the answer permissions.resolve accepted
  aborted     \* history: when tools.abort came: before or after the allow

gateVars == <<call, request, registered, sent, watch, tombstones, grants,
              shutting, accepted, aborted>>

At == {"new", "registered", "look", "waiting", "decided", "allowed", "running",
       "clearing", "done"}
Outcome == {"none", "refused", "denied", "aborted", "overloaded", "ran"}

GateTypeOK ==
  /\ call \in [Call -> [at : At, decision : Decision \cup {"none"},
                        asked : BOOLEAN, outcome : Outcome]]
  /\ request \in [Call -> {"none", "open", "stale"}]
  /\ registered \subseteq Call /\ tombstones \subseteq Call
  /\ sent \in [Call -> Decision \cup {"none"}]
  /\ watch \in [Call -> {"none", "clear", "set"}]
  /\ grants \subseteq {<<SessionOf[c], ToolOf[c]>> : c \in Call}
  /\ shutting \in BOOLEAN
  /\ accepted \in [Call -> Decision \cup {"none"}]
  /\ aborted \in [Call -> {"no", "early", "late"}]

GateInit ==
  /\ call = [c \in Call |-> [at |-> "new", decision |-> "none",
                             asked |-> FALSE, outcome |-> "none"]]
  /\ request = [c \in Call |-> "none"] /\ sent = [c \in Call |-> "none"]
  /\ watch = [c \in Call |-> "none"]
  /\ registered = {} /\ tombstones = {} /\ grants = {} /\ shutting = FALSE
  /\ accepted = [c \in Call |-> "none"] /\ aborted = [c \in Call |-> "no"]

-----------------------------------------------------------------------------
(* The permission requests *)

\* The requests cs are removed and their waiters are told to deny.
Deny(cs) ==
  /\ request' = [c \in Call |-> IF c \in cs THEN "none" ELSE request[c]]
  /\ sent' = [c \in Call |-> IF c \in cs /\ request[c] # "none" THEN "deny" ELSE sent[c]]

\* cancel_pending_permission, through the table that names the request.
CancelPending(c) ==
  /\ Deny({c} \cap registered)
  /\ registered' = registered \ {c}

KeepRequests == UNCHANGED <<request, sent, registered>>

Stale == {c \in Call : request[c] = "stale"}

\* PERMISSION_TIMEOUT_MS has passed since the request was created.
Age(c) ==
  /\ request[c] = "open" /\ request' = [request EXCEPT ![c] = "stale"]
  /\ UNCHANGED <<call, registered, sent, watch, tombstones, grants, shutting, accepted, aborted>>

\* resolve_permission.
Resolve(c, d) ==
  /\ registered' = registered \ {c}
  /\ request' = [request EXCEPT ![c] = "none"]
  /\ sent' = [sent EXCEPT ![c] = IF request[c] = "none" THEN @
                                 ELSE IF request[c] = "open" THEN d ELSE "deny"]
  /\ accepted' = [accepted EXCEPT ![c] = IF request[c] = "open" THEN d ELSE @]
  /\ UNCHANGED <<call, watch, tombstones, grants, shutting, aborted>>

ResolveReply(c) ==
  CASE request[c] = "open"  -> "ok"
    [] request[c] = "stale" -> "PERMISSION_TIMEOUT"
    [] OTHER                -> "NOT_FOUND"

-----------------------------------------------------------------------------
(* tools.execute *)

\* The channel keeps its value until Clear, so the local `cancelled' is this.
Cancelled(c) == watch[c] = "set"

Go(c, from, to) == call[c].at = from /\ call' = [call EXCEPT ![c] = to]

KeepGate == UNCHANGED <<tombstones, grants, shutting, accepted, aborted>>

\* Mutant: a tombstone is not looked at.
RegisterFresh(c) ==
  /\ Go(c, "new", [call[c] EXCEPT !.at = IF shutting THEN "done" ELSE "registered",
                                  !.outcome = IF shutting THEN "refused" ELSE @])
  /\ watch' = [watch EXCEPT ![c] = IF c \in Shell /\ ~shutting THEN "clear" ELSE @]
  /\ KeepRequests /\ KeepGate

\* register_bash_cancellation, before permission is evaluated.
Register(c) ==
  /\ Go(c, "new", [call[c] EXCEPT !.at = IF shutting THEN "done" ELSE "registered",
                                  !.outcome = IF shutting THEN "refused" ELSE @])
  /\ IF c \notin Shell \/ shutting THEN UNCHANGED <<watch, tombstones>>
     ELSE /\ watch' = [watch EXCEPT ![c] = IF c \in tombstones THEN "set" ELSE "clear"]
          /\ tombstones' = tombstones \ {c}
  /\ KeepRequests /\ UNCHANGED <<grants, shutting, accepted, aborted>>

\* expire_stale, then what the modes decide, then the session's grants, then
\* a request.
Evaluate(c) ==
  \E verdict \in Verdicts :
    LET granted == <<SessionOf[c], ToolOf[c]>> \in grants
        asks    == ~shutting /\ verdict = "ask" /\ ~granted
    IN /\ Go(c, "registered",
             [call[c] EXCEPT
               !.at = IF shutting THEN "clearing" ELSE "look",
               !.outcome = IF shutting THEN "refused" ELSE @,
               !.decision = IF shutting \/ asks THEN @
                            ELSE IF verdict = "ask" THEN "allow-session" ELSE verdict])
       /\ IF shutting THEN UNCHANGED <<request, sent>>
          ELSE /\ request' = [d \in Call |-> IF d = c /\ asks THEN "open"
                                             ELSE IF d \in Stale THEN "none" ELSE request[d]]
               /\ sent' = [d \in Call |-> IF d \in Stale THEN "deny" ELSE sent[d]]
       /\ registered' = IF asks THEN registered \cup {c} ELSE registered
       /\ UNCHANGED watch /\ KeepGate

\* Already aborted, decided without asking, or announced with permissions.request.
Look(c) ==
  /\ Go(c, "look", [call[c] EXCEPT
       !.at = IF ~Cancelled(c) /\ call[c].decision = "none" THEN "waiting" ELSE "decided",
       !.decision = IF Cancelled(c) THEN "deny" ELSE @,
       !.asked = ~Cancelled(c) /\ call[c].decision = "none"])
  /\ IF Cancelled(c) THEN CancelPending(c) ELSE KeepRequests
  /\ UNCHANGED watch /\ KeepGate

\* The select: an answer, the timeout, or the cancellation.
Answered(c) ==
  /\ sent[c] # "none"
  /\ Go(c, "waiting", [call[c] EXCEPT !.at = "decided", !.decision = sent[c]])
  /\ KeepRequests /\ UNCHANGED watch /\ KeepGate

\* Mutant: the timer is looked at before the answer.
TimedOutFirst(c) ==
  /\ request[c] # "open"
  /\ Go(c, "waiting", [call[c] EXCEPT !.at = "decided", !.decision = "deny"])
  /\ KeepRequests /\ UNCHANGED watch /\ KeepGate

\* Mutant: a call relies on expire_stale to end its wait.
TimedOutBySweep(c) == FALSE

TimedOut(c) ==
  /\ sent[c] = "none" /\ request[c] # "open"
  /\ Go(c, "waiting", [call[c] EXCEPT !.at = "decided", !.decision = "deny"])
  /\ KeepRequests /\ UNCHANGED watch /\ KeepGate

Interrupted(c) ==
  /\ Cancelled(c)
  /\ Go(c, "waiting", [call[c] EXCEPT !.at = "decided", !.decision = "deny"])
  /\ CancelPending(c) /\ UNCHANGED watch /\ KeepGate

\* Mutant: a denied call leaves its request behind.
SettleKeeping(c) ==
  /\ IF call[c].decision = "deny"
     THEN Go(c, "decided", [call[c] EXCEPT !.at = "clearing",
                              !.outcome = IF Cancelled(c) THEN "aborted" ELSE "denied"])
     ELSE Go(c, "decided", [call[c] EXCEPT !.at = "allowed"])
  /\ grants' = IF call[c].decision = "allow-session"
               THEN grants \cup {<<SessionOf[c], ToolOf[c]>>} ELSE grants
  /\ KeepRequests /\ UNCHANGED <<watch, tombstones, shutting, accepted, aborted>>

\* A late cancellation is noted but does not take an allow back.
Settle(c) ==
  /\ IF call[c].decision = "deny"
     THEN Go(c, "decided", [call[c] EXCEPT !.at = "clearing",
                              !.outcome = IF Cancelled(c) THEN "aborted" ELSE "denied"])
     ELSE Go(c, "decided", [call[c] EXCEPT !.at = "allowed"])
  /\ IF Cancelled(c) \/ call[c].decision = "deny" THEN CancelPending(c) ELSE KeepRequests
  /\ grants' = IF call[c].decision = "allow-session"
               THEN grants \cup {<<SessionOf[c], ToolOf[c]>>} ELSE grants
  /\ UNCHANGED <<watch, tombstones, shutting, accepted, aborted>>

\* Admission (module ToolBudget) lets the call run or refuses it.
Admit(c) ==
  /\ \E ok \in BOOLEAN :
       Go(c, "allowed", [call[c] EXCEPT !.at = IF ok THEN "running" ELSE "clearing",
                                        !.outcome = IF ok THEN @ ELSE "overloaded"])
  /\ KeepRequests /\ UNCHANGED watch /\ KeepGate

\* A shell tool watches its channel: it may end on its own before it sees it.
EndTool(c) ==
  /\ \E seen \in BOOLEAN :
       /\ seen => Cancelled(c)
       /\ Go(c, "running", [call[c] EXCEPT !.at = "clearing",
                                           !.outcome = IF seen THEN "aborted" ELSE "ran"])
  /\ KeepRequests /\ UNCHANGED watch /\ KeepGate

\* clear_bash_cancellation.
Clear(c) ==
  /\ Go(c, "clearing", [call[c] EXCEPT !.at = "done"])
  /\ IF c \notin Shell THEN UNCHANGED <<watch, tombstones>>
     ELSE /\ watch' = [watch EXCEPT ![c] = "none"]
          /\ tombstones' = tombstones \ {c}
  /\ KeepRequests /\ UNCHANGED <<grants, shutting, accepted, aborted>>

Execute(c) ==
  \/ Evaluate(c) \/ Look(c) \/ Answered(c) \/ TimedOut(c) \/ Interrupted(c)
  \/ Settle(c) \/ Admit(c) \/ EndTool(c) \/ Clear(c)

-----------------------------------------------------------------------------
(* The other calls of the host *)

AllowedBefore(c) ==
  \/ call[c].decision \in Allow /\ call[c].at \in {"decided", "allowed", "running"}
  \/ sent[c] \in Allow \/ call[c].at \in {"clearing", "done"}

\* tools.abort, which the sidecar sends at most once for a call, and not for a
\* call that has settled.
Abort(c) ==
  /\ aborted[c] = "no" /\ call[c].at # "done"
  /\ aborted' = [aborted EXCEPT ![c] = IF AllowedBefore(c) THEN "late" ELSE "early"]
  /\ CancelPending(c)
  /\ IF watch[c] # "none" /\ ~shutting
     THEN watch' = [watch EXCEPT ![c] = "set"] /\ UNCHANGED tombstones
     ELSE tombstones' = tombstones \cup {c} /\ UNCHANGED watch
  /\ UNCHANGED <<call, grants, shutting, accepted>>

ClearGrants(s) ==
  /\ \E g \in grants : g[1] = s
  /\ grants' = {g \in grants : g[1] # s}
  /\ UNCHANGED <<call, request, registered, sent, watch, tombstones, shutting, accepted, aborted>>

\* The watch channels are sent `true' and forgotten.
Shutdown ==
  /\ ~shutting /\ shutting' = TRUE
  /\ watch' = [c \in Call |-> IF watch[c] = "none" THEN "none" ELSE "set"]
  /\ Deny(registered) /\ registered' = {} /\ tombstones' = {}
  /\ UNCHANGED <<call, grants, accepted, aborted>>

\* The other calls of the host: one sweeps what is stale before it is
\* evaluated, one was allowed for its session.
Sweep ==
  /\ Stale # {} /\ Deny(Stale)
  /\ UNCHANGED <<call, registered, watch, tombstones, grants, shutting, accepted, aborted>>

Grant(g) ==
  /\ g \notin grants /\ grants' = grants \cup {g}
  /\ UNCHANGED <<call, request, registered, sent, watch, tombstones, shutting, accepted, aborted>>

HostStep ==
  \/ \E c \in Call : Register(c) \/ Execute(c) \/ Age(c) \/ Abort(c)
  \/ \E c \in Call : ClearGrants(SessionOf[c]) \/ Grant(<<SessionOf[c], ToolOf[c]>>)
  \/ Sweep \/ Shutdown

-----------------------------------------------------------------------------
(* Properties *)

Over(c) == call[c].at = "done"

\* A call that has ended, on whichever path, has left nothing in the tables of
\* the host: no request a client could still answer, no channel, no tombstone
\* an abort has not put there since.
NothingLeft ==
  \A c \in Call :
    Over(c) => request[c] = "none" /\ c \notin registered /\ watch[c] = "none"

\* What the host told a client it accepted is what the call does, unless it was
\* aborted or the host is going down: an allowed call is not denied and a
\* denied one does not run, whatever the timer does.
AcceptedIsObeyed ==
  \A c \in Call :
    /\ accepted[c] = "deny" => call[c].at \notin {"allowed", "running"} /\ call[c].outcome # "ran"
    /\ accepted[c] \in Allow /\ aborted[c] = "no" /\ ~shutting => call[c].outcome # "denied"

\* "cancellation is authoritative" (permissions.rs:388): a shell call that was
\* aborted before it was allowed never starts, wherever the abort met it.
AbortedNeverRuns ==
  \A c \in Shell : aborted[c] = "early" => call[c].at # "running" /\ call[c].outcome # "ran"

\* A tool call that asks never waits for ever: an answer, an abort or the timer
\* ends the wait, and with it the call.
EveryCallEnds == \A c \in Call : (call[c].at = "registered") ~> Over(c)

=============================================================================
