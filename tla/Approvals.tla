----------------------------- MODULE Approvals ------------------------------
(***************************************************************************)
(* Who answers a permission request: the desktop card through Electron     *)
(* Main (toolResolvePermission in index.ts) and remote clients through the *)
(* Agent Host's ApprovalBroker (packages/agent-host/src/approvals.ts) and  *)
(* the bridge (agent-host-bridge.ts), which calls the same handler of Main.*)
(* The host decides (module ToolGate); broker and bridge keep what remote  *)
(* clients are shown and told.                                             *)
(*                                                                         *)
(* An action is what Main's event loop does between two awaits.  A turn    *)
(* may end, and a client may attach, at any moment.                        *)
(***************************************************************************)
EXTENDS ToolGate

CONSTANTS
  Responder, Remote, \* the clients that answer, and which of them are remote
  Answers            \* what each of them may answer

ASSUME ApprovalAssumption ==
  Remote \subseteq Responder /\ Answers \in [Responder -> SUBSET Decision]

VARIABLES
  told,      \* the calls whose permissions.request Main has received
  card,      \* ApprovalBroker.pending
  result,    \* ApprovalBroker.results
  resolving, \* resolvingViaModule
  answer,    \* the answer of each client: where it is, for what, its reply
  listed,    \* what an attach has been given by permissions.pending
  slipped    \* history: the calls whose settlement the broker missed or undid

brokerVars == <<told, card, result, resolving, answer, listed, slipped>>
approvalVars == <<gateVars, brokerVars>>

Idle == [at |-> "idle", on |-> "none", decision |-> "none", reply |-> "none"]
Reply == {"none", "ok", "alreadyResolved", "NOT_FOUND", "PERMISSION_TIMEOUT", "APPROVAL_EXPIRED"}

ApprovalTypeOK ==
  /\ GateTypeOK
  /\ told \subseteq {c \in Call : call[c].asked}
  /\ card \subseteq Call /\ resolving \subseteq Call
  /\ listed \subseteq Call /\ slipped \subseteq Call
  /\ result \in [Call -> Decision \cup {"none", "expired", "canceled"}]
  /\ answer \in [Responder ->
                   [at : {"idle", "sent", "back", "over"}, on : Call \cup {"none"},
                    decision : Decision \cup {"none"}, reply : Reply]]

ApprovalInit ==
  /\ GateInit
  /\ told = {} /\ card = {} /\ resolving = {} /\ listed = {} /\ slipped = {}
  /\ result = [c \in Call |-> "none"]
  /\ answer = [r \in Responder |-> Idle]

-----------------------------------------------------------------------------
(* ApprovalBroker *)

\* settle
BrokerSettle(c, outcome) ==
  /\ card' = card \ {c}
  /\ result' = [result EXCEPT ![c] = outcome]

\* fromToolPermission adds a request whatever is remembered of it.
Reopen(cs) ==
  /\ card' = card \cup cs
  /\ slipped' = slipped \cup {c \in cs : accepted[c] # "none"}

Announce(c) ==
  /\ call[c].asked /\ c \notin told
  /\ told' = told \cup {c} /\ Reopen({c})
  /\ UNCHANGED <<gateVars, result, resolving, answer, listed>>

\* agent_end of a session's turn: cancelForSession.
TurnEnd(s) ==
  LET cs == {c \in card : SessionOf[c] = s}
  IN /\ cs # {}
     /\ card' = card \ cs
     /\ result' = [c \in Call |-> IF c \in cs THEN "canceled" ELSE result[c]]
     /\ UNCHANGED <<gateVars, told, resolving, answer, listed, slipped>>

\* syncPendingTools asks the host what is open and then adds it.
SyncAsk(s) ==
  /\ listed = {}
  /\ listed' = {c \in Call : request[c] = "open" /\ SessionOf[c] = s} /\ listed' # {}
  /\ UNCHANGED <<gateVars, told, card, result, resolving, answer, slipped>>

SyncAdd ==
  /\ listed # {} /\ listed' = {} /\ Reopen(listed)
  /\ UNCHANGED <<gateVars, told, result, resolving, answer>>

-----------------------------------------------------------------------------
(* A client answers *)

Close(r, reply) == answer' = [answer EXCEPT ![r].at = "over", ![r].reply = reply]

\* respondApproval and resolve up to the await of the port.  The broker's own
\* deadline follows the lifetime policy, so `late' is any outcome of its clock.
RemoteAnswers(r, c, d) ==
  /\ r \in Remote /\ answer[r].at = "idle"
  /\ c \in card \/ result[c] # "none"
  /\ LET at(there, reply) ==
           answer' = [answer EXCEPT ![r] = [at |-> there, on |-> c, decision |-> d, reply |-> reply]]
     IN \/ /\ result[c] # "none"
           /\ at("over", "alreadyResolved") /\ UNCHANGED <<card, result, resolving>>
        \/ /\ result[c] = "none" \* late
           /\ BrokerSettle(c, "expired")
           /\ at("over", "APPROVAL_EXPIRED") /\ UNCHANGED resolving
        \/ /\ result[c] = "none"
           /\ resolving' = resolving \cup {c}
           /\ at("sent", "none") /\ UNCHANGED <<card, result>>
  /\ UNCHANGED <<gateVars, told, listed, slipped>>

\* The desktop card.
LocalAnswers(r, c, d) ==
  /\ r \notin Remote /\ answer[r].at = "idle" /\ c \in told
  /\ answer' = [answer EXCEPT ![r] = [at |-> "sent", on |-> c, decision |-> d, reply |-> "none"]]
  /\ UNCHANGED <<gateVars, told, card, result, resolving, listed, slipped>>

HostAnswers(r) ==
  LET c == answer[r].on
  IN /\ answer[r].at = "sent"
     /\ answer' = [answer EXCEPT ![r].at = "back", ![r].reply = ResolveReply(c)]
     /\ Resolve(c, answer[r].decision)
     /\ UNCHANGED <<told, card, result, resolving, listed, slipped>>

\* Mutant: a failed answer is stored like a good one.
AnswerBackStores(r) ==
  LET c == answer[r].on
  IN /\ answer[r].at = "back" /\ Close(r, answer[r].reply)
     /\ resolving' = IF r \in Remote THEN resolving \ {c} ELSE resolving
     /\ IF r \in Remote \/ c \in card \ resolving
        THEN BrokerSettle(c, answer[r].decision) ELSE UNCHANGED <<card, result>>
     /\ UNCHANGED <<gateVars, told, listed, slipped>>

\* Mutant: the desktop card does not tell the module.
AnswerBackUntold(r) ==
  LET c == answer[r].on
  IN /\ answer[r].at = "back" /\ Close(r, answer[r].reply)
     /\ resolving' = IF r \in Remote THEN resolving \ {c} ELSE resolving
     /\ IF answer[r].reply = "ok" /\ r \in Remote
        THEN BrokerSettle(c, answer[r].decision) ELSE UNCHANGED <<card, result>>
     /\ UNCHANGED <<gateVars, told, listed, slipped>>

\* The handler of Main settles the card unless the module resolves it; then the
\* module, if it is the caller, forgets that it does and settles it itself.
AnswerBack(r) ==
  LET c  == answer[r].on
      ok == answer[r].reply = "ok"
  IN /\ answer[r].at = "back" /\ Close(r, answer[r].reply)
     /\ resolving' = IF r \in Remote THEN resolving \ {c} ELSE resolving
     /\ IF ok /\ (r \in Remote \/ c \in card \ resolving)
        THEN BrokerSettle(c, answer[r].decision) ELSE UNCHANGED <<card, result>>
     /\ slipped' = IF ok /\ r \notin Remote /\ c \in resolving THEN slipped \cup {c} ELSE slipped
     /\ UNCHANGED <<gateVars, told, listed>>

-----------------------------------------------------------------------------

BrokerStep ==
  \/ \E c \in Call : Announce(c)
  \/ \E s \in {SessionOf[c] : c \in Call} : TurnEnd(s) \/ SyncAsk(s)
  \/ SyncAdd
  \/ \E r \in Responder : HostAnswers(r) \/ AnswerBack(r)
  \/ \E r \in Responder, c \in Call : \E d \in Answers[r] :
       RemoteAnswers(r, c, d) \/ LocalAnswers(r, c, d)

ApprovalNext == (HostStep /\ UNCHANGED brokerVars) \/ BrokerStep

ApprovalSpec == ApprovalInit /\ [][ApprovalNext]_approvalVars

\* The tasks of host-core run and their timers expire; nobody has to answer,
\* abort or attach.
GateFairness ==
  \A c \in Call : WF_approvalVars((Execute(c) \/ Age(c)) /\ UNCHANGED brokerVars)

ApprovalLiveSpec == ApprovalSpec /\ GateFairness

-----------------------------------------------------------------------------
(* Properties *)

\* "The first valid decision wins across local and remote clients"
\* (approvals.ts:47): two clients are never both told that theirs was taken, and
\* what the broker stores, and tells later clients, is the decision the host took.
FirstDecisionWins ==
  /\ \A r, q \in Responder :
       r # q /\ answer[r].reply = "ok" /\ answer[q].reply = "ok" => answer[r].on # answer[q].on
  /\ \A c \in Call : result[c] \in Decision => accepted[c] = result[c]

\* "Records the outcome so a later remote response gets `alreadyResolved'"
\* (approvals.ts:198-199): once the client that won has its reply, the request is
\* no longer open in the broker and its result is remembered.  It can slip: the
\* desktop card wins while a remote answer is on its way and is not recorded for
\* its sake, or a list that is older than the answer, or a late announcement,
\* opens the request again.
ClosedUnlessSlipped ==
  \A r \in Responder, c \in Call :
    answer[r].on = c /\ answer[r].at = "over" /\ answer[r].reply = "ok" /\ c \notin slipped
      => c \notin card /\ result[c] # "none"

\* The state is well formed, and what a call used in the tables is gone with it.
ApprovalInv == ApprovalTypeOK /\ NothingLeft

=============================================================================
