-------------------------- MODULE Approvals_proofs --------------------------
(***************************************************************************)
(* Proofs about ToolGate as Approvals uses it, for every set of calls and  *)
(* clients: an abort or an answer is obeyed wherever it meets a call.      *)
(***************************************************************************)
EXTENDS Approvals, TLAPS

-----------------------------------------------------------------------------
(* The inductive invariant *)

\* A request is open only while its call looks for it or waits, and its channel
\* carries at most one message, which is the accepted answer if there is one.
Asked(c) ==
  /\ request[c] # "none" => c \in registered
  /\ call[c].at \in {"new", "registered"} =>
       request[c] = "none" /\ sent[c] = "none" /\ accepted[c] = "none"
  /\ call[c].at \notin {"look", "waiting"} => request[c] # "open"
  /\ call[c].at = "look" /\ call[c].decision # "none" =>
       request[c] = "none" /\ sent[c] = "none" /\ accepted[c] = "none"
  /\ accepted[c] # "none" => sent[c] = accepted[c]
  /\ sent[c] # "none" => request[c] = "none"

\* What the table still names waits, or is about to be denied.
Kept(c) ==
  c \in registered =>
    /\ call[c].at \in {"look", "waiting", "decided"}
    /\ call[c].at = "look" => call[c].decision = "none"
    /\ call[c].at = "decided" => call[c].decision = "deny"
    /\ sent[c] \notin Allow

Decided(c) ==
  /\ call[c].at \in {"new", "registered"} => call[c].decision = "none"
  /\ call[c].at = "decided" => call[c].decision # "none"
  /\ call[c].at \in {"allowed", "running"} => call[c].decision \in Allow
  /\ call[c].at \notin {"clearing", "done"} => call[c].outcome = "none"

\* A shell call has a channel while it is in the host, and what is set or left
\* for it an abort or the shutdown has put there.
Watched(c) ==
  /\ c \in Shell => /\ call[c].at \in {"new", "done"} => watch[c] = "none"
                    /\ call[c].at \notin {"new", "done"} => watch[c] # "none"
  /\ c \notin Shell => watch[c] = "none"
  /\ shutting => watch[c] # "clear"
  /\ watch[c] = "set" \/ c \in tombstones => aborted[c] # "no" \/ shutting

\* Where an early abort is kept until the call finds it.
Stopped(c) ==
  c \in Shell /\ aborted[c] = "early" =>
    /\ call[c].at \notin {"allowed", "running"} /\ call[c].outcome # "ran"
    /\ call[c].at = "new" => c \in tombstones \/ shutting
    /\ call[c].at \in {"registered", "look", "waiting"} => watch[c] = "set"
    /\ call[c].at = "waiting" => request[c] = "none" /\ sent[c] \notin Allow
    /\ call[c].at = "decided" => call[c].decision = "deny"

\* What an accepted answer makes of the call.
Obeyed(c) ==
  /\ accepted[c] = "deny" =>
       /\ call[c].at \notin {"allowed", "running"} /\ call[c].outcome # "ran"
       /\ call[c].at = "decided" => call[c].decision = "deny"
  /\ accepted[c] \in Allow /\ aborted[c] = "no" /\ ~shutting =>
       /\ call[c].outcome # "denied"
       /\ call[c].at = "decided" => call[c].decision # "deny"

GateInv ==
  /\ GateTypeOK
  /\ \A c \in Call : Asked(c) /\ Kept(c) /\ Decided(c) /\ Watched(c) /\ Stopped(c) /\ Obeyed(c)

CallInv(c) == Asked(c) /\ Kept(c) /\ Decided(c) /\ Watched(c) /\ Stopped(c) /\ Obeyed(c)

-----------------------------------------------------------------------------
(* Steps *)

CallRec == [at : At, decision : Decision \cup {"none"}, asked : BOOLEAN, outcome : Outcome]

\* One call goes on.
LEMMA Went ==
  ASSUME GateTypeOK, NEW c \in Call, NEW from, NEW to \in CallRec, Go(c, from, to)
  PROVE  /\ call[c].at = from /\ call'[c] = to /\ \A d \in Call \ {c} : call'[d] = call[d]
         /\ call' \in [Call -> CallRec]
BY DEF GateTypeOK, Go, CallRec

\* What other calls, and the sweep of what is stale, do to a call: its request
\* ages, or is denied.
Aside(d) ==
  /\ call'[d] = call[d] /\ watch'[d] = watch[d] /\ accepted'[d] = accepted[d]
  /\ aborted'[d] = aborted[d] /\ shutting' = shutting
  /\ d \in tombstones' <=> d \in tombstones
  /\ \/ request'[d] = request[d] /\ sent'[d] = sent[d]
     \/ request[d] = "open" /\ request'[d] = "stale" /\ sent'[d] = sent[d]
     \/ request[d] # "none" /\ request'[d] = "none" /\ sent'[d] = "deny"
  /\ request'[d] # "none" => (d \in registered => d \in registered')
  /\ d \in registered' => d \in registered

\* A call that is left aside keeps its part of the invariant.
LEMMA AsideKeeps ==
  ASSUME GateInv, NEW d \in Call, Aside(d)
  PROVE  CallInv(d)'
<1>1. Asked(d) /\ Kept(d) /\ Decided(d) /\ Watched(d) /\ Stopped(d) /\ Obeyed(d)
  BY DEF GateInv
<1>2. Asked(d)' /\ Kept(d)'
  BY <1>1 DEF Aside, Asked, Kept, Allow
<1>3. Decided(d)' /\ Watched(d)' /\ Obeyed(d)'
  BY <1>1 DEF Aside, Decided, Watched, Obeyed
<1>4. Stopped(d)'
  BY <1>1 DEF Aside, Stopped, Allow
<1> QED BY <1>2, <1>3, <1>4 DEF CallInv

\* The type of what Deny and CancelPending leave, and what they do to a call.
LEMMA Denied ==
  ASSUME GateTypeOK, NEW cs \in SUBSET Call, Deny(cs)
  PROVE  /\ request' \in [Call -> {"none", "open", "stale"}]
         /\ sent' \in [Call -> Decision \cup {"none"}]
         /\ \A d \in Call :
              /\ request'[d] = IF d \in cs THEN "none" ELSE request[d]
              /\ sent'[d] = IF d \in cs /\ request[d] # "none" THEN "deny" ELSE sent[d]
BY DEF GateTypeOK, Deny, Decision

\* The call's own request is gone, or was not in the table.
LEMMA Canceled ==
  ASSUME GateInv, NEW c \in Call, CancelPending(c)
  PROVE  /\ request' \in [Call -> {"none", "open", "stale"}]
         /\ sent' \in [Call -> Decision \cup {"none"}] /\ registered' \subseteq Call
         /\ request'[c] = "none" /\ c \notin registered'
         /\ sent'[c] = IF request[c] # "none" THEN "deny" ELSE sent[c]
         /\ \A d \in Call \ {c} :
              /\ request'[d] = request[d] /\ sent'[d] = sent[d]
              /\ d \in registered' <=> d \in registered
<1>1. GateTypeOK /\ Deny({c} \cap registered) /\ registered' = registered \ {c} /\ Asked(c)
  BY DEF GateInv, CancelPending
<1>2. {c} \cap registered \in SUBSET Call
  OBVIOUS
<1>3. registered' \subseteq Call
  BY <1>1 DEF GateTypeOK
<1> QED BY <1>1, <1>2, <1>3, Denied DEF Asked

\* What the invariant says of one call.
LEMMA Typed ==
  ASSUME GateInv, NEW c \in Call
  PROVE  GateTypeOK /\ CallInv(c) /\ call[c] \in CallRec
BY DEF GateInv, GateTypeOK, CallInv, CallRec

\* The call enters the host, or is refused while it shuts down.
LEMMA RegisterStep ==
  ASSUME GateInv, NEW c \in Call, Register(c)
  PROVE  GateInv'
<1> DEFINE to == [call[c] EXCEPT !.at = IF shutting THEN "done" ELSE "registered",
                                 !.outcome = IF shutting THEN "refused" ELSE @]
<1>0. GateTypeOK /\ CallInv(c) /\ call[c] \in CallRec
  BY Typed
<1>1. GateTypeOK /\ CallInv(c) /\ call[c] \in CallRec /\ to \in CallRec
  BY <1>0 DEF CallRec, At, Outcome
<1>2. /\ call[c].at = "new" /\ call'[c] = to /\ \A d \in Call \ {c} : call'[d] = call[d]
      /\ call' \in [Call -> CallRec]
  BY <1>1, Went DEF Register
<1>3. /\ call'[c].at = IF shutting THEN "done" ELSE "registered"
      /\ call'[c].outcome = IF shutting THEN "refused" ELSE call[c].outcome
      /\ call'[c].decision = call[c].decision
  BY <1>1, <1>2 DEF CallRec
<1>4. UNCHANGED <<request, sent, registered, grants, shutting, accepted, aborted>>
  BY DEF Register, KeepRequests
<1>5. /\ watch' \in [Call -> {"none", "clear", "set"}] /\ tombstones' \subseteq Call
      /\ watch'[c] = IF c \notin Shell \/ shutting THEN watch[c]
                     ELSE IF c \in tombstones THEN "set" ELSE "clear"
      /\ c \in tombstones' => c \in tombstones
      /\ \A d \in Call \ {c} : watch'[d] = watch[d] /\ (d \in tombstones' <=> d \in tombstones)
  BY <1>1 DEF Register, GateTypeOK
<1>6. GateTypeOK'
  BY <1>1, <1>2, <1>4, <1>5 DEF GateTypeOK, CallRec
<1>7. \A d \in Call \ {c} : CallInv(d)'
  BY <1>2, <1>4, <1>5, AsideKeeps DEF Aside
<1>8. CallInv(c)'
  <2>1. Asked(c)' /\ Kept(c)' /\ Decided(c)'
    BY <1>1, <1>2, <1>3, <1>4 DEF CallInv, Asked, Kept, Decided
  <2>2. Watched(c)'
    BY <1>1, <1>2, <1>3, <1>4, <1>5 DEF CallInv, Watched
  <2>3. Stopped(c)'
    BY <1>1, <1>2, <1>3, <1>4, <1>5 DEF CallInv, Stopped
  <2>4. Obeyed(c)'
    BY <1>1, <1>2, <1>3, <1>4 DEF CallInv, Obeyed, Asked, Allow
  <2> QED BY <2>1, <2>2, <2>3, <2>4 DEF CallInv
<1> QED BY <1>6, <1>7, <1>8 DEF GateInv, CallInv

\* A step of a call that leaves the gate's other tables, or cancels its request.
CallOnly(c) ==
  /\ UNCHANGED <<watch, tombstones, shutting, accepted, aborted>>
  /\ grants' \subseteq grants \cup {<<SessionOf[c], ToolOf[c]>>}
  /\ CancelPending(c) \/ UNCHANGED <<request, sent, registered>>

\* Of such a step only the call itself has to be looked at.
LEMMA CallOnlyKeeps ==
  ASSUME GateInv, NEW c \in Call, CallOnly(c), call' \in [Call -> CallRec],
         \A d \in Call \ {c} : call'[d] = call[d], CallInv(c)'
  PROVE  GateInv'
<1>1. GateTypeOK
  BY DEF GateInv
<1>2. /\ request' \in [Call -> {"none", "open", "stale"}]
      /\ sent' \in [Call -> Decision \cup {"none"}] /\ registered' \subseteq Call
      /\ \A d \in Call \ {c} :
           /\ request'[d] = request[d] /\ sent'[d] = sent[d]
           /\ d \in registered' <=> d \in registered
  BY <1>1, Canceled DEF CallOnly, GateTypeOK
<1>3. grants' \subseteq {<<SessionOf[d], ToolOf[d]>> : d \in Call}
  BY <1>1 DEF CallOnly, GateTypeOK
<1>4. GateTypeOK'
  BY <1>1, <1>2, <1>3 DEF CallOnly, GateTypeOK, CallRec
<1>5. \A d \in Call \ {c} : CallInv(d)'
  BY <1>2, AsideKeeps DEF Aside, CallOnly
<1> QED BY <1>4, <1>5 DEF GateInv, CallInv

\* The call looks for an abort before it waits.
LEMMA LookStep ==
  ASSUME GateInv, NEW c \in Call, Look(c)
  PROVE  GateInv'
<1> DEFINE to == [call[c] EXCEPT
                   !.at = IF ~Cancelled(c) /\ call[c].decision = "none" THEN "waiting" ELSE "decided",
                   !.decision = IF Cancelled(c) THEN "deny" ELSE @,
                   !.asked = ~Cancelled(c) /\ call[c].decision = "none"]
<1>0. GateTypeOK /\ CallInv(c) /\ call[c] \in CallRec
  BY Typed
<1>1. to \in CallRec
  BY <1>0 DEF CallRec, At, Decision
<1>2. /\ call[c].at = "look" /\ call'[c] = to /\ \A d \in Call \ {c} : call'[d] = call[d]
      /\ call' \in [Call -> CallRec]
  BY <1>0, <1>1, Went DEF Look
<1>3. /\ call'[c].at = IF ~Cancelled(c) /\ call[c].decision = "none" THEN "waiting" ELSE "decided"
      /\ call'[c].decision = IF Cancelled(c) THEN "deny" ELSE call[c].decision
      /\ call'[c].outcome = call[c].outcome
  BY <1>0, <1>2 DEF CallRec
<1>4. CallOnly(c)
  BY DEF Look, CallOnly, KeepGate, KeepRequests
<1>5. CASE Cancelled(c)
  <2>1. CancelPending(c) /\ watch[c] = "set"
    BY <1>5 DEF Look, Cancelled
  <2>2. /\ request'[c] = "none" /\ sent'[c] = IF request[c] # "none" THEN "deny" ELSE sent[c]
        /\ UNCHANGED <<watch, tombstones, shutting, accepted, aborted>>
        /\ c \notin registered'
    BY <1>4, <2>1, Canceled DEF CallOnly
  <2>3. call'[c].at = "decided" /\ call'[c].decision = "deny"
    BY <1>3, <1>5
  <2>4. Asked(c)' /\ Kept(c)' /\ Decided(c)' /\ Watched(c)' /\ Stopped(c)'
    BY <1>0, <1>2, <1>3, <2>2, <2>3 DEF CallInv, Asked, Kept, Decided, Watched, Stopped
  <2>5. Obeyed(c)'
    BY <1>0, <1>2, <1>3, <2>1, <2>2, <2>3 DEF CallInv, Obeyed, Watched, Decided
  <2> QED BY <1>2, <1>4, <2>4, <2>5, CallOnlyKeeps DEF CallInv
<1>6. CASE ~Cancelled(c)
  <2>1. UNCHANGED <<request, sent, registered, watch, tombstones, shutting, accepted, aborted>>
    BY <1>6 DEF Look, KeepRequests, KeepGate
  <2>2. /\ call'[c].decision = call[c].decision
        /\ call'[c].at = IF call[c].decision = "none" THEN "waiting" ELSE "decided"
        /\ watch[c] # "set"
    BY <1>3, <1>6 DEF Cancelled
  <2>3. Asked(c)' /\ Kept(c)' /\ Decided(c)' /\ Watched(c)'
    BY <1>0, <1>2, <1>3, <2>1, <2>2 DEF CallInv, Asked, Kept, Decided, Watched
  <2>4. Stopped(c)'
    BY <1>0, <1>2, <1>3, <2>1, <2>2 DEF CallInv, Stopped
  <2>5. Obeyed(c)'
    BY <1>0, <1>2, <1>3, <2>1, <2>2 DEF CallInv, Obeyed, Asked, Decided, Allow
  <2> QED BY <1>2, <1>4, <2>3, <2>4, <2>5, CallOnlyKeeps DEF CallInv
<1> QED BY <1>5, <1>6

\* The wait ends: with the answer, or with a denial when there is none.
LEMMA WaitEnds ==
  ASSUME GateInv, NEW c \in Call, Answered(c) \/ TimedOut(c) \/ Interrupted(c)
  PROVE  GateInv'
<1>0. GateTypeOK /\ CallInv(c) /\ call[c] \in CallRec
  BY Typed
<1>1. PICK d \in Decision :
        /\ Go(c, "waiting", [call[c] EXCEPT !.at = "decided", !.decision = d])
        /\ sent[c] = d \/ (d = "deny" /\ (sent[c] = "none" \/ watch[c] = "set"))
  <2>0. "deny" \in Decision /\ \A x \in Decision \cup {"none"} : x # "none" => x \in Decision
    BY DEF Decision
  <2>1. CASE Answered(c)
    <3>1. sent[c] \in Decision
      BY <1>0, <2>0, <2>1 DEF Answered, GateTypeOK
    <3> QED BY <2>1, <3>1 DEF Answered
  <2>2. CASE TimedOut(c)
    BY <2>0, <2>2 DEF TimedOut
  <2>3. CASE Interrupted(c)
    BY <2>0, <2>3 DEF Interrupted, Cancelled
  <2> QED BY <2>1, <2>2, <2>3
<1> DEFINE to == [call[c] EXCEPT !.at = "decided", !.decision = d]
<1>2. to \in CallRec
  BY <1>0 DEF CallRec, At
<1>3. /\ call[c].at = "waiting" /\ call'[c] = to /\ \A e \in Call \ {c} : call'[e] = call[e]
      /\ call' \in [Call -> CallRec]
  BY <1>0, <1>1, <1>2, Went
<1>4. /\ call'[c].at = "decided" /\ call'[c].decision = d /\ call'[c].outcome = call[c].outcome
  BY <1>0, <1>3 DEF CallRec
<1>5. CallOnly(c)
  BY DEF Answered, TimedOut, Interrupted, CallOnly, KeepGate, KeepRequests
<1>6. request'[c] # "open" /\ (request'[c] = request[c] \/ request'[c] = "none")
  <2>1. CASE Answered(c)
    BY <1>0, <2>1 DEF Answered, KeepRequests, CallInv, Asked
  <2>2. CASE TimedOut(c)
    BY <2>2 DEF TimedOut, KeepRequests
  <2>3. CASE Interrupted(c)
    BY <2>3, Canceled DEF Interrupted
  <2> QED BY <2>1, <2>2, <2>3
<1>7. Asked(c)' /\ Kept(c)'
  <2>1. CASE UNCHANGED <<request, sent, registered>>
    <3>1. Asked(c)'
      BY <1>0, <1>4, <1>5, <1>6, <2>1 DEF CallInv, Asked, CallOnly
    <3>2. Kept(c)'
      BY <1>0, <1>1, <1>3, <1>4, <2>1 DEF CallInv, Kept, Decision
    <3> QED BY <3>1, <3>2
  <2>2. CASE CancelPending(c)
    <3>1. c \notin registered' /\ request'[c] = "none" /\ sent'[c] = IF request[c] # "none" THEN "deny" ELSE sent[c]
      BY <2>2, Canceled
    <3> QED BY <1>0, <1>4, <1>5, <3>1 DEF CallInv, Asked, Kept, CallOnly
  <2> QED BY <1>5, <2>1, <2>2 DEF CallOnly
<1>8. Decided(c)' /\ Watched(c)'
  <2>1. d # "none"
    BY DEF Decision, Allow
  <2>2. Decided(c)'
    BY <1>0, <1>3, <1>4, <2>1 DEF CallInv, Decided
  <2>3. Watched(c)'
    BY <1>0, <1>3, <1>4, <1>5 DEF CallInv, Watched, CallOnly
  <2> QED BY <2>2, <2>3
<1>9. Stopped(c)'
  BY <1>0, <1>1, <1>3, <1>4, <1>5 DEF CallInv, Stopped, Decided, CallOnly, Decision, Allow
<1>10. Obeyed(c)'
  BY <1>0, <1>1, <1>3, <1>4, <1>5
     DEF CallInv, Obeyed, Asked, Decided, Watched, CallOnly, Decision, Allow
<1> QED BY <1>3, <1>5, <1>7, <1>8, <1>9, <1>10, CallOnlyKeeps DEF CallInv

\* The decision becomes an end or a permission.
LEMMA SettleStep ==
  ASSUME GateInv, NEW c \in Call, Settle(c)
  PROVE  GateInv'
<1> DEFINE to == IF call[c].decision = "deny"
                 THEN [call[c] EXCEPT !.at = "clearing",
                                      !.outcome = IF Cancelled(c) THEN "aborted" ELSE "denied"]
                 ELSE [call[c] EXCEPT !.at = "allowed"]
<1>0. GateTypeOK /\ CallInv(c) /\ call[c] \in CallRec
  BY Typed
<1>1. to \in CallRec
  BY <1>0 DEF CallRec, At, Outcome
<1>2. Go(c, "decided", to)
  BY DEF Settle
<1>3. /\ call[c].at = "decided" /\ call'[c] = to /\ \A d \in Call \ {c} : call'[d] = call[d]
      /\ call' \in [Call -> CallRec]
  BY <1>0, <1>1, <1>2, Went
<1>4. /\ call'[c].decision = call[c].decision
      /\ IF call[c].decision = "deny"
         THEN call'[c].at = "clearing" /\ call'[c].outcome = IF Cancelled(c) THEN "aborted" ELSE "denied"
         ELSE call'[c].at = "allowed" /\ call'[c].outcome = call[c].outcome
  BY <1>0, <1>3 DEF CallRec
<1> HIDE DEF to
<1>5. CallOnly(c)
  BY DEF Settle, CallOnly, KeepRequests
<1>6. /\ c \notin registered' /\ request'[c] = "none"
      /\ sent'[c] = IF request[c] # "none" THEN "deny" ELSE sent[c]
  <2>1. CASE Cancelled(c) \/ call[c].decision = "deny"
    BY <2>1, Canceled DEF Settle
  <2>2. CASE ~(Cancelled(c) \/ call[c].decision = "deny")
    BY <1>0, <1>3, <2>2 DEF Settle, KeepRequests, CallInv, Kept, Asked
  <2> QED BY <2>1, <2>2
<1>7. Asked(c)' /\ Kept(c)'
  BY <1>0, <1>3, <1>4, <1>5, <1>6 DEF CallInv, Asked, Kept, CallOnly
<1>8. Decided(c)'
  <2>1. call[c].decision # "deny" => call[c].decision \in Allow
    BY <1>0, <1>3 DEF CallInv, Decided, CallRec, Decision
  <2> QED BY <1>0, <1>3, <1>4, <2>1 DEF CallInv, Decided
<1>9. Watched(c)' /\ Stopped(c)'
  BY <1>0, <1>3, <1>4, <1>5 DEF CallInv, Watched, Stopped, Decided, CallOnly
<1>10. Obeyed(c)'
  BY <1>0, <1>3, <1>4, <1>5 DEF CallInv, Obeyed, Decided, Watched, Cancelled, CallOnly, Allow
<1> QED BY <1>3, <1>5, <1>7, <1>8, <1>9, <1>10, CallOnlyKeeps DEF CallInv

\* The call is admitted or refused, and its tool ends.
LEMMA RunForm ==
  ASSUME GateInv, NEW c \in Call, Admit(c) \/ EndTool(c)
  PROVE  \E from \in {"allowed", "running"}, at \in {"running", "clearing"}, outcome \in Outcome :
        /\ Go(c, from, [call[c] EXCEPT !.at = at, !.outcome = outcome])
        /\ IF at = "running" THEN from = "allowed" /\ outcome = call[c].outcome
           ELSE outcome # "denied" /\ (outcome = "ran" => from = "running")
<1>0. call[c].outcome \in Outcome /\ {"overloaded", "aborted", "ran"} \subseteq Outcome
  BY Typed DEF CallRec, Outcome
<1>1. CASE Admit(c)
  <2>1. PICK ok \in BOOLEAN :
          Go(c, "allowed", [call[c] EXCEPT !.at = IF ok THEN "running" ELSE "clearing",
                                           !.outcome = IF ok THEN @ ELSE "overloaded"])
    BY <1>1 DEF Admit
  <2>2. CASE ok
    BY <1>0, <2>1, <2>2
  <2>3. CASE ~ok
    BY <1>0, <2>1, <2>3
  <2> QED BY <2>2, <2>3
<1>2. CASE EndTool(c)
  <2>1. PICK seen \in BOOLEAN :
          Go(c, "running", [call[c] EXCEPT !.at = "clearing",
                                           !.outcome = IF seen THEN "aborted" ELSE "ran"])
    BY <1>2 DEF EndTool
  <2> QED BY <1>0, <2>1
<1> QED BY <1>1, <1>2

\* Either keeps the invariant.
LEMMA RunSteps ==
  ASSUME GateInv, NEW c \in Call, Admit(c) \/ EndTool(c)
  PROVE  GateInv'
<1>0. GateTypeOK /\ CallInv(c) /\ call[c] \in CallRec
  BY Typed
<1>1. PICK from \in {"allowed", "running"}, at \in {"running", "clearing"}, outcome \in Outcome :
        /\ Go(c, from, [call[c] EXCEPT !.at = at, !.outcome = outcome])
        /\ IF at = "running" THEN from = "allowed" /\ outcome = call[c].outcome
           ELSE outcome # "denied" /\ (outcome = "ran" => from = "running")
  BY RunForm
<1> DEFINE to == [call[c] EXCEPT !.at = at, !.outcome = outcome]
<1>2. to \in CallRec
  BY <1>0 DEF CallRec, At
<1>3. /\ call[c].at = from /\ call'[c] = to /\ \A d \in Call \ {c} : call'[d] = call[d]
      /\ call' \in [Call -> CallRec]
  BY <1>0, <1>1, <1>2, Went
<1>4. call'[c].at = at /\ call'[c].decision = call[c].decision /\ call'[c].outcome = outcome
  BY <1>0, <1>3 DEF CallRec
<1> HIDE DEF to
<1>5. CallOnly(c) /\ UNCHANGED <<request, sent, registered>>
  BY DEF Admit, EndTool, CallOnly, KeepRequests, KeepGate
<1>6. Asked(c)' /\ Kept(c)'
  BY <1>0, <1>3, <1>4, <1>5 DEF CallInv, Asked, Kept, CallOnly
<1>7. Decided(c)' /\ Watched(c)'
  BY <1>0, <1>1, <1>3, <1>4, <1>5 DEF CallInv, Decided, Watched, CallOnly
<1>8. Stopped(c)'
  BY <1>0, <1>1, <1>3, <1>4, <1>5 DEF CallInv, Decided, Stopped, CallOnly
<1>9. Obeyed(c)'
  BY <1>0, <1>1, <1>3, <1>4, <1>5 DEF CallInv, Decided, Obeyed, CallOnly
<1> QED BY <1>3, <1>5, <1>6, <1>7, <1>8, <1>9, CallOnlyKeeps DEF CallInv

\* The call leaves the table of the channels.
LEMMA ClearStep ==
  ASSUME GateInv, NEW c \in Call, Clear(c)
  PROVE  GateInv'
<1> DEFINE to == [call[c] EXCEPT !.at = "done"]
<1>0. GateTypeOK /\ CallInv(c) /\ call[c] \in CallRec
  BY Typed
<1>1. to \in CallRec
  BY <1>0 DEF CallRec, At
<1>2. /\ call[c].at = "clearing" /\ call'[c] = to /\ \A d \in Call \ {c} : call'[d] = call[d]
      /\ call' \in [Call -> CallRec]
  BY <1>0, <1>1, Went DEF Clear
<1>3. /\ call'[c].at = "done" /\ call'[c].decision = call[c].decision
      /\ call'[c].outcome = call[c].outcome
  BY <1>0, <1>2 DEF CallRec
<1> HIDE DEF to
<1>4. UNCHANGED <<request, sent, registered, grants, shutting, accepted, aborted>>
  BY DEF Clear, KeepRequests
<1>5. /\ watch' \in [Call -> {"none", "clear", "set"}] /\ tombstones' \subseteq Call
      /\ watch'[c] = IF c \notin Shell THEN watch[c] ELSE "none"
      /\ c \in tombstones' => c \in tombstones
      /\ \A d \in Call \ {c} : watch'[d] = watch[d] /\ (d \in tombstones' <=> d \in tombstones)
  BY <1>0 DEF Clear, GateTypeOK
<1>6. GateTypeOK'
  BY <1>0, <1>2, <1>4, <1>5 DEF GateTypeOK, CallRec
<1>7. \A d \in Call \ {c} : CallInv(d)'
  BY <1>2, <1>4, <1>5, AsideKeeps DEF Aside
<1>8. CallInv(c)'
  <2>1. Asked(c)' /\ Kept(c)' /\ Decided(c)'
    BY <1>0, <1>2, <1>3, <1>4 DEF CallInv, Asked, Kept, Decided
  <2>2. Watched(c)'
    BY <1>0, <1>2, <1>3, <1>4, <1>5 DEF CallInv, Watched
  <2>3. Stopped(c)'
    BY <1>0, <1>2, <1>3, <1>4, <1>5 DEF CallInv, Stopped
  <2>4. Obeyed(c)'
    BY <1>0, <1>2, <1>3, <1>4 DEF CallInv, Obeyed
  <2> QED BY <2>1, <2>2, <2>3, <2>4 DEF CallInv
<1> QED BY <1>6, <1>7, <1>8 DEF GateInv, CallInv

-----------------------------------------------------------------------------
(* Steps of others *)

\* A step that leaves every call aside keeps the invariant.
LEMMA AllAside ==
  ASSUME GateInv, GateTypeOK', \A d \in Call : Aside(d)
  PROVE  GateInv'
<1>1. \A d \in Call : CallInv(d)'
  BY AsideKeeps
<1> QED BY <1>1 DEF GateInv, CallInv

\* The request of a call ages, or what is stale is swept.
LEMMA TimerSteps ==
  ASSUME GateInv, Sweep \/ \E c \in Call : Age(c)
  PROVE  GateInv'
<1>0. GateTypeOK
  BY DEF GateInv
<1>1. UNCHANGED <<call, registered, watch, tombstones, grants, shutting, accepted, aborted>>
  BY DEF Sweep, Age
<1>2. CASE Sweep
  <2>1. /\ request' \in [Call -> {"none", "open", "stale"}]
        /\ sent' \in [Call -> Decision \cup {"none"}]
        /\ \A d \in Call :
             /\ request'[d] = IF d \in Stale THEN "none" ELSE request[d]
             /\ sent'[d] = IF d \in Stale /\ request[d] # "none" THEN "deny" ELSE sent[d]
    <3>1. Stale \in SUBSET Call /\ Deny(Stale)
      BY <1>2 DEF Stale, Sweep
    <3> QED BY <1>0, <3>1, Denied
  <2>2. GateTypeOK'
    BY <1>0, <1>1, <2>1 DEF GateTypeOK
  <2>3. \A d \in Call : Aside(d)
    BY <1>1, <2>1 DEF Aside, Stale
  <2> QED BY <2>2, <2>3, AllAside
<1>3. ASSUME NEW c \in Call, Age(c)
      PROVE  GateInv'
  <2>1. /\ request[c] = "open" /\ request' = [request EXCEPT ![c] = "stale"]
        /\ UNCHANGED <<sent, registered>>
    BY <1>3 DEF Age
  <2>2. GateTypeOK'
    BY <1>0, <1>1, <2>1 DEF GateTypeOK
  <2>3. \A d \in Call : Aside(d)
    BY <1>0, <1>1, <2>1 DEF Aside, GateTypeOK
  <2> QED BY <2>2, <2>3, AllAside
<1> QED BY <1>2, <1>3

\* A call is evaluated: a request of its own is opened, stale ones are denied.
LEMMA EvaluateStep ==
  ASSUME GateInv, NEW c \in Call, Evaluate(c)
  PROVE  GateInv'
<1>0. GateTypeOK /\ CallInv(c) /\ call[c] \in CallRec
  BY Typed
<1>1. PICK asks \in BOOLEAN, decision \in Decision \cup {"none"} :
        /\ Go(c, "registered",
              [call[c] EXCEPT !.at = IF shutting THEN "clearing" ELSE "look",
                              !.outcome = IF shutting THEN "refused" ELSE @,
                              !.decision = decision])
        /\ asks => ~shutting /\ decision = call[c].decision
        /\ ~shutting /\ ~asks => decision # "none"
        /\ shutting => decision = call[c].decision
        /\ IF shutting THEN UNCHANGED <<request, sent>>
           ELSE /\ request' = [d \in Call |-> IF d = c /\ asks THEN "open"
                                              ELSE IF d \in Stale THEN "none" ELSE request[d]]
                /\ sent' = [d \in Call |-> IF d \in Stale THEN "deny" ELSE sent[d]]
        /\ registered' = IF asks THEN registered \cup {c} ELSE registered
  <2>1. PICK verdict \in Verdicts :
          LET granted == <<SessionOf[c], ToolOf[c]>> \in grants
              asks    == ~shutting /\ verdict = "ask" /\ ~granted
          IN /\ Go(c, "registered",
                   [call[c] EXCEPT
                     !.at = IF shutting THEN "clearing" ELSE "look",
                     !.outcome = IF shutting THEN "refused" ELSE @,
                     !.decision = IF shutting \/ asks THEN @
                                  ELSE IF verdict = "ask" THEN "allow-session" ELSE verdict])
             /\ IF shutting THEN UNCHANGED <<request, sent>>
                ELSE /\ request' = [d \in Call |-> IF d = c /\ asks THEN "open"
                                                   ELSE IF d \in Stale THEN "none" ELSE request[d]]
                     /\ sent' = [d \in Call |-> IF d \in Stale THEN "deny" ELSE sent[d]]
             /\ registered' = IF asks THEN registered \cup {c} ELSE registered
    BY DEF Evaluate
  <2> DEFINE granted == <<SessionOf[c], ToolOf[c]>> \in grants
             asks == ~shutting /\ verdict = "ask" /\ ~granted
             decision == IF shutting \/ asks THEN call[c].decision
                         ELSE IF verdict = "ask" THEN "allow-session" ELSE verdict
  <2>2. decision \in Decision \cup {"none"} /\ (~shutting /\ ~asks => decision # "none")
    BY <1>0, GateAssumption DEF CallRec, Decision, Allow
  <2>3. asks \in BOOLEAN
    BY <1>0 DEF GateTypeOK
  <2>4. /\ Go(c, "registered",
              [call[c] EXCEPT !.at = IF shutting THEN "clearing" ELSE "look",
                              !.outcome = IF shutting THEN "refused" ELSE @,
                              !.decision = decision])
        /\ asks => ~shutting /\ decision = call[c].decision
        /\ shutting => decision = call[c].decision
        /\ IF shutting THEN UNCHANGED <<request, sent>>
           ELSE /\ request' = [d \in Call |-> IF d = c /\ asks THEN "open"
                                              ELSE IF d \in Stale THEN "none" ELSE request[d]]
                /\ sent' = [d \in Call |-> IF d \in Stale THEN "deny" ELSE sent[d]]
        /\ registered' = IF asks THEN registered \cup {c} ELSE registered
    BY <2>1
  <2> HIDE DEF asks, decision
  <2> QED BY <2>2, <2>3, <2>4
<1> DEFINE to == [call[c] EXCEPT !.at = IF shutting THEN "clearing" ELSE "look",
                                 !.outcome = IF shutting THEN "refused" ELSE @,
                                 !.decision = decision]
<1>2. to \in CallRec
  BY <1>0 DEF CallRec, At, Outcome
<1>3. /\ call[c].at = "registered" /\ call'[c] = to /\ \A d \in Call \ {c} : call'[d] = call[d]
      /\ call' \in [Call -> CallRec]
  BY <1>0, <1>1, <1>2, Went
<1>4. /\ call'[c].at = IF shutting THEN "clearing" ELSE "look"
      /\ call'[c].outcome = IF shutting THEN "refused" ELSE call[c].outcome
      /\ call'[c].decision = decision
  BY <1>0, <1>3 DEF CallRec
<1> HIDE DEF to
<1>5. UNCHANGED <<watch, tombstones, grants, shutting, accepted, aborted>>
  BY DEF Evaluate, KeepGate
<1>6. /\ call[c].decision = "none" /\ c \notin registered
      /\ request[c] = "none" /\ sent[c] = "none" /\ accepted[c] = "none"
  BY <1>0, <1>3 DEF CallInv, Asked, Kept, Decided
<1>7. /\ request' \in [Call -> {"none", "open", "stale"}]
      /\ sent' \in [Call -> Decision \cup {"none"}] /\ registered' \subseteq Call
  BY <1>0, <1>1 DEF GateTypeOK, Decision
<1>8. GateTypeOK'
  BY <1>0, <1>3, <1>5, <1>7 DEF GateTypeOK, CallRec
<1>9. request'[c] = (IF asks THEN "open" ELSE "none") /\ sent'[c] = "none"
  BY <1>0, <1>1, <1>6 DEF GateTypeOK, Stale
<1>10. \A d \in Call \ {c} : Aside(d)
  BY <1>0, <1>1, <1>3, <1>5 DEF Aside, Stale, GateTypeOK
<1>11. CallInv(c)'
  <2>1. Asked(c)' /\ Kept(c)'
    BY <1>0, <1>1, <1>4, <1>5, <1>6, <1>9 DEF CallInv, Asked, Kept, Allow
  <2>2. Decided(c)' /\ Watched(c)'
    BY <1>0, <1>3, <1>4, <1>5 DEF CallInv, Decided, Watched
  <2>3. Stopped(c)' /\ Obeyed(c)'
    BY <1>0, <1>3, <1>4, <1>5, <1>6 DEF CallInv, Stopped, Obeyed, Decided, Allow
  <2> QED BY <2>1, <2>2, <2>3 DEF CallInv
<1>12. \A d \in Call \ {c} : CallInv(d)'
  BY <1>10, AsideKeeps
<1> QED BY <1>8, <1>11, <1>12 DEF GateInv, CallInv

\* The grants of a session change.
LEMMA GrantSteps ==
  ASSUME GateInv, NEW c \in Call, ClearGrants(SessionOf[c]) \/ Grant(<<SessionOf[c], ToolOf[c]>>)
  PROVE  GateInv'
<1>0. GateTypeOK
  BY DEF GateInv
<1>1. UNCHANGED <<call, request, registered, sent, watch, tombstones, shutting, accepted, aborted>>
  BY DEF ClearGrants, Grant
<1>2. grants' \subseteq grants \cup {<<SessionOf[c], ToolOf[c]>>}
  BY DEF ClearGrants, Grant
<1>3. grants' \subseteq {<<SessionOf[d], ToolOf[d]>> : d \in Call}
  BY <1>0, <1>2 DEF GateTypeOK
<1>4. GateTypeOK'
  BY <1>0, <1>1, <1>3 DEF GateTypeOK
<1>5. \A d \in Call : Aside(d)
  BY <1>1 DEF Aside
<1> QED BY <1>4, <1>5, AllAside

\* An abort sets the call's channel or leaves a tombstone for it.
LEMMA AbortStep ==
  ASSUME GateInv, NEW c \in Call, Abort(c)
  PROVE  GateInv'
<1>0. GateTypeOK /\ CallInv(c) /\ call[c] \in CallRec
  BY Typed
<1>1. /\ aborted[c] = "no" /\ call[c].at # "done"
      /\ aborted' = [aborted EXCEPT ![c] = IF AllowedBefore(c) THEN "late" ELSE "early"]
      /\ CancelPending(c) /\ UNCHANGED <<call, grants, shutting, accepted>>
  BY DEF Abort
<1>2. /\ request' \in [Call -> {"none", "open", "stale"}]
      /\ sent' \in [Call -> Decision \cup {"none"}] /\ registered' \subseteq Call
      /\ request'[c] = "none" /\ c \notin registered'
      /\ sent'[c] = IF request[c] # "none" THEN "deny" ELSE sent[c]
      /\ \A d \in Call \ {c} :
           /\ request'[d] = request[d] /\ sent'[d] = sent[d]
           /\ d \in registered' <=> d \in registered
  BY <1>1, Canceled
<1>3. /\ watch' \in [Call -> {"none", "clear", "set"}] /\ tombstones' \subseteq Call
      /\ IF watch[c] # "none" /\ ~shutting
         THEN watch'[c] = "set" /\ UNCHANGED tombstones
         ELSE watch'[c] = watch[c] /\ c \in tombstones'
      /\ \A d \in Call \ {c} : watch'[d] = watch[d] /\ (d \in tombstones' <=> d \in tombstones)
  BY <1>0 DEF Abort, GateTypeOK
<1>4. /\ aborted' \in [Call -> {"no", "early", "late"}]
      /\ aborted'[c] = IF AllowedBefore(c) THEN "late" ELSE "early"
      /\ \A d \in Call \ {c} : aborted'[d] = aborted[d]
  BY <1>0, <1>1 DEF GateTypeOK
<1>5. GateTypeOK'
  BY <1>0, <1>1, <1>2, <1>3, <1>4 DEF GateTypeOK
<1>6. \A d \in Call \ {c} : CallInv(d)'
  BY <1>1, <1>2, <1>3, <1>4, AsideKeeps DEF Aside
<1>7. CallInv(c)'
  <2>1. Asked(c)' /\ Kept(c)' /\ Decided(c)'
    BY <1>0, <1>1, <1>2 DEF CallInv, Asked, Kept, Decided
  <2>2. Watched(c)'
    <3>1. aborted'[c] # "no"
      BY <1>4
    <3> QED BY <1>0, <1>1, <1>3, <3>1 DEF CallInv, Watched
  <2>3. Obeyed(c)'
    <3>1. aborted'[c] # "no"
      BY <1>4
    <3> QED BY <1>0, <1>1, <3>1 DEF CallInv, Obeyed
  <2>4. Stopped(c)'
    <3> SUFFICES ASSUME c \in Shell, ~AllowedBefore(c)
                 PROVE  Stopped(c)'
      BY <1>4 DEF Stopped
    <3>1. /\ call[c].at \notin {"clearing", "done"} /\ sent[c] \notin Allow
          /\ call[c].at \in {"decided", "allowed", "running"} => call[c].decision \notin Allow
      BY DEF AllowedBefore
    <3>2. /\ call[c].at \notin {"allowed", "running"} /\ call[c].outcome # "ran"
          /\ call[c].at = "decided" => call[c].decision = "deny"
      BY <1>0, <3>1 DEF CallInv, Decided, CallRec, Decision
    <3>3. /\ call[c].at = "new" => c \in tombstones'
          /\ call[c].at \in {"registered", "look", "waiting"} => watch'[c] = "set"
      BY <1>0, <1>3 DEF CallInv, Watched, GateTypeOK
    <3>4. sent'[c] \notin Allow
      BY <1>2, <3>1 DEF Allow
    <3> QED BY <1>1, <1>2, <3>2, <3>3, <3>4 DEF Stopped
  <2> QED BY <2>1, <2>2, <2>3, <2>4 DEF CallInv
<1> QED BY <1>5, <1>6, <1>7 DEF GateInv, CallInv

\* The shutdown denies every request and sets every channel.
LEMMA ShutdownStep ==
  ASSUME GateInv, Shutdown
  PROVE  GateInv'
<1>0. GateTypeOK
  BY DEF GateInv
<1>1. /\ UNCHANGED <<call, grants, accepted, aborted>> /\ shutting' = TRUE
      /\ registered' = {} /\ tombstones' = {}
  BY DEF Shutdown
<1>2. /\ request' \in [Call -> {"none", "open", "stale"}]
      /\ sent' \in [Call -> Decision \cup {"none"}]
      /\ \A d \in Call :
           /\ request'[d] = IF d \in registered THEN "none" ELSE request[d]
           /\ sent'[d] = IF d \in registered /\ request[d] # "none" THEN "deny" ELSE sent[d]
  <2>1. registered \in SUBSET Call /\ Deny(registered)
    BY <1>0 DEF Shutdown, GateTypeOK
  <2> QED BY <1>0, <2>1, Denied
<1>3. /\ watch' \in [Call -> {"none", "clear", "set"}]
      /\ \A d \in Call : watch'[d] = IF watch[d] = "none" THEN "none" ELSE "set"
  BY DEF Shutdown
<1>4. GateTypeOK'
  BY <1>0, <1>1, <1>2, <1>3 DEF GateTypeOK
<1>5. ASSUME NEW c \in Call
      PROVE  CallInv(c)'
  <2>0. CallInv(c)
    BY <1>5 DEF GateInv, CallInv
  <2>1. request'[c] = "none" /\ sent'[c] = IF request[c] # "none" THEN "deny" ELSE sent[c]
    BY <1>2, <2>0 DEF CallInv, Asked
  <2>2. Asked(c)' /\ Kept(c)'
    BY <1>1, <2>0, <2>1 DEF CallInv, Asked, Kept
  <2>3. Decided(c)' /\ Watched(c)' /\ Obeyed(c)'
    BY <1>1, <1>3, <2>0 DEF CallInv, Decided, Watched, Obeyed
  <2>4. Stopped(c)'
    BY <1>1, <1>3, <2>0, <2>1 DEF CallInv, Stopped
  <2> QED BY <2>2, <2>3, <2>4 DEF CallInv
<1> QED BY <1>4, <1>5 DEF GateInv, CallInv

\* A client's decision is accepted for an open request, and no other.
LEMMA ResolveStep ==
  ASSUME GateInv, NEW c \in Call, NEW d \in Decision, Resolve(c, d)
  PROVE  GateInv'
<1>0. GateTypeOK /\ CallInv(c) /\ call[c] \in CallRec
  BY Typed
<1>1. UNCHANGED <<call, watch, tombstones, grants, shutting, aborted>>
  BY DEF Resolve
<1>2. /\ request' \in [Call -> {"none", "open", "stale"}]
      /\ sent' \in [Call -> Decision \cup {"none"}]
      /\ accepted' \in [Call -> Decision \cup {"none"}] /\ registered' \subseteq Call
      /\ request'[c] = "none" /\ c \notin registered'
      /\ sent'[c] = (IF request[c] = "none" THEN sent[c]
                     ELSE IF request[c] = "open" THEN d ELSE "deny")
      /\ accepted'[c] = (IF request[c] = "open" THEN d ELSE accepted[c])
  BY <1>0 DEF Resolve, GateTypeOK, Decision
<1>3. GateTypeOK'
  BY <1>0, <1>1, <1>2 DEF GateTypeOK
<1>4. \A e \in Call \ {c} : Aside(e)
  BY <1>0, <1>1 DEF Resolve, GateTypeOK, Aside
<1>5. \A e \in Call \ {c} : CallInv(e)'
  BY <1>4, AsideKeeps
<1>6. CallInv(c)'
  <2>0. d # "none"
    BY DEF Decision, Allow
  <2>1. Asked(c)' /\ Kept(c)'
    BY <1>0, <1>1, <1>2, <2>0 DEF CallInv, Asked, Kept
  <2>2. Decided(c)' /\ Watched(c)'
    BY <1>0, <1>1 DEF CallInv, Decided, Watched
  <2>3. Stopped(c)'
    BY <1>0, <1>1, <1>2 DEF CallInv, Stopped
  <2>4. Obeyed(c)'
    <3>1. CASE request[c] = "open"
      <4>1. /\ call[c].at \in {"look", "waiting"} /\ call[c].outcome = "none"
        BY <1>0, <3>1 DEF CallInv, Asked, Decided
      <4> QED BY <1>1, <4>1 DEF Obeyed
    <3>2. CASE request[c] # "open"
      BY <1>0, <1>1, <1>2, <3>2 DEF CallInv, Obeyed
    <3> QED BY <3>1, <3>2
  <2> QED BY <2>1, <2>2, <2>3, <2>4 DEF CallInv
<1> QED BY <1>3, <1>5, <1>6 DEF GateInv, CallInv

\* One task of the host.
LEMMA HostStepKeeps ==
  ASSUME GateInv, HostStep
  PROVE  GateInv'
<1>1. ASSUME NEW c \in Call, Register(c) \/ Execute(c) \/ Age(c) \/ Abort(c)
      PROVE  GateInv'
  <2>1. CASE Execute(c)
    BY <2>1, EvaluateStep, LookStep, WaitEnds, SettleStep, RunSteps, ClearStep DEF Execute
  <2> QED BY <1>1, <2>1, RegisterStep, TimerSteps, AbortStep
<1> QED BY <1>1, GrantSteps, TimerSteps, ShutdownStep DEF HostStep

-----------------------------------------------------------------------------
(* The broker and the clients *)

AnswerRec ==
  [at : {"idle", "sent", "back", "over"}, on : Call \cup {"none"},
   decision : Decision \cup {"none"}, reply : Reply]

\* What is on its way to the host is an answer for a call, as long as the
\* channels of the clients hold answers.
BrokerInv ==
  /\ told \subseteq {c \in Call : call[c].asked}
  /\ card \subseteq Call /\ resolving \subseteq Call
  /\ listed \subseteq Call /\ slipped \subseteq Call
  /\ result \in [Call -> Decision \cup {"none", "expired", "canceled"}]
  /\ answer \in [Responder -> AnswerRec]
  /\ \A r \in Responder :
       answer[r].at \in {"sent", "back"} => answer[r].on \in Call /\ answer[r].decision \in Decision

\* A call asks once, after it has looked for an abort, and has asked for good.
Early == {"new", "registered", "look"}

AskedLate == \A c \in Call : call[c].at \in Early => ~call[c].asked

Asking(c) ==
  /\ \A d \in Call \ {c} : call'[d] = call[d]
  /\ \/ call[c].at = "look" /\ call'[c].at \notin Early
     \/ /\ call'[c].asked = call[c].asked /\ call[c].at # "look"
        /\ call'[c].at \in Early => call[c].at \in Early

\* A step of a call leaves what the other calls have asked.
LEMMA AskingStep ==
  ASSUME GateInv, NEW c \in Call, Register(c) \/ Execute(c)
  PROVE  Asking(c)
<1>1. call[c] \in CallRec /\ call \in [Call -> CallRec]
  BY Typed DEF GateTypeOK, CallRec
<1>2. CASE Register(c)
  BY <1>1, <1>2 DEF Register, Go, Asking, Early, CallRec
<1>3. CASE Evaluate(c)
  BY <1>1, <1>3 DEF Evaluate, Go, Asking, Early, CallRec
<1>4. CASE Look(c)
  BY <1>1, <1>4 DEF Look, Go, Asking, Early, CallRec
<1>5. CASE Answered(c) \/ TimedOut(c) \/ Interrupted(c)
  <2>1. \E d : Go(c, "waiting", [call[c] EXCEPT !.at = "decided", !.decision = d])
    BY <1>5 DEF Answered, TimedOut, Interrupted
  <2> QED BY <1>1, <2>1 DEF Go, Asking, Early, CallRec
<1>6. CASE Settle(c)
  <2>1. \/ \E o : Go(c, "decided", [call[c] EXCEPT !.at = "clearing", !.outcome = o])
        \/ Go(c, "decided", [call[c] EXCEPT !.at = "allowed"])
    BY <1>6 DEF Settle
  <2>2. ASSUME NEW o, Go(c, "decided", [call[c] EXCEPT !.at = "clearing", !.outcome = o])
        PROVE  Asking(c)
    BY <1>1, <2>2 DEF Go, Asking, Early, CallRec
  <2>3. CASE Go(c, "decided", [call[c] EXCEPT !.at = "allowed"])
    BY <1>1, <2>3 DEF Go, Asking, Early, CallRec
  <2> QED BY <2>1, <2>2, <2>3
<1>7. CASE Admit(c) \/ EndTool(c)
  <2>1. PICK from \in {"allowed", "running"}, at \in {"running", "clearing"}, outcome \in Outcome :
          Go(c, from, [call[c] EXCEPT !.at = at, !.outcome = outcome])
    BY <1>7, RunForm
  <2> QED BY <1>1, <2>1 DEF Go, Asking, Early, CallRec
<1>8. CASE Clear(c)
  BY <1>1, <1>8 DEF Clear, Go, Asking, Early, CallRec
<1> QED BY <1>2, <1>3, <1>4, <1>5, <1>6, <1>7, <1>8 DEF Execute

\* No step of the host takes back that a call has asked.
LEMMA AskedStays ==
  ASSUME GateInv, AskedLate, HostStep
  PROVE  AskedLate' /\ \A c \in Call : call[c].asked => call'[c].asked
<1>1. CASE \E d \in Call : Register(d) \/ Execute(d)
  <2>1. PICK d \in Call : Asking(d)
    BY <1>1, AskingStep
  <2> QED BY <2>1 DEF Asking, AskedLate, Early
<1>2. CASE UNCHANGED call
  BY <1>2 DEF AskedLate
<1> QED BY <1>1, <1>2 DEF HostStep, Age, Abort, ClearGrants, Grant, Sweep, Shutdown

\* What the host does leaves the broker as it is.
LEMMA HostStepBroker ==
  ASSUME GateInv, AskedLate, BrokerInv, HostStep, UNCHANGED brokerVars
  PROVE  BrokerInv'
BY AskedStays DEF BrokerInv, brokerVars

\* The steps of the broker that do not answer.
LEMMA CardSteps ==
  ASSUME GateTypeOK, BrokerInv, UNCHANGED <<gateVars, answer>>,
         \/ \E c \in Call : Announce(c)
         \/ \E s \in {SessionOf[c] : c \in Call} : TurnEnd(s) \/ SyncAsk(s)
         \/ SyncAdd
  PROVE  BrokerInv'
<1>1. call' = call /\ answer' = answer
  BY DEF gateVars
<1>2. ASSUME NEW c \in Call, Announce(c)
      PROVE  BrokerInv'
  BY <1>1, <1>2 DEF Announce, Reopen, BrokerInv
<1>3. ASSUME NEW s, TurnEnd(s)
      PROVE  BrokerInv'
  BY <1>1, <1>3 DEF TurnEnd, BrokerInv
<1>4. ASSUME NEW s, SyncAsk(s)
      PROVE  BrokerInv'
  BY <1>1, <1>4 DEF SyncAsk, BrokerInv
<1>5. CASE SyncAdd
  BY <1>1, <1>5 DEF SyncAdd, Reopen, BrokerInv
<1> QED BY <1>2, <1>3, <1>4, <1>5

\* A client sends its answer, or is told at once why it is not sent.
LEMMA SendSteps ==
  ASSUME GateTypeOK, BrokerInv, NEW r \in Responder, NEW c \in Call, NEW d \in Answers[r],
         RemoteAnswers(r, c, d) \/ LocalAnswers(r, c, d)
  PROVE  BrokerInv'
<1>0. d \in Decision
  BY ApprovalAssumption
<1>1. PICK there \in {"sent", "over"}, reply \in Reply :
        answer' = [answer EXCEPT ![r] = [at |-> there, on |-> c, decision |-> d, reply |-> reply]]
  <2>1. {"none", "alreadyResolved", "APPROVAL_EXPIRED"} \subseteq Reply
    BY DEF Reply
  <2> QED BY <2>1 DEF RemoteAnswers, LocalAnswers
<1>2. [at |-> there, on |-> c, decision |-> d, reply |-> reply] \in AnswerRec
  BY <1>0, <1>1 DEF AnswerRec
<1>3. /\ answer' \in [Responder -> AnswerRec]
      /\ \A q \in Responder :
           answer'[q].at \in {"sent", "back"} => answer'[q].on \in Call /\ answer'[q].decision \in Decision
  BY <1>0, <1>1, <1>2 DEF BrokerInv
<1>4. /\ UNCHANGED <<call, told, listed, slipped>>
      /\ card' \subseteq Call /\ resolving' \subseteq Call
      /\ result' \in [Call -> Decision \cup {"none", "expired", "canceled"}]
  BY DEF RemoteAnswers, LocalAnswers, BrokerSettle, BrokerInv, gateVars
<1> QED BY <1>3, <1>4 DEF BrokerInv

\* The host takes the answer, or says why it does not.
LEMMA HostAnswersStep ==
  ASSUME GateInv, BrokerInv, NEW r \in Responder, HostAnswers(r)
  PROVE  GateInv' /\ BrokerInv' /\ call' = call
<1> DEFINE c == answer[r].on
<1>1. /\ answer[r].at = "sent" /\ Resolve(c, answer[r].decision)
      /\ answer' = [answer EXCEPT ![r].at = "back", ![r].reply = ResolveReply(c)]
      /\ UNCHANGED <<told, card, result, resolving, listed, slipped>>
  BY DEF HostAnswers
<1>2. c \in Call /\ answer[r].decision \in Decision
  BY <1>1 DEF BrokerInv
<1>3. GateInv' /\ call' = call
  <2>1. GateInv'
    BY <1>1, <1>2, ResolveStep
  <2> QED BY <1>1, <2>1 DEF Resolve
<1>4. ResolveReply(c) \in Reply
  BY DEF ResolveReply, Reply
<1> HIDE DEF c
<1>5. answer[r] \in AnswerRec /\ answer \in [Responder -> AnswerRec]
  BY DEF BrokerInv
<1>6. [answer[r] EXCEPT !.at = "back", !.reply = ResolveReply(c)] \in AnswerRec
  BY <1>4, <1>5 DEF AnswerRec
<1>7. /\ answer' \in [Responder -> AnswerRec]
      /\ answer'[r].on = answer[r].on /\ answer'[r].decision = answer[r].decision
      /\ \A q \in Responder \ {r} : answer'[q] = answer[q]
  BY <1>1, <1>5, <1>6 DEF AnswerRec
<1>8. \A q \in Responder :
        answer'[q].at \in {"sent", "back"} => answer'[q].on \in Call /\ answer'[q].decision \in Decision
  BY <1>2, <1>7 DEF BrokerInv, c
<1> QED BY <1>1, <1>3, <1>7, <1>8 DEF BrokerInv

\* The reply comes back.
LEMMA AnswerBackStep ==
  ASSUME GateTypeOK, BrokerInv, NEW r \in Responder, AnswerBack(r)
  PROVE  BrokerInv'
<1>1. /\ answer[r].at = "back"
      /\ answer' = [answer EXCEPT ![r].at = "over", ![r].reply = answer[r].reply]
      /\ UNCHANGED <<told, listed>> /\ call' = call
  BY DEF AnswerBack, Close, gateVars
<1>2. answer[r].on \in Call /\ answer[r].decision \in Decision
  BY <1>1 DEF BrokerInv
<1>3. answer[r] \in AnswerRec /\ answer \in [Responder -> AnswerRec]
  BY DEF BrokerInv
<1>4. [answer[r] EXCEPT !.at = "over", !.reply = answer[r].reply] \in AnswerRec
  BY <1>3 DEF AnswerRec
<1>5. /\ answer' \in [Responder -> AnswerRec] /\ answer'[r].at = "over"
      /\ \A q \in Responder \ {r} : answer'[q] = answer[q]
  BY <1>1, <1>3, <1>4 DEF AnswerRec
<1>6. /\ card' \subseteq Call /\ resolving' \subseteq Call /\ slipped' \subseteq Call
      /\ result' \in [Call -> Decision \cup {"none", "expired", "canceled"}]
  BY <1>2 DEF AnswerBack, BrokerSettle, BrokerInv
<1> QED BY <1>1, <1>5, <1>6 DEF BrokerInv

-----------------------------------------------------------------------------
(* Theorems *)

Inv == GateInv /\ AskedLate /\ BrokerInv

\* The invariant holds at the start, at every step, and so always.
LEMMA InvInit == ApprovalInit => Inv
<1> SUFFICES ASSUME ApprovalInit
             PROVE  Inv
  OBVIOUS
<1> USE DEF ApprovalInit, GateInit
<1>1. GateTypeOK
  BY DEF GateTypeOK, At, Outcome
<1>2. \A c \in Call : Asked(c) /\ Kept(c) /\ Decided(c)
  BY DEF Asked, Kept, Decided
<1>3. \A c \in Call : Watched(c) /\ Stopped(c) /\ Obeyed(c)
  BY DEF Watched, Stopped, Obeyed, Allow
<1>4. AskedLate
  BY DEF AskedLate
<1>5. BrokerInv
  BY DEF BrokerInv, AnswerRec, Idle, Reply
<1> QED BY <1>1, <1>2, <1>3, <1>4, <1>5 DEF Inv, GateInv

LEMMA InvNext == Inv /\ [ApprovalNext]_approvalVars => Inv'
<1> SUFFICES ASSUME Inv, [ApprovalNext]_approvalVars
             PROVE  Inv'
  OBVIOUS
<1>0. GateInv /\ AskedLate /\ BrokerInv /\ GateTypeOK
  BY DEF Inv, GateInv
<1>1. CASE HostStep /\ UNCHANGED brokerVars
  BY <1>0, <1>1, HostStepKeeps, AskedStays, HostStepBroker DEF Inv
<1>2. ASSUME UNCHANGED gateVars
      PROVE  GateInv' /\ AskedLate'
  BY <1>0, <1>2 DEF gateVars, GateInv, AskedLate, GateTypeOK, Asked, Kept, Decided, Watched, Stopped, Obeyed
<1>3. CASE \/ \E c \in Call : Announce(c)
           \/ \E s \in {SessionOf[c] : c \in Call} : TurnEnd(s) \/ SyncAsk(s)
           \/ SyncAdd
  <2>1. UNCHANGED <<gateVars, answer>>
    BY <1>3 DEF Announce, TurnEnd, SyncAsk, SyncAdd
  <2> QED BY <1>0, <1>2, <1>3, <2>1, CardSteps DEF Inv
<1>4. ASSUME NEW r \in Responder, HostAnswers(r)
      PROVE  Inv'
  BY <1>0, <1>4, HostAnswersStep DEF Inv, AskedLate
<1>5. ASSUME NEW r \in Responder, AnswerBack(r)
      PROVE  Inv'
  <2>1. UNCHANGED gateVars
    BY <1>5 DEF AnswerBack
  <2> QED BY <1>0, <1>2, <1>5, <2>1, AnswerBackStep DEF Inv
<1>6. ASSUME NEW r \in Responder, NEW c \in Call, NEW d \in Answers[r],
             RemoteAnswers(r, c, d) \/ LocalAnswers(r, c, d)
      PROVE  Inv'
  <2>1. UNCHANGED gateVars
    BY <1>6 DEF RemoteAnswers, LocalAnswers
  <2> QED BY <1>0, <1>2, <1>6, <2>1, SendSteps DEF Inv
<1>7. CASE UNCHANGED approvalVars
  <2>1. UNCHANGED gateVars /\ UNCHANGED brokerVars
    BY <1>7 DEF approvalVars
  <2>2. BrokerInv'
    BY <1>0, <2>1 DEF gateVars, brokerVars, BrokerInv
  <2> QED BY <1>2, <2>1, <2>2 DEF Inv
<1> QED BY <1>1, <1>3, <1>4, <1>5, <1>6, <1>7 DEF ApprovalNext, BrokerStep

LEMMA AlwaysInv == ApprovalSpec => []Inv
BY InvInit, InvNext, PTL DEF ApprovalSpec

\* A shell call that was aborted before it was allowed never starts, wherever
\* the abort met it: before the call was registered, while it waited for a
\* client, or between the answer and the moment the call saw it.
THEOREM AbortIsFinal == ApprovalSpec => []AbortedNeverRuns
<1>1. Inv => AbortedNeverRuns
  BY GateAssumption DEF Inv, GateInv, Stopped, AbortedNeverRuns
<1> QED BY <1>1, AlwaysInv, PTL

\* What the host told a client it accepted is what the call does, whatever the
\* timers, the other clients and the other calls do.
THEOREM AnswersAreObeyed == ApprovalSpec => []AcceptedIsObeyed
<1>1. Inv => AcceptedIsObeyed
  BY DEF Inv, GateInv, Obeyed, AcceptedIsObeyed
<1> QED BY <1>1, AlwaysInv, PTL

\* The tables of the host and of the broker are well formed, and a call that has
\* ended has left neither request nor channel behind.
THEOREM EndedCallsLeaveNothing == ApprovalSpec => []ApprovalInv
<1>1. Inv => NothingLeft
  BY DEF Inv, GateInv, GateTypeOK, Asked, Kept, Watched, NothingLeft, Over
<1>2. Inv => ApprovalTypeOK
  BY DEF Inv, GateInv, BrokerInv, AnswerRec, ApprovalTypeOK
<1> QED BY <1>1, <1>2, AlwaysInv, PTL DEF ApprovalInv

-----------------------------------------------------------------------------
(* One decision for a request *)

\* A client that was told "ok" decided what the host accepted, and no other
\* client was told so; the broker stores nothing else.
Won(r) == answer[r].reply = "ok"

WonInv ==
  /\ \A r \in Responder : Won(r) =>
       /\ answer[r].at \in {"back", "over"} /\ answer[r].on \in Call
       /\ answer[r].decision \in Decision /\ accepted[answer[r].on] = answer[r].decision
  /\ FirstDecisionWins

\* What the host has accepted it does not accept again.
LEMMA AcceptedStays ==
  ASSUME Inv, [ApprovalNext]_approvalVars, NEW c \in Call, accepted[c] # "none"
  PROVE  accepted'[c] = accepted[c]
<1>1. GateTypeOK /\ request[c] = "none"
  BY DEF Inv, GateInv, Asked
<1>2. CASE HostStep
  BY <1>2 DEF HostStep, Execute, Register, Evaluate, Look, Answered, TimedOut, Interrupted, Settle,
              Admit, EndTool, Clear, Age, Abort, ClearGrants, Grant, Sweep, Shutdown, KeepGate
<1>3. ASSUME NEW r \in Responder, HostAnswers(r)
      PROVE  accepted'[c] = accepted[c]
  BY <1>1, <1>3 DEF HostAnswers, Resolve, GateTypeOK
<1>4. CASE UNCHANGED gateVars
  BY <1>4 DEF gateVars
<1>5. \/ HostStep \/ UNCHANGED gateVars \/ \E r \in Responder : HostAnswers(r)
  BY DEF ApprovalNext, BrokerStep, Announce, TurnEnd, SyncAsk, SyncAdd, AnswerBack,
         RemoteAnswers, LocalAnswers, approvalVars
<1> QED BY <1>2, <1>3, <1>4, <1>5

\* No client is told, and nothing is stored.
LEMMA WonKeeps ==
  ASSUME Inv, [ApprovalNext]_approvalVars, WonInv,
         \A r \in Responder : answer'[r] = answer[r] \/ answer'[r].reply # "ok",
         \A c \in Call : result'[c] = result[c] \/ result'[c] \notin Decision
  PROVE  WonInv'
<1>1. \A r \in Responder : Won(r)' => Won(r) /\ answer'[r] = answer[r]
  BY DEF Won
<1>2. \A c \in Call : accepted[c] \in Decision => accepted'[c] = accepted[c]
  BY AcceptedStays DEF Decision, Allow
<1>3. \A r \in Responder : Won(r)' =>
        /\ answer'[r].at \in {"back", "over"} /\ answer'[r].on \in Call
        /\ answer'[r].decision \in Decision /\ accepted'[answer'[r].on] = answer'[r].decision
  BY <1>1, <1>2 DEF WonInv
<1>4. FirstDecisionWins'
  BY <1>1, <1>2 DEF WonInv, FirstDecisionWins, Won
<1> QED BY <1>3, <1>4 DEF WonInv

\* It is kept when one is.
LEMMA WonNext == Inv /\ WonInv /\ [ApprovalNext]_approvalVars => WonInv'
<1> SUFFICES ASSUME Inv, WonInv, [ApprovalNext]_approvalVars
             PROVE  WonInv'
  OBVIOUS
<1>0. GateTypeOK /\ BrokerInv /\ GateInv
  BY DEF Inv, GateInv
<1>1. CASE UNCHANGED brokerVars
  BY <1>1, WonKeeps DEF brokerVars
<1>2. ASSUME NEW c \in Call, Announce(c)
      PROVE  WonInv'
  BY <1>2, WonKeeps DEF Announce
<1>3. ASSUME NEW s, TurnEnd(s) \/ SyncAsk(s)
      PROVE  WonInv'
  <2>1. "canceled" \notin Decision
    BY DEF Decision, Allow
  <2>2. answer' = answer /\ \A c \in Call : result'[c] = result[c] \/ result'[c] \notin Decision
    BY <1>3, <2>1 DEF TurnEnd, SyncAsk
  <2> QED BY <2>2, WonKeeps
<1>4. CASE SyncAdd
  BY <1>4, WonKeeps DEF SyncAdd
<1>5. ASSUME NEW r \in Responder, NEW c \in Call, NEW d \in Answers[r],
             RemoteAnswers(r, c, d) \/ LocalAnswers(r, c, d)
      PROVE  WonInv'
  <2>1. "expired" \notin Decision
    BY DEF Decision, Allow
  <2>2. \A q \in Responder : answer'[q] = answer[q] \/ answer'[q].reply # "ok"
    BY <1>0, <1>5 DEF RemoteAnswers, LocalAnswers, BrokerInv
  <2>3. \A e \in Call : result'[e] = result[e] \/ result'[e] \notin Decision
    BY <1>0, <1>5, <2>1 DEF RemoteAnswers, LocalAnswers, BrokerSettle, BrokerInv
  <2> QED BY <2>2, <2>3, WonKeeps
<1>6. ASSUME NEW r \in Responder, HostAnswers(r)
      PROVE  WonInv'
  <2> DEFINE c == answer[r].on
  <2>1. /\ answer[r].at = "sent" /\ result' = result /\ Resolve(c, answer[r].decision)
        /\ answer' = [answer EXCEPT ![r].at = "back", ![r].reply = ResolveReply(c)]
    BY <1>6 DEF HostAnswers
  <2>2. c \in Call /\ answer[r].decision \in Decision
    BY <1>0, <2>1 DEF BrokerInv
  <2> HIDE DEF c
  <2>3. /\ answer'[r].at = "back" /\ answer'[r].on = c /\ answer'[r].reply = ResolveReply(c)
        /\ answer'[r].decision = answer[r].decision
        /\ \A q \in Responder \ {r} : answer'[q] = answer[q]
    BY <1>0, <2>1 DEF BrokerInv, AnswerRec, c
  <2>4. CASE ResolveReply(c) # "ok"
    BY <2>1, <2>3, <2>4, WonKeeps
  <2>5. CASE ResolveReply(c) = "ok"
    <3>1. request[c] = "open"
      BY <1>0, <2>2, <2>5 DEF ResolveReply, GateTypeOK
    <3>2. accepted[c] = "none" /\ accepted'[c] = answer[r].decision
      BY <1>0, <2>1, <2>2, <3>1 DEF Resolve, GateInv, GateTypeOK, Asked
    <3>3. \A e \in Call : accepted[e] \in Decision => accepted'[e] = accepted[e]
      BY AcceptedStays DEF Decision, Allow
    <3>4. "none" \notin Decision
      BY DEF Decision, Allow
    <3>5. \A q \in Responder \ {r} : Won(q)' => Won(q) /\ answer[q].on # c
      BY <2>3, <3>2, <3>4 DEF Won, WonInv
    <3>6. \A q \in Responder : Won(q)' =>
            /\ answer'[q].at \in {"back", "over"} /\ answer'[q].on \in Call
            /\ answer'[q].decision \in Decision /\ accepted'[answer'[q].on] = answer'[q].decision
      BY <2>2, <2>3, <3>2, <3>3, <3>5 DEF WonInv
    <3>7. FirstDecisionWins'
      <4>1. \A q \in Responder \ {r} : Won(q)' => answer'[q].on # answer'[r].on
        BY <2>3, <3>5
      <4>2. \A p, q \in Responder :
              p # q /\ answer'[p].reply = "ok" /\ answer'[q].reply = "ok"
                => answer'[p].on # answer'[q].on
        BY <2>3, <4>1 DEF WonInv, FirstDecisionWins, Won
      <4>3. \A e \in Call : result'[e] \in Decision => accepted'[e] = result'[e]
        BY <2>1, <3>3 DEF WonInv, FirstDecisionWins
      <4> QED BY <4>2, <4>3 DEF FirstDecisionWins
    <3> QED BY <3>6, <3>7 DEF WonInv
  <2> QED BY <2>4, <2>5
<1>7. ASSUME NEW r \in Responder, AnswerBack(r)
      PROVE  WonInv'
  <2> DEFINE c == answer[r].on
  <2>1. /\ answer[r].at = "back" /\ accepted' = accepted
        /\ answer' = [answer EXCEPT ![r].at = "over", ![r].reply = answer[r].reply]
        /\ \A e \in Call : result'[e] = result[e]
                           \/ (e = c /\ Won(r) /\ result'[e] = answer[r].decision)
    BY <1>0, <1>7 DEF AnswerBack, Close, BrokerSettle, gateVars, BrokerInv, Won
  <2>2. /\ answer'[r].at = "over" /\ answer'[r].on = answer[r].on
        /\ answer'[r].reply = answer[r].reply /\ answer'[r].decision = answer[r].decision
        /\ \A q \in Responder \ {r} : answer'[q] = answer[q]
    BY <1>0, <2>1 DEF BrokerInv, AnswerRec
  <2>3. \A q \in Responder :
          /\ Won(q)' <=> Won(q)
          /\ answer'[q].on = answer[q].on /\ answer'[q].decision = answer[q].decision
          /\ answer'[q].at \in {"back", "over"} \/ answer'[q].at = answer[q].at
    BY <2>2 DEF Won
  <2>4. \A q \in Responder : Won(q)' =>
          /\ answer'[q].at \in {"back", "over"} /\ answer'[q].on \in Call
          /\ answer'[q].decision \in Decision /\ accepted'[answer'[q].on] = answer'[q].decision
    BY <2>1, <2>3 DEF WonInv
  <2>5. \A e \in Call : result'[e] \in Decision => accepted'[e] = result'[e]
    BY <2>1 DEF WonInv, FirstDecisionWins
  <2>6. FirstDecisionWins'
    BY <2>3, <2>5 DEF WonInv, FirstDecisionWins, Won
  <2> QED BY <2>4, <2>6 DEF WonInv
<1> QED BY <1>1, <1>2, <1>3, <1>4, <1>5, <1>6, <1>7 DEF ApprovalNext, BrokerStep, approvalVars

\* "The first valid decision wins across local and remote clients": two clients
\* are never both told that their answer was taken, and what the broker tells
\* later ones is the decision the host took.
THEOREM OneDecisionWins == ApprovalSpec => []FirstDecisionWins
<1>1. ApprovalInit => WonInv
  BY DEF ApprovalInit, WonInv, Won, FirstDecisionWins, Idle, Decision, Allow
<1>2. WonInv => FirstDecisionWins
  BY DEF WonInv
<1> QED BY <1>1, <1>2, AlwaysInv, WonNext, PTL DEF ApprovalSpec

-----------------------------------------------------------------------------
(* A request that is won is closed *)

\* What a client of the desktop answers has been announced, and what has been
\* announced and is not on a card any more has its result.
ClosedInv ==
  /\ \A c \in told : c \in card \/ result[c] # "none"
  /\ \A r \in Responder \ Remote : answer[r].at \in {"sent", "back"} => answer[r].on \in told
  /\ ClosedUnlessSlipped

\* Nothing but an announcement and a list opens a request, and no result is forgotten.
Closing ==
  /\ told' = told /\ card' \subseteq card /\ slipped \subseteq slipped'
  /\ \A c \in Call : result[c] # "none" \/ (c \in card /\ c \notin card') => result'[c] # "none"

\* No client is told the end of its answer.
LEMMA ClosedKeeps ==
  ASSUME BrokerInv, ClosedInv, Closing,
         \A r \in Responder : \/ answer'[r] = answer[r]
                              \/ answer'[r].reply # "ok" /\ (r \in Remote \/ answer'[r].on \in told)
                              \/ answer'[r].at = "back" /\ (r \in Remote \/ answer'[r].on \in told)
  PROVE  ClosedInv'
<1>1. \A c \in told' : c \in card' \/ result'[c] # "none"
  BY DEF ClosedInv, Closing, BrokerInv
<1>2. \A r \in Responder \ Remote : answer'[r].at \in {"sent", "back"} => answer'[r].on \in told'
  BY DEF ClosedInv, Closing
<1>3. ClosedUnlessSlipped'
  BY DEF ClosedInv, Closing, ClosedUnlessSlipped
<1> QED BY <1>1, <1>2, <1>3 DEF ClosedInv

\* What is opened again after a client won it has slipped.
LEMMA ReopenKeeps ==
  ASSUME Inv, WonInv, ClosedInv, NEW cs \in SUBSET Call, Reopen(cs), UNCHANGED <<answer, result>>,
         told' \in {told, told \cup cs}
  PROVE  ClosedInv'
<1>1. card' = card \cup cs /\ \A c \in cs : accepted[c] # "none" => c \in slipped'
  BY DEF Reopen
<1>2. slipped \subseteq slipped'
  BY DEF Reopen
<1>3. \A c \in told' : c \in card' \/ result'[c] # "none"
  BY <1>1 DEF ClosedInv
<1>4. \A r \in Responder \ Remote : answer'[r].at \in {"sent", "back"} => answer'[r].on \in told'
  BY DEF ClosedInv
<1>5. ClosedUnlessSlipped'
  <2> SUFFICES ASSUME NEW r \in Responder, NEW c \in Call, answer[r].on = c, answer[r].at = "over",
                      answer[r].reply = "ok", c \notin slipped'
               PROVE  c \notin card' /\ result[c] # "none"
    BY DEF ClosedUnlessSlipped
  <2>1. c \notin card /\ result[c] # "none"
    BY <1>2 DEF ClosedInv, ClosedUnlessSlipped
  <2>2. accepted[c] # "none"
    BY DEF WonInv, Won, Decision, Allow
  <2> QED BY <1>1, <2>1, <2>2
<1> QED BY <1>3, <1>4, <1>5 DEF ClosedInv

\* Every step keeps it.
LEMMA ClosedNext == Inv /\ WonInv /\ ClosedInv /\ [ApprovalNext]_approvalVars => ClosedInv'
<1> SUFFICES ASSUME Inv, WonInv, ClosedInv, [ApprovalNext]_approvalVars
             PROVE  ClosedInv'
  OBVIOUS
<1>0. BrokerInv /\ answer \in [Responder -> AnswerRec]
  BY DEF Inv, BrokerInv
<1>1. CASE UNCHANGED brokerVars
  <2>1. UNCHANGED <<told, card, result, answer, slipped>>
    BY <1>1 DEF brokerVars
  <2> QED BY <1>0, <2>1, ClosedKeeps DEF Closing
<1>2. ASSUME NEW c \in Call, Announce(c)
      PROVE  ClosedInv'
  BY <1>2, ReopenKeeps DEF Announce
<1>3. ASSUME NEW s, TurnEnd(s) \/ SyncAsk(s)
      PROVE  ClosedInv'
  <2>1. Closing /\ answer' = answer
    BY <1>3 DEF TurnEnd, SyncAsk, Closing
  <2> QED BY <1>0, <2>1, ClosedKeeps
<1>4. CASE SyncAdd
  <2>1. listed \in SUBSET Call
    BY <1>0 DEF BrokerInv
  <2> QED BY <1>4, <2>1, ReopenKeeps DEF SyncAdd
<1>5. ASSUME NEW r \in Responder, NEW c \in Call, NEW d \in Answers[r],
             RemoteAnswers(r, c, d) \/ LocalAnswers(r, c, d)
      PROVE  ClosedInv'
  <2>1. Closing
    BY <1>0, <1>5 DEF RemoteAnswers, LocalAnswers, BrokerSettle, BrokerInv, Closing
  <2>2. \A q \in Responder \ {r} : answer'[q] = answer[q]
    BY <1>0, <1>5 DEF RemoteAnswers, LocalAnswers
  <2>3. answer'[r].reply # "ok" /\ (r \in Remote \/ answer'[r].on \in told)
    BY <1>0, <1>5 DEF RemoteAnswers, LocalAnswers
  <2> QED BY <1>0, <2>1, <2>2, <2>3, ClosedKeeps
<1>6. ASSUME NEW r \in Responder, HostAnswers(r)
      PROVE  ClosedInv'
  <2>1. answer[r].at = "sent" /\ UNCHANGED <<told, card, result, slipped>>
    BY <1>6 DEF HostAnswers
  <2>2. answer'[r].at = "back" /\ answer'[r].on = answer[r].on /\ \A q \in Responder \ {r} : answer'[q] = answer[q]
    BY <1>0, <1>6 DEF HostAnswers, AnswerRec
  <2>3. r \in Remote \/ answer'[r].on \in told
    BY <2>1, <2>2 DEF ClosedInv
  <2> QED BY <1>0, <2>1, <2>2, <2>3, ClosedKeeps DEF Closing
<1>7. ASSUME NEW r \in Responder, AnswerBack(r)
      PROVE  ClosedInv'
  <2> DEFINE c == answer[r].on
  <2>1. /\ answer[r].at = "back" /\ told' = told
        /\ answer' = [answer EXCEPT ![r].at = "over", ![r].reply = answer[r].reply]
    BY <1>7 DEF AnswerBack, Close
  <2>2. /\ answer'[r].at = "over" /\ answer'[r].on = c /\ answer'[r].reply = answer[r].reply
        /\ \A q \in Responder \ {r} : answer'[q] = answer[q]
    BY <1>0, <2>1 DEF AnswerRec
  <2>3. c \in Call /\ answer[r].decision # "none"
    BY <1>0, <2>1 DEF BrokerInv, Decision, Allow
  <2>4. Closing
    <3>1. CASE BrokerSettle(c, answer[r].decision)
      BY <1>0, <1>7, <2>3, <3>1 DEF AnswerBack, BrokerSettle, BrokerInv, Closing
    <3>2. CASE UNCHANGED <<card, result>>
      BY <1>7, <3>2 DEF AnswerBack, Closing
    <3> QED BY <1>7, <3>1, <3>2 DEF AnswerBack
  <2>5. answer[r].reply = "ok" /\ c \notin slipped' => c \notin card' /\ result'[c] # "none"
    <3> SUFFICES ASSUME answer[r].reply = "ok", c \notin slipped'
                 PROVE  c \notin card' /\ result'[c] # "none"
      OBVIOUS
    <3>1. CASE r \in Remote \/ c \in card \ resolving
      BY <1>0, <1>7, <2>3, <3>1 DEF AnswerBack, BrokerSettle, BrokerInv
    <3>2. CASE r \notin Remote /\ c \notin card \ resolving
      <4>1. c \notin resolving /\ UNCHANGED <<card, result>>
        BY <1>7, <3>2 DEF AnswerBack
      <4>2. c \in told
        BY <2>1, <3>2 DEF ClosedInv
      <4> QED BY <3>2, <4>1, <4>2 DEF ClosedInv
    <3> QED BY <3>1, <3>2
  <2> HIDE DEF c
  <2>6. \A e \in told' : e \in card' \/ result'[e] # "none"
    BY <1>0, <2>4 DEF ClosedInv, Closing, BrokerInv
  <2>7. \A q \in Responder \ Remote : answer'[q].at \in {"sent", "back"} => answer'[q].on \in told'
    <3> SUFFICES ASSUME NEW q \in Responder \ Remote, answer'[q].at \in {"sent", "back"}
                 PROVE  answer'[q].on \in told'
      OBVIOUS
    <3>1. answer'[q] = answer[q]
      BY <2>2
    <3>2. told' = told
      BY <2>1
    <3> QED BY <3>1, <3>2 DEF ClosedInv
  <2>8. ClosedUnlessSlipped'
    BY <2>2, <2>4, <2>5 DEF ClosedInv, Closing, ClosedUnlessSlipped
  <2> QED BY <2>6, <2>7, <2>8 DEF ClosedInv
<1> QED BY <1>1, <1>2, <1>3, <1>4, <1>5, <1>6, <1>7 DEF ApprovalNext, BrokerStep, approvalVars

\* "Records the outcome so a later remote response gets `alreadyResolved'": once
\* the client that won has its reply, the request is closed in the broker and its
\* result is remembered, for as long as nothing slips.
THEOREM WonIsClosed == ApprovalSpec => []ClosedUnlessSlipped
<1>1. ApprovalInit => WonInv
  BY DEF ApprovalInit, WonInv, Won, FirstDecisionWins, Idle, Decision, Allow
<1>2. ApprovalInit => ClosedInv
  BY DEF ApprovalInit, ClosedInv, ClosedUnlessSlipped, Idle
<1>3. ClosedInv => ClosedUnlessSlipped
  BY DEF ClosedInv
<1> QED BY <1>1, <1>2, <1>3, AlwaysInv, WonNext, ClosedNext, PTL DEF ApprovalSpec

=============================================================================
