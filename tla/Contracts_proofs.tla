-------------------------- MODULE Contracts_proofs --------------------------
(***************************************************************************)
(* Proofs about the plan and goal contracts of Contracts, for any finite   *)
(* set of contracts and every value of the bounds: an approved plan runs   *)
(* at most once, what is settled stays settled, and a session carries out  *)
(* one contract at a time.                                                 *)
(***************************************************************************)
EXTENDS Contracts, FiniteSetTheorems, SequenceTheorems, TLAPS

-----------------------------------------------------------------------------
(* The inductive invariant *)

Open == {c \in Contract : exec[c] \in {"queued", "running"}}
Proposed == {c \in Contract : status[c] = "pending"}

\* A dispatch that is past its claim.
Late(c) == disp[c] \in {"launch", "begin", "execute"}

\* Main has not read yet that its run completed.
Said(c) == \E i \in DOMAIN wire : wire[i] = <<c, "completed">>

\* An execution runs after it has been claimed, from the dispatch that claimed it,
\* and what is to be recorded as completed has run.
RunOf(c) ==
  /\ ran[c] <= 1
  /\ exec[c] \in {"none", "queued"} => ran[c] = 0
  /\ Late(c) => /\ ran[c] = 0 /\ exec[c] \notin {"none", "queued"}
                /\ exec[c] = "running" \/ c \in overtaken
  /\ rt = c \/ exec[c] = "completed" \/ pend[c] = "completed" \/ <<c, "completed">> \in after \/ Said(c) =>
       ran[c] = 1

\* What is being recorded has an outcome.
Recorded == \A c \in recording : pend[c] # "none"

\* One contract is carried out, in agent mode, and one is proposed, at a time.
OneAtATime ==
  /\ \A c, d \in Open : c = d
  /\ \A c, d \in Proposed : c = d
  /\ Open # {} => mode = "agent"

PlanInv ==
  /\ ContractTypeOK /\ Recorded
  /\ (\A c \in Contract : RunOf(c))
  /\ OneAtATime

-----------------------------------------------------------------------------
(* Steps *)

\* What a step does to one execution, when it does not run it.
Forward(c) ==
  /\ ran'[c] = ran[c] /\ rt' \in {rt, None, "user"}
  /\ status'[c] # status[c] => status[c] \in {"none", "pending"}
  /\ \/ exec'[c] = exec[c]
     \/ exec[c] = "none" /\ exec'[c] = "queued"
     \/ exec[c] = "queued" /\ exec'[c] = "running"
     \/ /\ exec[c] \in {"queued", "running"} /\ exec'[c] \in Ended
        /\ exec'[c] = "completed" => pend[c] = "completed"
        /\ exec[c] = "running" /\ Late(c) => c \in overtaken'
  /\ Late(c)' => Late(c) \/ (exec[c] = "queued" /\ exec'[c] = "running")
  /\ overtaken \subseteq overtaken'
  /\ pend'[c] = "completed" => pend[c] = "completed" \/ <<c, "completed">> \in after
  /\ <<c, "completed">> \in after' => <<c, "completed">> \in after \/ Said(c)
  /\ Said(c)' => Said(c) \/ rt = c

\* What a step does to the contract of the session.
Turns ==
  /\ \/ Open' \subseteq Open /\ (mode' = mode \/ Open = {})
     \/ Open = {} /\ mode' = "agent" /\ \E c \in Contract : Open' \subseteq {c}
  /\ \/ Proposed' \subseteq Proposed
     \/ Proposed = {} /\ \E c \in Contract : Proposed' \subseteq {c}

\* What every step does, the one that runs an execution excepted.
StepOK ==
  /\ ContractTypeOK' /\ Recorded'
  /\ (\A c \in Contract : Forward(c))
  /\ Turns

LEMMA ForwardKeeps ==
  ASSUME PlanInv, StepOK PROVE PlanInv'
<1>1. \A c \in Contract : RunOf(c)'
  <2> SUFFICES ASSUME NEW c \in Contract PROVE RunOf(c)'
    OBVIOUS
  <2>1. RunOf(c) /\ Forward(c)
    BY DEF PlanInv, StepOK
  <2>2. ran[c] \in Nat /\ c \notin {None, "user"}
    BY ContractAssumption DEF PlanInv, ContractTypeOK
  <2> QED BY <2>1, <2>2 DEF RunOf, Forward, Late, Ended
<1>2. OneAtATime'
  BY DEF PlanInv, OneAtATime, StepOK, Turns
<1> QED BY <1>1, <1>2 DEF PlanInv, StepOK

\* A step that leaves the rows and the runs alone.
LEMMA QuietStep ==
  ASSUME ContractTypeOK', Recorded', UNCHANGED <<status, exec, mode, ran, overtaken>>,
         rt' \in {rt, None, "user"},
         \A c \in Contract :
           /\ Late(c)' => Late(c)
           /\ pend'[c] = "completed" => pend[c] = "completed" \/ <<c, "completed">> \in after
           /\ <<c, "completed">> \in after' => <<c, "completed">> \in after \/ Said(c)
           /\ Said(c)' => Said(c) \/ rt = c
  PROVE  StepOK
<1>1. \A c \in Contract : Forward(c)
  BY DEF Forward
<1>2. Turns
  BY DEF Turns, Open, Proposed
<1> QED BY <1>1, <1>2 DEF StepOK

-----------------------------------------------------------------------------
(* What the operators do *)

Outcomes == Contract \X Ended

\* finishTurn adds what is to be recorded.
LEMMA CloseForm ==
  ASSUME ContractTypeOK, NEW then \in SUBSET Outcomes, Close(then)
  PROVE  /\ closing' \in Turn \cup {None} /\ joined' \in BOOLEAN
         /\ after' \subseteq Outcomes /\ after' = after \cup then
BY DEF ContractTypeOK, Close, Outcomes

\* A dispatch that fails is recorded as interrupted.
LEMMA FailsForm ==
  ASSUME ContractTypeOK, NEW c \in Contract, Fails(c)
  PROVE  /\ closing' \in Turn \cup {None} /\ joined' \in BOOLEAN
         /\ after' \subseteq Outcomes /\ after' = after \cup {<<c, "interrupted">>}
         /\ disp' = [disp EXCEPT ![c] = "idle"]
<1>1. {<<c, "interrupted">>} \in SUBSET Outcomes
  BY DEF Outcomes, Ended
<1>2. CASE active = c
  BY <1>1, <1>2, CloseForm DEF Fails
<1>3. CASE active # c
  BY <1>1, <1>3 DEF Fails, ContractTypeOK, Outcomes
<1> QED BY <1>2, <1>3

\* A run that ends says so of its turn.
LEMMA SaysForm ==
  ASSUME ContractTypeOK, NEW turn \in Turn, NEW outcome \in Ended, Says(turn, outcome)
  PROVE  /\ wire' \in Seq(Turn \X Ended)
         /\ \A c \in Contract : Said(c)' => Said(c) \/ (turn = c /\ outcome = "completed")
<1> DEFINE e == <<turn, outcome>>
<1>1. wire \in Seq(Turn \X Ended) /\ e \in Turn \X Ended /\ wire' = Append(wire, e)
  BY DEF ContractTypeOK, Says
<1>2. wire' \in Seq(Turn \X Ended) /\ Len(wire') = Len(wire) + 1
  BY <1>1, AppendProperties
<1>3. \A i \in DOMAIN wire' : (i \in DOMAIN wire /\ wire'[i] = wire[i]) \/ wire'[i] = e
  BY <1>1, <1>2
<1>4. ASSUME NEW c \in Contract, Said(c)' PROVE Said(c) \/ (turn = c /\ outcome = "completed")
  <2>1. PICK i \in DOMAIN wire' : wire'[i] = <<c, "completed">>
    BY <1>4 DEF Said
  <2>2. CASE i \in DOMAIN wire /\ wire'[i] = wire[i]
    BY <2>1, <2>2 DEF Said
  <2>3. CASE wire'[i] = e
    BY <2>1, <2>3
  <2> QED BY <1>3, <2>2, <2>3
<1> QED BY <1>2, <1>4

\* What is read is no longer said.
LEMMA HeardForm ==
  ASSUME ContractTypeOK, wire # <<>>, wire' = Tail(wire)
  PROVE  /\ wire' \in Seq(Turn \X Ended) /\ Head(wire) \in Turn \X Ended
         /\ \A c \in Contract : Said(c)' => Said(c)
         /\ \A c \in Contract : Head(wire) = <<c, "completed">> => Said(c)
<1>1. wire \in Seq(Turn \X Ended)
  BY DEF ContractTypeOK
<1>2. /\ wire' \in Seq(Turn \X Ended) /\ Head(wire) \in Turn \X Ended
      /\ Len(wire') = Len(wire) - 1 /\ \A i \in 1..Len(wire') : wire'[i] = wire[i + 1]
  BY <1>1, HeadTailProperties
<1>3. Len(wire) \in Nat /\ DOMAIN wire = 1..Len(wire) /\ Len(wire) > 0 /\ DOMAIN wire' = 1..Len(wire')
  BY <1>1, <1>2, EmptySeq, LenProperties
<1>4. \A c \in Contract : Said(c)' => Said(c)
  BY <1>2, <1>3 DEF Said
<1>5. 1 \in DOMAIN wire /\ Head(wire) = wire[1]
  BY <1>1, <1>3
<1> QED BY <1>2, <1>4, <1>5 DEF Said

\* finishApprovedExecution keeps an outcome that is there.
LEMMA RecordForm ==
  ASSUME ContractTypeOK, Recorded, NEW cs \in SUBSET Contract, NEW outcome \in Ended, Record(cs, outcome)
  PROVE  /\ pend' \in [Contract -> {"none"} \cup Ended]
         /\ recording' \subseteq Contract /\ Recorded'
         /\ \A c \in Contract : pend'[c] = pend[c] \/ (c \in cs /\ pend'[c] = outcome)
<1> DEFINE new == cs \ (finished \cup recording)
<1>1. pend' = [c \in Contract |-> IF c \in new /\ pend[c] = "none" THEN outcome ELSE pend[c]]
  BY DEF Record
<1>2. recording' \subseteq recording \cup new
  BY DEF Record
<1>3. outcome # "none"
  BY DEF Ended
<1>4. \A c \in Contract : c \in new \/ pend[c] # "none" => pend'[c] # "none"
  BY <1>1, <1>3
<1>8. \A c \in Contract : pend'[c] = pend[c] \/ (c \in cs /\ pend'[c] = outcome)
  BY <1>1
<1>5. recording' \subseteq Contract
  BY <1>2 DEF ContractTypeOK
<1>6. Recorded'
  BY <1>2, <1>4, <1>5 DEF Recorded
<1>7. pend' \in [Contract -> {"none"} \cup Ended]
  BY <1>1 DEF ContractTypeOK
<1> QED BY <1>5, <1>6, <1>7, <1>8

DispStates == {"idle", "wait", "claim", "launch", "begin", "execute"}

\* A dispatch that is asked for waits, or claims, or comes back later.
LEMMA DispatchForm ==
  ASSUME ContractTypeOK, NEW c \in Contract, Dispatch(c)
  PROVE  /\ disp' \in [Contract -> DispStates] /\ retry' \subseteq Contract
         /\ \A d \in Contract : Late(d)' => Late(d)
<1>1. retry' \subseteq Contract
  BY DEF Dispatch, ContractTypeOK
<1>2. disp' = disp \/ \E s \in {"wait", "claim"} : disp' = [disp EXCEPT ![c] = s]
  BY DEF Dispatch
<1>3. CASE disp' = disp
  BY <1>1, <1>3 DEF ContractTypeOK, DispStates, Late
<1>4. ASSUME NEW s \in {"wait", "claim"}, disp' = [disp EXCEPT ![c] = s]
      PROVE  disp' \in [Contract -> DispStates] /\ \A d \in Contract : Late(d)' => Late(d)
  <2>1. disp \in [Contract -> DispStates] /\ s \in DispStates
    BY DEF ContractTypeOK, DispStates
  <2>2. disp' \in [Contract -> DispStates] /\ \A d \in Contract : disp'[d] = IF d = c THEN s ELSE disp[d]
    BY <1>4, <2>1
  <2> QED BY <2>2 DEF Late
<1> QED BY <1>1, <1>2, <1>3, <1>4

\* plans.abort interrupts what is pending.
LEMMA AbortForm ==
  ASSUME ContractTypeOK, AbortSession
  PROVE  /\ status' \in [Contract -> {"none", "pending", "approved", "rejected", "expired", "interrupted"}]
         /\ \A c \in Contract : status'[c] = status[c] \/ (status[c] = "pending" /\ status'[c] = "interrupted")
BY DEF ContractTypeOK, AbortSession

-----------------------------------------------------------------------------
(* Steps that leave the rows and the runs alone *)

\* The turns are closed and what is recorded after them.
LEMMA TurnSteps ==
  ASSUME PlanInv, CloseDone \/ After \/ PromptCheck \/ PromptOpen \/ Stop \/ StopDone
  PROVE  StepOK
<1>0. ContractTypeOK /\ Recorded /\ "user" \in Turn
  BY DEF PlanInv, Turn
<1>1. CASE CloseDone
  <2>1. ContractTypeOK'
    BY <1>0, <1>1 DEF ContractTypeOK, CloseDone, dispVars, recordVars, runVars, bounds
  <2> QED BY <1>0, <1>1, <2>1, QuietStep DEF CloseDone, dispVars, recordVars, runVars, Said, Recorded, Late
<1>2. CASE After
  <2>1. PICK a \in after : after' = after \ {a} /\ Record({a[1]}, a[2])
    BY <1>2 DEF After
  <2>2. a \in Contract \X Ended /\ a = <<a[1], a[2]>>
    BY <1>0, <2>1 DEF ContractTypeOK
  <2>3. {a[1]} \in SUBSET Contract /\ a[2] \in Ended
    BY <2>2
  <2>4. /\ pend' \in [Contract -> {"none"} \cup Ended]
        /\ recording' \subseteq Contract /\ Recorded'
        /\ \A c \in Contract : pend'[c] = pend[c] \/ (c \in {a[1]} /\ pend'[c] = a[2])
    BY <1>0, <2>1, <2>3, RecordForm
  <2>5. ContractTypeOK'
    BY <1>0, <1>2, <2>1, <2>4 DEF ContractTypeOK, After, hostVars, dispVars, runVars, bounds
  <2>6. \A c \in Contract : pend'[c] = "completed" => pend[c] = "completed" \/ <<c, "completed">> \in after
    BY <2>1, <2>2, <2>4
  <2> QED BY <1>0, <1>2, <2>1, <2>4, <2>5, <2>6, QuietStep DEF After, hostVars, dispVars, runVars, Said, Late
<1>3. CASE PromptCheck
  <2>1. ContractTypeOK'
    BY <1>0, <1>3, ContractAssumption DEF ContractTypeOK, PromptCheck, hostVars, dispVars, recordVars, runVars
  <2> QED BY <1>0, <1>3, <2>1, QuietStep DEF PromptCheck, hostVars, dispVars, recordVars, runVars, Said, Recorded, Late
<1>4. CASE PromptOpen
  <2>1. wire' \in Seq(Turn \X Ended) /\ \A c \in Contract : Said(c)' => Said(c)
    <3>1. CASE wire' = wire
      BY <1>0, <3>1 DEF ContractTypeOK, Said
    <3>2. CASE Says("user", "interrupted")
      BY <1>0, <3>2, SaysForm DEF Ended
    <3> QED BY <1>4, <3>1, <3>2 DEF PromptOpen
  <2>2. rt' \in {rt, None, "user"} /\ after' = after
    BY <1>4 DEF PromptOpen
  <2>3. ContractTypeOK'
    <3>1. {running', active', closing', rt'} \subseteq Turn \cup {None}
      BY <1>0, <1>4 DEF ContractTypeOK, PromptOpen
    <3>2. prompt' \in BOOLEAN /\ submitting' \in BOOLEAN
      BY <1>0, <1>4 DEF ContractTypeOK, PromptOpen
    <3>3. /\ UNCHANGED <<status, exec, mode, up, after, joined, stop, side, ran, unheard, overtaken>>
          /\ UNCHANGED <<dispVars, recordVars, bounds>>
      BY <1>4 DEF PromptOpen
    <3> QED BY <1>0, <2>1, <3>1, <3>2, <3>3 DEF ContractTypeOK, dispVars, recordVars, bounds
  <2>4. UNCHANGED <<status, exec, mode, ran, overtaken, disp, pend, recording>>
    BY <1>4 DEF PromptOpen, dispVars, recordVars
  <2> QED BY <1>0, <2>1, <2>2, <2>3, <2>4, QuietStep DEF Recorded, Late
<1>5. CASE Stop
  <2>1. PICK c \in Contract \cup {None} : stop' = [at |-> "sent", on |-> c]
    BY <1>5 DEF Stop
  <2>2. stop' \in [at : {"idle", "sent", "back"}, on : Contract \cup {None}]
    BY <2>1
  <2>3. aborts' \in 0..MaxAborts
    BY <1>0, <1>5, ContractAssumption DEF Stop, ContractTypeOK
  <2>4. ContractTypeOK'
    BY <1>0, <1>5, <2>2, <2>3 DEF ContractTypeOK, Stop, hostVars, dispVars, recordVars, runVars
  <2> QED BY <1>0, <1>5, <2>4, QuietStep DEF Stop, hostVars, dispVars, recordVars, runVars, Said, Recorded, Late
<1>6. CASE StopDone
  <2> DEFINE then == IF stop.on = None THEN {} ELSE {<<stop.on, "interrupted">>}
  <2>1. Close(then) /\ stop' = NoStop
    BY <1>6 DEF StopDone
  <2>2. then \in SUBSET Outcomes
    BY <1>0 DEF ContractTypeOK, Outcomes, Ended
  <2>3. \A c \in Contract : <<c, "completed">> \notin then
    OBVIOUS
  <2> HIDE DEF then
  <2>4. /\ closing' \in Turn \cup {None} /\ joined' \in BOOLEAN
        /\ after' \subseteq Outcomes /\ after' = after \cup then
    BY <1>0, <2>1, <2>2, CloseForm
  <2>5. stop' \in [at : {"idle", "sent", "back"}, on : Contract \cup {None}]
    BY <2>1 DEF NoStop
  <2>6. ContractTypeOK'
    BY <1>0, <1>6, <2>4, <2>5 DEF ContractTypeOK, Outcomes, StopDone, hostVars, dispVars, recordVars, runVars, bounds
  <2> QED BY <1>0, <1>6, <2>3, <2>4, <2>6, QuietStep DEF StopDone, hostVars, dispVars, recordVars, runVars, Said, Recorded, Late
<1> QED BY <1>1, <1>2, <1>3, <1>4, <1>5, <1>6

\* A dispatch waits, comes back later, and fails before or after it has begun.
LEMMA DispatchSteps ==
  ASSUME PlanInv, NEW c \in Contract, RetryDue(c) \/ WaitDone(c) \/ Launch(c) \/ Begin(c) \/ BeginLost(c)
  PROVE  StepOK
<1>0. ContractTypeOK /\ Recorded /\ c \in Turn
  BY DEF PlanInv, Turn
<1>1. CASE RetryDue(c)
  <2>1. retry' \subseteq Contract
    BY <1>0, <1>1 DEF RetryDue, ContractTypeOK
  <2>2. disp' = disp \/ \E s \in {"wait", "claim"} : disp' = [disp EXCEPT ![c] = s]
    BY <1>1 DEF RetryDue
  <2>3. disp' \in [Contract -> DispStates] /\ \A d \in Contract : Late(d)' => Late(d)
    BY <1>0, <2>2 DEF Late, DispStates, ContractTypeOK
  <2>4. ContractTypeOK'
    BY <1>0, <1>1, <2>1, <2>3 DEF ContractTypeOK, DispStates, RetryDue, hostVars, turnVars, recordVars, runVars, bounds
  <2> QED BY <1>0, <1>1, <2>3, <2>4, QuietStep DEF RetryDue, hostVars, turnVars, recordVars, runVars, Said, Recorded
<1>2. CASE WaitDone(c)
  <2>1. retry' \subseteq Contract
    BY <1>0, <1>2 DEF WaitDone, ContractTypeOK
  <2>2. \E s \in {"idle", "claim"} : disp' = [disp EXCEPT ![c] = s]
    BY <1>2 DEF WaitDone
  <2>3. disp' \in [Contract -> DispStates] /\ \A d \in Contract : Late(d)' => Late(d)
    BY <1>0, <2>2 DEF Late, DispStates, ContractTypeOK
  <2>4. ContractTypeOK'
    BY <1>0, <1>2, <2>1, <2>3 DEF ContractTypeOK, DispStates, WaitDone, hostVars, turnVars, recordVars, runVars, bounds
  <2> QED BY <1>0, <1>2, <2>3, <2>4, QuietStep DEF WaitDone, hostVars, turnVars, recordVars, runVars, Said, Recorded
<1>3. CASE Launch(c)
  <2>1. /\ closing' \in Turn \cup {None} /\ joined' \in BOOLEAN /\ after' \subseteq Outcomes
        /\ \A d \in Contract : <<d, "completed">> \in after' => <<d, "completed">> \in after
    <3>1. CASE up
      BY <1>0, <1>3, <3>1 DEF Launch, ContractTypeOK, Outcomes
    <3>2. CASE ~up
      BY <1>0, <1>3, <3>2, FailsForm DEF Launch
    <3> QED BY <3>1, <3>2
  <2>2. \E s \in {"idle", "begin"} : disp' = [disp EXCEPT ![c] = s]
    BY <1>0, <1>3, FailsForm DEF Launch
  <2>3. disp' \in [Contract -> DispStates] /\ \A d \in Contract : Late(d)' => Late(d)
    BY <1>0, <1>3, <2>2 DEF Late, DispStates, ContractTypeOK, Launch
  <2>4. ContractTypeOK'
    BY <1>0, <1>3, <2>1, <2>3 DEF ContractTypeOK, DispStates, Outcomes, Launch, hostVars, recordVars, runVars, bounds
  <2> QED BY <1>0, <1>3, <2>1, <2>3, <2>4, QuietStep DEF Launch, hostVars, recordVars, runVars, Said, Recorded
<1>4. CASE Begin(c)
  <2>1. /\ closing' \in Turn \cup {None} /\ joined' \in BOOLEAN /\ after' \subseteq Outcomes
        /\ \A d \in Contract : <<d, "completed">> \in after' => <<d, "completed">> \in after
    <3>1. CASE up /\ running = None
      BY <1>0, <1>4, <3>1 DEF Begin, ContractTypeOK, Outcomes
    <3>2. CASE ~(up /\ running = None)
      BY <1>0, <1>4, <3>2, FailsForm DEF Begin
    <3> QED BY <3>1, <3>2
  <2>2. \E s \in {"idle", "execute"} : disp' = [disp EXCEPT ![c] = s]
    BY <1>0, <1>4, FailsForm DEF Begin
  <2>3. disp' \in [Contract -> DispStates] /\ \A d \in Contract : Late(d)' => Late(d)
    BY <1>0, <1>4, <2>2 DEF Late, DispStates, ContractTypeOK, Begin
  <2>4. {running', active'} \subseteq Turn \cup {None} /\ owner' \in Contract \cup {None} /\ started' \subseteq Contract
    BY <1>0, <1>4 DEF Begin, ContractTypeOK
  <2>5. ContractTypeOK'
    BY <1>0, <1>4, <2>1, <2>3, <2>4 DEF ContractTypeOK, DispStates, Outcomes, Begin, recordVars, runVars, bounds
  <2> QED BY <1>0, <1>4, <2>1, <2>3, <2>5, QuietStep DEF Begin, recordVars, runVars, Said, Recorded
<1>5. CASE BeginLost(c)
  <2>1. /\ closing' \in Turn \cup {None} /\ joined' \in BOOLEAN /\ after' \subseteq Outcomes
        /\ \A d \in Contract : <<d, "completed">> \in after' => <<d, "completed">> \in after
        /\ disp' = [disp EXCEPT ![c] = "idle"]
    BY <1>0, <1>5, FailsForm DEF BeginLost
  <2>2. disp' \in [Contract -> DispStates] /\ \A d \in Contract : Late(d)' => Late(d)
    BY <1>0, <2>1 DEF Late, DispStates, ContractTypeOK
  <2>3. running' \in Turn \cup {None} /\ losses' \in 0..MaxLosses /\ UNCHANGED <<prompts, exits, aborts>>
    BY <1>0, <1>5, ContractAssumption DEF BeginLost, Lose, ContractTypeOK
  <2>4. ContractTypeOK'
    BY <1>0, <1>5, <2>1, <2>2, <2>3 DEF ContractTypeOK, DispStates, Outcomes, BeginLost, recordVars, runVars
  <2> QED BY <1>0, <1>5, <2>1, <2>2, <2>4, QuietStep DEF BeginLost, recordVars, runVars, Said, Recorded, Said
<1> QED BY <1>1, <1>2, <1>3, <1>4, <1>5

\* Main reads that a run has ended, and records the execution it was of.
LEMMA HearStep ==
  ASSUME PlanInv, HearEnd
  PROVE  StepOK
<1>0. ContractTypeOK /\ Recorded
  BY DEF PlanInv
<1> DEFINE then == IF Head(wire)[1] = owner /\ pend[owner] # "interrupted" THEN {Head(wire)} ELSE {}
<1>1. /\ wire' \in Seq(Turn \X Ended) /\ Head(wire) \in Turn \X Ended
      /\ \A c \in Contract : Said(c)' => Said(c)
      /\ \A c \in Contract : Head(wire) = <<c, "completed">> => Said(c)
  BY <1>0, HeardForm DEF HearEnd
<1>2. /\ closing' \in Turn \cup {None} /\ joined' \in BOOLEAN /\ after' \subseteq Outcomes
      /\ \A c \in Contract : <<c, "completed">> \in after' => <<c, "completed">> \in after \/ Said(c)
  <2>1. CASE Close(then)
    <3>1. then \in SUBSET Outcomes
      <4>1. CASE Head(wire)[1] = owner
        <5>1. Head(wire) = <<Head(wire)[1], Head(wire)[2]>> /\ Head(wire)[2] \in Ended
          BY <1>1
        <5>2. owner \in Contract
          BY <1>0, <1>1, <4>1, ContractAssumption DEF ContractTypeOK, Turn
        <5> QED BY <4>1, <5>1, <5>2 DEF Outcomes
      <4> QED BY <4>1
    <3>2. \A c \in Contract : <<c, "completed">> \in then => Said(c)
      BY <1>1
    <3> HIDE DEF then
    <3> QED BY <1>0, <2>1, <3>1, <3>2, CloseForm
  <2>2. CASE UNCHANGED <<closing, after, joined>>
    BY <1>0, <2>2 DEF ContractTypeOK, Outcomes
  <2> QED BY <2>1, <2>2 DEF HearEnd
<1>3. unheard' \in BOOLEAN
  BY <1>0 DEF HearEnd, ContractTypeOK
<1> HIDE DEF then
<1>4. ContractTypeOK'
  BY <1>0, <1>1, <1>2, <1>3 DEF ContractTypeOK, Outcomes, HearEnd, hostVars, dispVars, recordVars, bounds
<1> QED BY <1>0, <1>1, <1>2, <1>4, QuietStep DEF HearEnd, hostVars, dispVars, recordVars, Recorded, Late

\* Runs end; the sidecar and Main start, stop and exit.
LEMMA ProcessSteps ==
  ASSUME PlanInv, (\E outcome \in Ended : TurnEnds(outcome)) \/ HostExit \/ SidecarStart \/ MainExit \/ DrainQueued
  PROVE  StepOK
<1>0. ContractTypeOK /\ Recorded
  BY DEF PlanInv
<1>1. ASSUME NEW outcome \in Ended, TurnEnds(outcome) PROVE StepOK
  <2>1. rt \in Turn /\ rt' = None /\ Says(rt, outcome)
    BY <1>0, <1>1 DEF TurnEnds, ContractTypeOK
  <2>2. wire' \in Seq(Turn \X Ended) /\ \A c \in Contract : Said(c)' => Said(c) \/ rt = c
    BY <1>0, <2>1, SaysForm
  <2>3. ContractTypeOK'
    BY <1>0, <1>1, <2>1, <2>2 DEF ContractTypeOK, TurnEnds, hostVars, turnVars, dispVars, recordVars, bounds
  <2> QED BY <1>0, <1>1, <2>1, <2>2, <2>3, QuietStep
          DEF TurnEnds, hostVars, turnVars, dispVars, recordVars, Recorded, Late
<1>2. CASE HostExit
  <2>1. /\ pend' \in [Contract -> {"none"} \cup Ended] /\ recording' = {}
        /\ \A c \in Contract : pend'[c] = "completed" => pend[c] = "completed"
    BY <1>0, <1>2 DEF HostExit, ContractTypeOK, Ended
  <2>2. /\ closing' \in Turn \cup {None} /\ joined' \in BOOLEAN /\ after' \subseteq Outcomes /\ after' = after
    <3>1. CASE owner \in claimed
      BY <1>0, <1>2, <3>1, CloseForm DEF HostExit
    <3>2. CASE owner \notin claimed
      BY <1>0, <1>2, <3>2 DEF HostExit, ContractTypeOK, Outcomes
    <3> QED BY <3>1, <3>2
  <2>3. exits' \in 0..MaxExits
    BY <1>0, <1>2, ContractAssumption DEF HostExit, Exit, ContractTypeOK
  <2>4. ContractTypeOK'
    BY <1>0, <1>2, <2>1, <2>2, <2>3 DEF ContractTypeOK, Outcomes, HostExit, Exit, hostVars, runVars
  <2>5. Recorded'
    BY <2>1 DEF Recorded
  <2> QED BY <1>0, <1>2, <2>1, <2>2, <2>4, <2>5, QuietStep DEF HostExit, hostVars, runVars, Said, Late
<1>3. CASE SidecarStart
  <2>1. recording' \subseteq Contract /\ Recorded' /\ drain' \in BOOLEAN
    BY <1>0, <1>3 DEF SidecarStart, Drain, Recorded, ContractTypeOK
  <2>2. ContractTypeOK'
    BY <1>0, <1>3, <2>1 DEF ContractTypeOK, SidecarStart, hostVars, turnVars, bounds
  <2> QED BY <1>0, <1>3, <2>1, <2>2, QuietStep DEF SidecarStart, hostVars, turnVars, Late, Said
<1>4. CASE MainExit
  <2>1. exits' \in 0..MaxExits
    BY <1>0, <1>4, ContractAssumption DEF MainExit, Exit, ContractTypeOK
  <2>2. stop' \in [at : {"idle", "sent", "back"}, on : Contract \cup {None}]
    BY <1>4 DEF MainExit, NoStop
  <2>3. wire' \in Seq(Turn \X Ended) /\ \A c \in Contract : ~Said(c)'
    BY <1>4 DEF MainExit, Said
  <2>4. ContractTypeOK'
    BY <1>0, <1>4, <2>1, <2>2, <2>3 DEF ContractTypeOK, MainExit, Exit, hostVars
  <2> QED BY <1>0, <1>4, <2>3, <2>4, QuietStep DEF MainExit, Exit, hostVars, Recorded, Late
<1>5. CASE DrainQueued
  <2>1. /\ disp' \in [Contract -> DispStates] /\ retry' \subseteq Contract
        /\ \A d \in Contract : Late(d)' => Late(d)
    <3>1. CASE \E c \in Contract : exec[c] = "queued"
      BY <1>0, <1>5, <3>1, DispatchForm DEF DrainQueued
    <3>2. CASE ~\E c \in Contract : exec[c] = "queued"
      BY <1>0, <1>5, <3>2 DEF DrainQueued, ContractTypeOK, DispStates, Late
    <3> QED BY <3>1, <3>2
  <2>2. ContractTypeOK'
    <3>1. drain' \in BOOLEAN
      BY <1>5 DEF DrainQueued
    <3>2. UNCHANGED <<hostVars, up, turnVars, claimed, owner, started, recordVars, runVars, overtaken, bounds>>
      BY <1>5 DEF DrainQueued
    <3> QED BY <1>0, <2>1, <3>1, <3>2
            DEF ContractTypeOK, DispStates, hostVars, turnVars, recordVars, runVars, bounds
  <2>3. UNCHANGED <<status, exec, mode, ran, overtaken, rt, wire, after, pend, recording>>
    BY <1>5 DEF DrainQueued, hostVars, turnVars, recordVars, runVars
  <2> QED BY <1>0, <2>1, <2>2, <2>3, QuietStep DEF Said, Recorded
<1> QED BY <1>1, <1>2, <1>3, <1>4, <1>5

-----------------------------------------------------------------------------
(* Steps on the rows *)

\* A proposal is settled without an approval.
LEMMA SettleSteps ==
  ASSUME PlanInv, ContractTypeOK', Recorded',
         UNCHANGED <<exec, mode, ran, overtaken>>, rt' \in {rt, None, "user"},
         \A c \in Contract :
           /\ status'[c] = status[c] \/ (status[c] = "pending" /\ status'[c] # "pending")
           /\ Late(c)' => Late(c)
           /\ pend'[c] = "completed" => pend[c] = "completed" \/ <<c, "completed">> \in after
           /\ <<c, "completed">> \in after' => <<c, "completed">> \in after \/ Said(c)
           /\ Said(c)' => Said(c) \/ rt = c
  PROVE  StepOK
<1>1. \A c \in Contract : Forward(c)
  BY DEF Forward
<1>2. Turns
  BY DEF Turns, Open, Proposed
<1> QED BY <1>1, <1>2 DEF StepOK

ExecStates == {"none", "queued", "running"} \cup Ended
Statuses == {"none", "pending", "approved", "rejected", "expired", "interrupted"}

\* The user or a timeout settles a proposal.
LEMMA RefuseSteps ==
  ASSUME PlanInv, NEW c \in Contract, Expire(c) \/ Reject(c)
  PROVE  StepOK
<1>0. ContractTypeOK /\ Recorded
  BY DEF PlanInv
<1>1. PICK s \in {"expired", "rejected"} : status' = [status EXCEPT ![c] = s]
  BY DEF Expire, Reject
<1>2. status[c] = "pending" /\ exec' = exec
  BY DEF Expire, Reject
<1>3. /\ status' \in [Contract -> Statuses] /\ status'[c] = s
      /\ \A d \in Contract \ {c} : status'[d] = status[d]
  BY <1>0, <1>1 DEF ContractTypeOK, Statuses
<1>4. \A d \in Contract : exec'[d] # "none" <=> status'[d] = "approved"
  BY <1>0, <1>2, <1>3 DEF ContractTypeOK
<1>5. ContractTypeOK'
  BY <1>0, <1>3, <1>4 DEF ContractTypeOK, Statuses, Expire, Reject, turnVars, dispVars, recordVars, runVars, bounds
<1> QED BY <1>0, <1>2, <1>3, <1>5, SettleSteps
        DEF Expire, Reject, turnVars, dispVars, recordVars, runVars, bounds, Recorded, Late, Said

\* The run is stopped and the contract aborted with it, or the sidecar exits.
LEMMA StopSteps ==
  ASSUME PlanInv, StopRun \/ SidecarExit
  PROVE  StepOK
<1>0. ContractTypeOK /\ Recorded
  BY DEF PlanInv
<1>1. ASSUME status' \in [Contract -> Statuses], exec' = exec,
             \A c \in Contract : status'[c] = status[c] \/ (status[c] = "pending" /\ status'[c] = "interrupted")
      PROVE  /\ \A c \in Contract : status'[c] = status[c] \/ (status[c] = "pending" /\ status'[c] # "pending")
             /\ \A c \in Contract : exec'[c] # "none" <=> status'[c] = "approved"
  <2>1. \A c \in Contract : exec[c] # "none" <=> status[c] = "approved"
    BY <1>0 DEF ContractTypeOK
  <2> QED BY <1>1, <2>1
<1>2. CASE StopRun
  <2>1. status' \in [Contract -> Statuses] /\ exec' = exec /\
        \A c \in Contract : status'[c] = status[c] \/ (status[c] = "pending" /\ status'[c] = "interrupted")
    BY <1>0, <1>2, AbortForm DEF StopRun, Statuses
  <2>2. wire' \in Seq(Turn \X Ended) /\ \A c \in Contract : Said(c)' => Said(c)
    <3>1. CASE rt = None
      BY <1>0, <1>2, <3>1 DEF StopRun, ContractTypeOK, Said
    <3>2. CASE rt # None
      <4>1. Says(rt, "interrupted") /\ rt \in Turn /\ "interrupted" \in Ended
        BY <1>0, <1>2, <3>2 DEF StopRun, Ended, ContractTypeOK
      <4> QED BY <1>0, <4>1, SaysForm
    <3> QED BY <3>1, <3>2
  <2>3. stop' \in [at : {"idle", "sent", "back"}, on : Contract \cup {None}] /\ rt' \in {rt, None}
    BY <1>0, <1>2 DEF StopRun, ContractTypeOK
  <2>4. \A c \in Contract : exec'[c] # "none" <=> status'[c] = "approved"
    BY <1>1, <2>1
  <2>5. ContractTypeOK'
    BY <1>0, <1>2, <2>1, <2>2, <2>3, <2>4
       DEF ContractTypeOK, Statuses, StopRun, dispVars, recordVars, bounds
  <2> QED BY <1>0, <1>1, <1>2, <2>1, <2>2, <2>3, <2>5, SettleSteps
          DEF StopRun, dispVars, recordVars, Recorded, Late
<1>3. CASE SidecarExit
  <2>1. status' \in [Contract -> Statuses] /\ exec' = exec /\
        \A c \in Contract : status'[c] = status[c] \/ (status[c] = "pending" /\ status'[c] = "interrupted")
    <3>1. CASE active = None
      BY <1>0, <1>3, <3>1 DEF SidecarExit, ContractTypeOK, Statuses
    <3>2. CASE active # None
      BY <1>0, <1>3, <3>2, AbortForm DEF SidecarExit, Statuses
    <3> QED BY <3>1, <3>2
  <2>2. /\ closing' \in Turn \cup {None} /\ joined' \in BOOLEAN /\ after' \subseteq Outcomes
        /\ \A c \in Contract : <<c, "completed">> \in after' => <<c, "completed">> \in after
    <3>1. CASE active = None
      BY <1>0, <1>3, <3>1 DEF SidecarExit, ContractTypeOK, Outcomes
    <3>2. CASE active # None
      <4> DEFINE then == IF owner = None THEN {} ELSE {<<owner, "interrupted">>}
      <4>1. Close(then) /\ then \in SUBSET Outcomes
        BY <1>0, <1>3, <3>2 DEF SidecarExit, ContractTypeOK, Outcomes, Ended
      <4>2. \A c \in Contract : <<c, "completed">> \notin then
        OBVIOUS
      <4> HIDE DEF then
      <4> QED BY <1>0, <4>1, <4>2, CloseForm
    <3> QED BY <3>1, <3>2
  <2>3. Record(claimed, "interrupted") /\ "interrupted" \in Ended /\ claimed \in SUBSET Contract
    BY <1>0, <1>3 DEF SidecarExit, Ended, ContractTypeOK
  <2>4. /\ pend' \in [Contract -> {"none"} \cup Ended] /\ recording' \subseteq Contract /\ Recorded'
        /\ \A c \in Contract : pend'[c] = pend[c] \/ (c \in claimed /\ pend'[c] = "interrupted")
    BY <1>0, <2>3, RecordForm
  <2>5. stop' \in [at : {"idle", "sent", "back"}, on : Contract \cup {None}]
    BY <1>0, <1>3 DEF SidecarExit, ContractTypeOK
  <2>6. exits' \in 0..MaxExits
    BY <1>0, <1>3, ContractAssumption DEF SidecarExit, Exit, ContractTypeOK
  <2>7. \A c \in Contract : exec'[c] # "none" <=> status'[c] = "approved"
    BY <1>1, <2>1
  <2>10. wire' \in Seq(Turn \X Ended) /\ \A c \in Contract : Said(c)' => Said(c)
    <3>1. wire' = wire \/ wire' = <<>>
      BY <1>3 DEF SidecarExit
    <3>2. CASE wire' = wire
      BY <1>0, <3>2 DEF ContractTypeOK, Said
    <3>3. CASE wire' = <<>>
      BY <3>3 DEF Said
    <3> QED BY <3>1, <3>2, <3>3
  <2>8. ContractTypeOK'
    <3>1. /\ side' = FALSE /\ rt' = None /\ drain' = FALSE /\ UNCHANGED <<prompts, losses, aborts>>
          /\ UNCHANGED <<exec, mode, running, up, active, submitting, prompt, disp, retry>>
          /\ UNCHANGED <<claimed, owner, started, finished, ran, unheard, overtaken>>
      BY <1>3 DEF SidecarExit, Exit
    <3>2. /\ exec' \in [Contract -> ExecStates] /\ disp' \in [Contract -> DispStates] /\ ran' \in [Contract -> Nat]
          /\ {running', active', closing', rt'} \subseteq Turn \cup {None}
      BY <1>0, <2>2, <3>1 DEF ContractTypeOK, ExecStates, DispStates
    <3>3. /\ mode' \in {"agent", "plan"} /\ up' \in BOOLEAN /\ side' \in BOOLEAN /\ submitting' \in BOOLEAN
          /\ drain' \in BOOLEAN /\ prompt' \in BOOLEAN /\ retry' \subseteq Contract /\ claimed' \subseteq Contract
          /\ started' \subseteq Contract /\ finished' \subseteq Contract /\ overtaken' \subseteq Contract
          /\ owner' \in Contract \cup {None} /\ prompts' \in 0..MaxPrompts /\ losses' \in 0..MaxLosses
          /\ aborts' \in 0..MaxAborts /\ unheard' \in BOOLEAN
      BY <1>0, <3>1 DEF ContractTypeOK
    <3> QED BY <2>1, <2>2, <2>4, <2>5, <2>6, <2>7, <2>10, <3>2, <3>3
            DEF ContractTypeOK, ExecStates, DispStates, Statuses, Outcomes
  <2>9. \A c \in Contract : pend'[c] = "completed" => pend[c] = "completed"
    BY <2>4
  <2> QED BY <1>0, <1>1, <1>3, <2>1, <2>2, <2>4, <2>8, <2>9, <2>10, SettleSteps DEF SidecarExit, Late
<1> QED BY <1>2, <1>3

\* The agent enters plan mode, when nothing is being carried out.
LEMMA EnterStep ==
  ASSUME PlanInv, Enter
  PROVE  StepOK
<1>0. ContractTypeOK /\ Recorded
  BY DEF PlanInv
<1>1. ContractTypeOK'
  BY <1>0 DEF ContractTypeOK, Enter, turnVars, dispVars, recordVars, runVars, bounds
<1>2. \A d \in Contract : Forward(d)
  BY DEF Forward, Enter, turnVars, dispVars, recordVars, runVars, Late, Said
<1>3. Turns
  BY DEF Turns, Open, Proposed, Enter, ActiveExecution
<1>4. Recorded'
  BY <1>0 DEF Recorded, Enter, recordVars
<1> QED BY <1>1, <1>2, <1>3, <1>4 DEF StepOK

\* The agent makes a proposal, when none is before the user.
LEMMA SubmitStep ==
  ASSUME PlanInv, NEW c \in Contract, Submit(c)
  PROVE  StepOK
<1>0. ContractTypeOK /\ Recorded
  BY DEF PlanInv
<1>1. /\ status' \in [Contract -> Statuses] /\ status'[c] = "pending" /\ status[c] = "none"
      /\ \A d \in Contract \ {c} : status'[d] = status[d]
  BY <1>0 DEF ContractTypeOK, Statuses, Submit
<1>2. exec' = exec /\ mode' = mode
  BY DEF Submit
<1>3. \A d \in Contract : exec'[d] # "none" <=> status'[d] = "approved"
  BY <1>0, <1>1, <1>2 DEF ContractTypeOK
<1>4. ContractTypeOK'
  BY <1>0, <1>1, <1>3 DEF ContractTypeOK, Statuses, Submit, dispVars, recordVars, runVars, bounds
<1>5. UNCHANGED <<exec, ran, rt, wire, disp, overtaken, pend, after>>
  BY DEF Submit, dispVars, recordVars, runVars
<1>6. \A d \in Contract : Forward(d)
  BY <1>1, <1>5 DEF Forward, Late, Said
<1>7. Proposed = {} /\ Proposed' \subseteq {c}
  BY <1>1 DEF Proposed, Submit
<1>8. Turns
  BY <1>2, <1>7 DEF Turns, Open
<1>9. Recorded'
  BY <1>0 DEF Recorded, Submit, recordVars
<1> QED BY <1>4, <1>6, <1>8, <1>9 DEF StepOK

\* An approval of the pending proposal queues its execution and leaves plan mode;
\* one that is repeated only asks for the dispatch again.
LEMMA ApproveSteps ==
  ASSUME PlanInv, NEW c \in Contract, Approve(c) \/ ApproveLost(c)
  PROVE  StepOK
<1>0. ContractTypeOK /\ Recorded /\ RunOf(c)
  BY DEF PlanInv
<1>1. /\ disp' \in [Contract -> DispStates] /\ retry' \subseteq Contract
      /\ \A d \in Contract : Late(d)' => Late(d)
  <2>1. CASE Approve(c)
    BY <1>0, <2>1, DispatchForm DEF Approve
  <2>2. CASE ApproveLost(c)
    BY <1>0, <2>2 DEF ApproveLost, dispVars, ContractTypeOK, DispStates, Late
  <2> QED BY <2>1, <2>2
<1>2. /\ UNCHANGED <<running, up, turnVars, drain, claimed, owner, started, recordVars, runVars, overtaken>>
      /\ losses' \in 0..MaxLosses /\ UNCHANGED <<prompts, exits, aborts>>
  BY <1>0, ContractAssumption DEF Approve, ApproveLost, Lose, dispVars, bounds, ContractTypeOK
<1>3. CASE UNCHANGED <<status, exec, mode>>
  <2>1. ContractTypeOK'
    BY <1>0, <1>1, <1>2, <1>3 DEF ContractTypeOK, ExecStates, DispStates, turnVars, recordVars, runVars
  <2> QED BY <1>0, <1>1, <1>2, <1>3, <2>1, QuietStep DEF turnVars, recordVars, runVars, Said, Recorded
<1>4. CASE /\ Approvable(c) /\ status' = [status EXCEPT ![c] = "approved"]
           /\ exec' = [exec EXCEPT ![c] = "queued"] /\ mode' = "agent"
  <2>1. /\ status' \in [Contract -> Statuses] /\ status'[c] = "approved" /\ status[c] = "pending"
        /\ \A d \in Contract \ {c} : status'[d] = status[d]
    BY <1>0, <1>4 DEF ContractTypeOK, Statuses, Approvable
  <2>2. /\ exec' \in [Contract -> ExecStates] /\ exec'[c] = "queued"
        /\ \A d \in Contract \ {c} : exec'[d] = exec[d]
    BY <1>0, <1>4 DEF ContractTypeOK, ExecStates
  <2>3. exec[c] = "none"
    BY <1>0, <2>1 DEF ContractTypeOK
  <2>4. \A d \in Contract : exec'[d] # "none" <=> status'[d] = "approved"
    BY <1>0, <2>1, <2>2 DEF ContractTypeOK
  <2>5. ContractTypeOK'
    BY <1>0, <1>1, <1>2, <1>4, <2>1, <2>2, <2>4
       DEF ContractTypeOK, ExecStates, DispStates, Statuses, turnVars, recordVars, runVars
  <2>6. UNCHANGED <<ran, rt, wire, overtaken, pend, after>>
    BY <1>2 DEF turnVars, recordVars, runVars
  <2>7. \A d \in Contract : Forward(d)
    BY <1>1, <2>1, <2>2, <2>3, <2>6 DEF Forward, Said
  <2>8. Open = {} /\ Open' \subseteq {c}
    BY <1>4, <2>2 DEF Open, Approvable, ActiveExecution
  <2>9. Proposed' \subseteq Proposed
    BY <2>1 DEF Proposed
  <2>10. Recorded'
    BY <1>0, <1>2 DEF Recorded, recordVars
  <2> QED BY <1>4, <2>5, <2>7, <2>8, <2>9, <2>10 DEF StepOK, Turns
<1> QED BY <1>3, <1>4 DEF Approve, ApproveLost

\* An execution that changes its state goes forward, and the proposals stay.
LEMMA ExecSteps ==
  ASSUME PlanInv, ContractTypeOK', Recorded', UNCHANGED <<mode, ran, rt, after, wire>>,
         overtaken \subseteq overtaken',
         \A c \in Contract :
           /\ status'[c] = status[c] \/ (status[c] = "pending" /\ status'[c] # "pending")
           /\ pend'[c] = "completed" => pend[c] = "completed"
           /\ Late(c)' => Late(c) \/ (exec[c] = "queued" /\ exec'[c] = "running")
           /\ \/ exec'[c] = exec[c]
              \/ exec[c] = "queued" /\ exec'[c] = "running"
              \/ /\ exec[c] \in {"queued", "running"} /\ exec'[c] \in Ended
                 /\ exec'[c] = "completed" => pend[c] = "completed"
                 /\ exec[c] = "running" /\ Late(c) => c \in overtaken'
  PROVE  StepOK
<1>1. \A c \in Contract : Forward(c)
  BY DEF Forward, Said
<1>2. Open' \subseteq Open /\ Proposed' \subseteq Proposed
  BY DEF Open, Proposed, Ended
<1> QED BY <1>1, <1>2 DEF StepOK, Turns

\* claim_execution answers for a queued row only, whether the answer is lost or not.
LEMMA ClaimSteps ==
  ASSUME PlanInv, NEW c \in Contract, Claim(c) \/ ClaimLost(c)
  PROVE  StepOK
<1>0. ContractTypeOK /\ Recorded
  BY DEF PlanInv
<1>1. /\ UNCHANGED <<status, mode, running, up, turnVars, retry, drain, owner, started, recordVars, runVars, overtaken>>
      /\ claimed' \subseteq Contract /\ losses' \in 0..MaxLosses /\ UNCHANGED <<prompts, exits, aborts>>
  BY <1>0, ContractAssumption DEF Claim, ClaimLost, Lose, bounds, ContractTypeOK
<1>2. CASE ClaimExecution(c)
  <2>1. PICK s \in {"idle", "launch"} : disp' = [disp EXCEPT ![c] = s]
    BY <1>2 DEF Claim, ClaimLost
  <2>2. exec' = [exec EXCEPT ![c] = "running"] /\ exec[c] = "queued"
    BY <1>2 DEF Claim, ClaimLost, ClaimExecution
  <2>3. /\ disp' \in [Contract -> DispStates]
        /\ \A d \in Contract \ {c} : disp'[d] = disp[d]
    BY <1>0, <2>1 DEF ContractTypeOK, DispStates
  <2>4. /\ exec' \in [Contract -> ExecStates] /\ exec'[c] = "running"
        /\ \A d \in Contract \ {c} : exec'[d] = exec[d]
    BY <1>0, <2>2 DEF ContractTypeOK, ExecStates
  <2>5. \A d \in Contract : exec'[d] # "none" <=> status'[d] = "approved"
    BY <1>0, <1>1, <2>2, <2>4 DEF ContractTypeOK
  <2>6. ContractTypeOK'
    BY <1>0, <1>1, <2>3, <2>4, <2>5 DEF ContractTypeOK, ExecStates, DispStates, turnVars, recordVars, runVars
  <2>7. Recorded' /\ UNCHANGED <<mode, ran, rt, wire, after, pend>>
    BY <1>0, <1>1 DEF Recorded, recordVars, runVars, turnVars
  <2> QED BY <1>1, <2>2, <2>3, <2>4, <2>6, <2>7, ExecSteps DEF Late
<1>3. CASE ~ClaimExecution(c)
  <2>1. disp' = [disp EXCEPT ![c] = "idle"] /\ exec' = exec
    BY <1>3 DEF Claim, ClaimLost
  <2>2. disp' \in [Contract -> DispStates] /\ \A d \in Contract : Late(d)' => Late(d)
    BY <1>0, <2>1 DEF ContractTypeOK, DispStates, Late
  <2>3. ContractTypeOK'
    BY <1>0, <1>1, <2>1, <2>2 DEF ContractTypeOK, ExecStates, DispStates, turnVars, recordVars, runVars
  <2> QED BY <1>0, <1>1, <2>1, <2>2, <2>3, QuietStep DEF Recorded, recordVars, runVars, Said, turnVars
<1> QED BY <1>2, <1>3

\* finish_execution ends what is open, with the outcome Main keeps.
LEMMA RecordSteps ==
  ASSUME PlanInv, NEW c \in Contract, RecordDone(c) \/ RecordLost(c)
  PROVE  StepOK
<1>0. ContractTypeOK /\ Recorded
  BY DEF PlanInv
<1>1. /\ c \in recording /\ recording' = recording \ {c} /\ FinishExecution(c) /\ Overtakes
      /\ UNCHANGED <<status, mode, running, up, turnVars, disp, retry, drain, runVars, prompts, exits, aborts>>
  BY DEF RecordDone, RecordLost, Lose, bounds, dispVars
<1>2. pend[c] \in Ended
  BY <1>0, <1>1 DEF Recorded, ContractTypeOK
<1>3. /\ losses' \in 0..MaxLosses /\ finished' \subseteq Contract /\ started' \subseteq Contract
      /\ claimed' \subseteq Contract /\ owner' \in Contract \cup {None}
      /\ pend' = pend \/ pend' = [pend EXCEPT ![c] = "none"]
  BY <1>0, ContractAssumption DEF RecordDone, RecordLost, Lose, bounds, dispVars, ContractTypeOK
<1>4. /\ pend' \in [Contract -> {"none"} \cup Ended]
      /\ \A d \in Contract : pend'[d] = pend[d] \/ (d = c /\ pend'[d] = "none")
  BY <1>0, <1>3 DEF ContractTypeOK
<1>5. Recorded'
  BY <1>0, <1>1, <1>4 DEF Recorded, ContractTypeOK
<1>6. /\ exec' \in [Contract -> ExecStates]
      /\ \A d \in Contract : \/ exec'[d] = exec[d]
                             \/ exec[d] \in {"queued", "running"} /\ exec'[d] \in Ended /\ exec'[d] = pend[d]
  <2>1. exec \in [Contract -> ExecStates]
    BY <1>0 DEF ContractTypeOK, ExecStates
  <2>2. CASE exec[c] \in {"queued", "running"}
    <3>1. exec' = [exec EXCEPT ![c] = pend[c]]
      BY <1>1, <2>2 DEF FinishExecution
    <3>2. exec'[c] = pend[c] /\ \A d \in Contract \ {c} : exec'[d] = exec[d]
      BY <2>1, <3>1
    <3>3. exec' \in [Contract -> ExecStates]
      BY <1>2, <2>1, <3>1 DEF ExecStates
    <3> QED BY <1>2, <2>2, <3>2, <3>3
  <2>3. CASE exec[c] \notin {"queued", "running"}
    BY <1>1, <2>1, <2>3 DEF FinishExecution
  <2> QED BY <2>2, <2>3
<1>7. /\ overtaken' \subseteq Contract /\ overtaken \subseteq overtaken'
      /\ \A d \in Contract : exec[d] = "running" /\ exec'[d] \in Ended /\ Late(d) => d \in overtaken'
  BY <1>0, <1>1 DEF Overtakes, ContractTypeOK, Late
<1>8. \A d \in Contract : exec'[d] # "none" <=> status'[d] = "approved"
  BY <1>0, <1>1, <1>6 DEF ContractTypeOK, Ended
<1>9. ContractTypeOK'
  BY <1>0, <1>1, <1>3, <1>4, <1>6, <1>7, <1>8 DEF ContractTypeOK, ExecStates, turnVars, runVars
<1>10. UNCHANGED <<mode, ran, rt, wire, after, disp>>
  BY <1>1 DEF turnVars, runVars
<1> QED BY <1>1, <1>4, <1>5, <1>6, <1>7, <1>9, <1>10, ExecSteps DEF Late

\* A boot interrupts what was open.
LEMMA BootSteps ==
  ASSUME PlanInv, HostStart
  PROVE  StepOK
<1>0. ContractTypeOK /\ Recorded
  BY DEF PlanInv
<1>1. /\ status' \in [Contract -> Statuses]
      /\ \A c \in Contract : status'[c] = status[c] \/ (status[c] = "pending" /\ status'[c] = "interrupted")
  BY <1>0 DEF HostStart, Boot, ContractTypeOK, Statuses
<1>2. /\ exec' \in [Contract -> ExecStates]
      /\ \A c \in Contract : \/ exec'[c] = exec[c]
                             \/ exec[c] \in {"queued", "running"} /\ exec'[c] = "interrupted"
  <2>1. exec' = [c \in Contract |-> IF exec[c] \in {"queued", "running"} THEN "interrupted" ELSE exec[c]]
    BY DEF HostStart, Boot
  <2>2. exec \in [Contract -> ExecStates] /\ "interrupted" \in Ended
    BY <1>0 DEF ContractTypeOK, ExecStates, Ended
  <2>3. exec' \in [Contract -> ExecStates]
    BY <2>1, <2>2 DEF ExecStates
  <2>4. \A c \in Contract : \/ exec'[c] = exec[c]
                            \/ exec[c] \in {"queued", "running"} /\ exec'[c] = "interrupted"
    BY <2>1
  <2> QED BY <2>3, <2>4
<1>3. /\ overtaken' \subseteq Contract /\ overtaken \subseteq overtaken'
      /\ \A c \in Contract : exec[c] = "running" /\ exec'[c] \in Ended /\ Late(c) => c \in overtaken'
  BY <1>0 DEF HostStart, Overtakes, ContractTypeOK, Late
<1>4. \A c \in Contract : exec'[c] # "none" <=> status'[c] = "approved"
  <2>1. \A c \in Contract : exec[c] # "none" <=> status[c] = "approved"
    BY <1>0 DEF ContractTypeOK
  <2> QED BY <1>1, <1>2, <2>1
<1>5. recording' \subseteq Contract /\ Recorded' /\ drain' \in BOOLEAN
  BY <1>0 DEF HostStart, Drain, Recorded, ContractTypeOK
<1>6. /\ running' = None /\ up' = TRUE
      /\ UNCHANGED <<mode, turnVars, disp, retry, claimed, owner, started, finished, pend, runVars, bounds>>
  BY DEF HostStart, Boot
<1>7. ContractTypeOK'
  BY <1>0, <1>1, <1>2, <1>3, <1>4, <1>5, <1>6 DEF ContractTypeOK, ExecStates, Statuses, turnVars, runVars, bounds
<1>8. UNCHANGED <<mode, ran, rt, wire, after, disp, pend>>
  BY <1>6 DEF turnVars, runVars
<1>9. "interrupted" \in Ended /\ "interrupted" # "completed"
  BY DEF Ended
<1> QED BY <1>1, <1>2, <1>3, <1>5, <1>7, <1>8, <1>9, ExecSteps DEF Late

-----------------------------------------------------------------------------
(* The step that runs an execution *)

\* The sidecar is idle and takes the execution.
Runs(c) == Execute(c) /\ side /\ rt = None

\* What it leaves alone, and what is left of the dispatch.
LEMMA RunForm ==
  ASSUME PlanInv, NEW c \in Contract, Runs(c)
  PROVE  /\ UNCHANGED <<status, exec, mode, pend, recording, wire, after, overtaken>>
         /\ ran[c] = 0 /\ (exec[c] = "running" \/ c \in overtaken)
         /\ ran' \in [Contract -> Nat] /\ ran'[c] = 1 /\ \A d \in Contract \ {c} : ran'[d] = ran[d]
         /\ disp' \in [Contract -> DispStates] /\ disp'[c] = "idle"
         /\ \A d \in Contract \ {c} : disp'[d] = disp[d]
<1>0. ContractTypeOK /\ RunOf(c) /\ Late(c)
  BY DEF PlanInv, Runs, Execute, Late
<1>1. ran[c] = 0 /\ (exec[c] = "running" \/ c \in overtaken)
  BY <1>0 DEF RunOf
<1>2. ran' = [ran EXCEPT ![c] = @ + 1] /\ disp' = [disp EXCEPT ![c] = "idle"]
  BY DEF Runs, Execute
<1>3. ran' \in [Contract -> Nat] /\ ran'[c] = 1 /\ \A d \in Contract \ {c} : ran'[d] = ran[d]
  BY <1>0, <1>1, <1>2 DEF ContractTypeOK
<1>4. /\ disp' \in [Contract -> DispStates] /\ disp'[c] = "idle"
      /\ \A d \in Contract \ {c} : disp'[d] = disp[d]
  BY <1>0, <1>2 DEF ContractTypeOK, DispStates
<1>5. UNCHANGED <<status, exec, mode, pend, recording, wire, after, overtaken>>
  BY DEF Runs, Execute, hostVars, recordVars
<1> QED BY <1>1, <1>3, <1>4, <1>5

\* It ran never before and does not again.
LEMMA RunKeeps ==
  ASSUME PlanInv, NEW c \in Contract, Runs(c)
  PROVE  PlanInv'
<1>0. ContractTypeOK
  BY DEF PlanInv
<1>1. /\ UNCHANGED <<status, exec, mode, pend, recording, wire, after, overtaken>>
      /\ ran' \in [Contract -> Nat] /\ ran'[c] = 1 /\ \A d \in Contract \ {c} : ran'[d] = ran[d]
      /\ disp' \in [Contract -> DispStates] /\ disp'[c] = "idle"
      /\ \A d \in Contract \ {c} : disp'[d] = disp[d]
  BY RunForm
<1>2. rt' = c
  BY DEF Runs, Execute
<1>3. ContractTypeOK'
  BY <1>0, <1>1, <1>2 DEF ContractTypeOK, DispStates, Turn, Runs, Execute, hostVars, recordVars, bounds
<1>4. \A d \in Contract : RunOf(d)'
  <2> SUFFICES ASSUME NEW d \in Contract PROVE RunOf(d)'
    OBVIOUS
  <2>0. RunOf(d)
    BY DEF PlanInv
  <2>1. CASE d = c
    <3>1. exec[c] \notin {"none", "queued"}
      BY <2>0, <2>1 DEF RunOf, Runs, Execute, Late
    <3> QED BY <1>1, <2>1, <3>1 DEF RunOf, Late, Said
  <2>2. CASE d # c
    BY <1>1, <1>2, <2>0, <2>2 DEF RunOf, Late, Said
  <2> QED BY <2>1, <2>2
<1>5. Recorded' /\ OneAtATime'
  BY <1>1 DEF PlanInv, Recorded, OneAtATime, Open, Proposed
<1> QED BY <1>3, <1>4, <1>5 DEF PlanInv

\* A dispatch that does not get to run its execution.
LEMMA RefusedRun ==
  ASSUME PlanInv, NEW c \in Contract, Execute(c), ~Runs(c)
  PROVE  StepOK
<1>0. ContractTypeOK /\ Recorded
  BY DEF PlanInv
<1>1. /\ closing' \in Turn \cup {None} /\ joined' \in BOOLEAN /\ after' \subseteq Outcomes
      /\ \A d \in Contract : <<d, "completed">> \in after' => <<d, "completed">> \in after
      /\ wire' \in Seq(Turn \X Ended) /\ \A d \in Contract : Said(d)' => Said(d)
  <2>1. CASE side
    <3>1. Says(c, "interrupted") /\ c \in Turn /\ UNCHANGED <<closing, after, joined>>
      BY <2>1 DEF Execute, Runs, Turn
    <3>2. wire' \in Seq(Turn \X Ended) /\ \A d \in Contract : Said(d)' => Said(d)
      BY <1>0, <3>1, SaysForm DEF Ended
    <3> QED BY <1>0, <3>1, <3>2 DEF ContractTypeOK, Outcomes
  <2>2. CASE ~side
    <3>1. Fails(c) /\ wire' = wire
      BY <2>2 DEF Execute
    <3>2. wire' \in Seq(Turn \X Ended) /\ \A d \in Contract : Said(d)' => Said(d)
      BY <1>0, <3>1 DEF ContractTypeOK, Said
    <3> QED BY <1>0, <3>1, <3>2, FailsForm
  <2> QED BY <2>1, <2>2
<1>2. disp' = [disp EXCEPT ![c] = "idle"] /\ UNCHANGED <<rt, ran>>
  BY DEF Execute, Fails, Runs
<1>3. disp' \in [Contract -> DispStates] /\ \A d \in Contract : Late(d)' => Late(d)
  BY <1>0, <1>2 DEF ContractTypeOK, DispStates, Late
<1>4. /\ UNCHANGED <<hostVars, up, active, submitting, prompt, stop, retry, drain, claimed, owner, started>>
      /\ UNCHANGED <<recordVars, side, unheard, overtaken, bounds>>
  BY DEF Execute
<1>5. ContractTypeOK'
  BY <1>0, <1>1, <1>2, <1>3, <1>4 DEF ContractTypeOK, DispStates, Outcomes, hostVars, recordVars, bounds
<1> QED BY <1>0, <1>1, <1>2, <1>3, <1>4, <1>5, QuietStep DEF hostVars, recordVars, Recorded

-----------------------------------------------------------------------------
(* The specification *)

\* A step runs an execution or does what StepOK says.
LEMMA EveryStep ==
  ASSUME PlanInv, [ContractNext]_contractVars
  PROVE  StepOK \/ \E c \in Contract : Runs(c)
<1>1. CASE UNCHANGED contractVars
  <2>1. ContractTypeOK' /\ Recorded'
    BY <1>1 DEF PlanInv, ContractTypeOK, Recorded, contractVars, hostVars, turnVars, dispVars, recordVars,
                runVars, bounds
  <2> QED BY <1>1, <2>1, QuietStep
          DEF contractVars, hostVars, turnVars, dispVars, recordVars, runVars, Said, Late
<1>2. CASE DispatchStep
  BY <1>2, DispatchSteps, ClaimSteps, RefusedRun DEF DispatchStep
<1>3. CASE RecordStep \/ CloseDone \/ DrainQueued \/ Starts
  BY <1>3, TurnSteps, RecordSteps, ProcessSteps, BootSteps DEF RecordStep, Starts
<1>4. CASE \E c \in Contract : RecordLost(c) \/ ClaimLost(c) \/ BeginLost(c) \/ ApproveLost(c)
  BY <1>4, RecordSteps, ClaimSteps, DispatchSteps, ApproveSteps
<1>5. CASE \E c \in Contract : Submit(c) \/ Expire(c) \/ Approve(c) \/ Reject(c)
  BY <1>5, SubmitStep, RefuseSteps, ApproveSteps
<1>6. CASE (\E outcome \in Ended : TurnEnds(outcome)) \/ HearEnd
  BY <1>6, ProcessSteps, HearStep
<1>7. CASE PromptCheck \/ PromptOpen \/ Stop \/ StopDone
  BY <1>7, TurnSteps
<1>8. CASE Enter
  BY <1>8, EnterStep
<1>9. CASE StopRun \/ HostExit \/ SidecarExit \/ MainExit
  BY <1>9, StopSteps, ProcessSteps
<1> QED BY <1>1, <1>2, <1>3, <1>4, <1>5, <1>6, <1>7, <1>8, <1>9 DEF ContractNext

\* At the start nothing has been proposed.
LEMMA PlanInvInit ==
  ASSUME ContractInit PROVE PlanInv
<1>1. ContractTypeOK
  <2>1. stop \in [at : {"idle", "sent", "back"}, on : Contract \cup {None}]
    BY DEF ContractInit, NoStop
  <2>2. prompts \in 0..MaxPrompts /\ exits \in 0..MaxExits /\ losses \in 0..MaxLosses /\ aborts \in 0..MaxAborts
    BY ContractAssumption DEF ContractInit
  <2>3. /\ status \in [Contract -> Statuses] /\ exec \in [Contract -> ExecStates]
        /\ disp \in [Contract -> DispStates] /\ pend \in [Contract -> {"none"} \cup Ended]
        /\ ran \in [Contract -> Nat] /\ \A c \in Contract : exec[c] # "none" <=> status[c] = "approved"
    BY DEF ContractInit, Statuses, ExecStates, DispStates
  <2>4. wire \in Seq(Turn \X Ended)
    BY DEF ContractInit
  <2> QED BY <2>1, <2>2, <2>3, <2>4 DEF ContractInit, ContractTypeOK, Statuses, ExecStates, DispStates
<1>2. \A c \in Contract : RunOf(c)
  BY ContractAssumption DEF ContractInit, RunOf, Late, Said
<1>3. Recorded /\ OneAtATime
  BY DEF ContractInit, Recorded, OneAtATime, Open, Proposed
<1> QED BY <1>1, <1>2, <1>3 DEF PlanInv

\* Every step keeps the invariant.
LEMMA PlanInvNext ==
  ASSUME PlanInv, [ContractNext]_contractVars PROVE PlanInv'
BY EveryStep, ForwardKeeps, RunKeeps

\* What a set whose members are equal counts.
LEMMA AtMostOne ==
  ASSUME NEW S, \A x, y \in S : x = y
  PROVE  Cardinality(S) <= 1
<1>1. CASE S = {}
  BY <1>1, FS_EmptySet
<1>2. CASE S # {}
  <2>1. PICK x : S = {x}
    BY <1>2
  <2> QED BY <2>1, FS_Singleton
<1> QED BY <1>1, <1>2

\* An approved plan is run at most once, only an approved one is, and what is
\* recorded as completed has been: whatever exits, is lost, is clicked twice or
\* is retried.
THEOREM PlansRunOnce == ContractSpec => []RunsOnce
<1>1. ContractInit => PlanInv
  BY PlanInvInit
<1>2. PlanInv /\ [ContractNext]_contractVars => PlanInv'
  BY PlanInvNext
<1>3. PlanInv => RunsOnce
  <2> SUFFICES ASSUME PlanInv, NEW c \in Contract
               PROVE  /\ ran[c] <= 1
                      /\ ran[c] = 1 => status[c] = "approved"
                      /\ exec[c] = "completed" => ran[c] = 1
    BY DEF RunsOnce
  <2>1. RunOf(c) /\ (exec[c] # "none" <=> status[c] = "approved")
    BY DEF PlanInv, ContractTypeOK
  <2> QED BY <2>1 DEF RunOf
<1> QED BY <1>1, <1>2, <1>3, PTL DEF ContractSpec

\* A session carries out one contract at a time, in agent mode, and has one
\* proposal before the user at a time.
THEOREM OnePlanAtATime == ContractSpec => []ContractInv
<1>1. ContractInit => PlanInv
  BY PlanInvInit
<1>2. PlanInv /\ [ContractNext]_contractVars => PlanInv'
  BY PlanInvNext
<1>3. PlanInv => ContractInv
  <2> SUFFICES ASSUME PlanInv PROVE ContractInv
    OBVIOUS
  <2>1. Cardinality(Open) <= 1 /\ Cardinality(Proposed) <= 1
    BY AtMostOne DEF PlanInv, OneAtATime
  <2>2. ActiveExecution => mode = "agent"
    BY DEF PlanInv, OneAtATime, Open, ActiveExecution
  <2> QED BY <2>1, <2>2 DEF PlanInv, ContractInv, OneContract, Open, Proposed
<1> QED BY <1>1, <1>2, <1>3, PTL DEF ContractSpec

\* A decision and an outcome are final, and an execution that has ended is not
\* started after all, unless its dispatch was past the claim when it ended.
THEOREM DecisionsStand == ContractSpec => SettledStays
<1> DEFINE Stays == \A c \in Contract :
       /\ status[c] \notin {"none", "pending"} => status'[c] = status[c]
       /\ exec[c] \in Ended => exec'[c] = exec[c]
       /\ exec[c] # "running" /\ c \notin overtaken => ran'[c] = ran[c]
<1>1. ContractInit => PlanInv
  BY PlanInvInit
<1>2. PlanInv /\ [ContractNext]_contractVars => PlanInv'
  BY PlanInvNext
<1>3. PlanInv /\ [ContractNext]_contractVars => Stays
  <2> SUFFICES ASSUME PlanInv, [ContractNext]_contractVars PROVE Stays
    OBVIOUS
  <2>1. CASE StepOK
    BY <2>1 DEF StepOK, Forward, Ended
  <2>2. ASSUME NEW c \in Contract, Runs(c) PROVE Stays
    BY <2>2, RunForm
  <2> QED BY <2>1, <2>2, EveryStep
<1> QED BY <1>1, <1>2, <1>3, PTL DEF ContractSpec, SettledStays

=============================================================================
