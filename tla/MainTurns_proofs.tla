-------------------------- MODULE MainTurns_proofs --------------------------
(***************************************************************************)
(* Proofs about the durable turns of MainTurns, for any number of turns    *)
(* and of concurrent prompts: a running row has an owner, and an event     *)
(* closes its own turn.                                                    *)
(***************************************************************************)
EXTENDS MainTurns, SequenceTheorems, TLAPS

-----------------------------------------------------------------------------
(* The inductive invariant *)

\* A prompt that has not opened its turn yet is the only one to know it: the row
\* is not there, or runs, and neither activeTurns nor a finalization has it.
Unopened(p) ==
  /\ prompt[p].phase # "idle" => prompt[p].run \in Run
  /\ prompt[p].phase = "launch" => row[prompt[p].run] = "none"
  /\ prompt[p].phase = "begun" =>
       row[prompt[p].run] = "running" /\ prompt[p].run \notin {activeRun, fin.run}

\* Two prompts never have the same turn.
TurnsApart ==
  \A p, q \in Prompter :
    p # q /\ prompt[p].phase # "idle" /\ prompt[q].phase # "idle" => prompt[p].run # prompt[q].run

\* What is active or being closed has a row; one that is closed does not run any more.
Opened ==
  /\ activeRun # NoRun => row[activeRun] # "none"
  /\ fin # NoFin => row[fin.run] # "none"
  /\ fin.phase = "done" /\ losses = 0 => row[fin.run] # "running"

\* The INSERT that begins a turn refuses a second running row.
OneRow == \A r, s \in Running : r = s

TurnInv ==
  /\ MainTypeOK
  /\ \A p \in Prompter : Unopened(p)
  /\ TurnsApart /\ Opened /\ OneRow /\ RunningRowOwned /\ ClosesOwnTurn

-----------------------------------------------------------------------------
(* Steps *)

FinRec == [run : Run, status : RowStatus \ {"none", "running"},
           cause : Run \cup {NoRun}, phase : {"sent", "done"}]
PromptRec == [phase : PromptPhase, run : Run \cup {NoRun}]
Event == [type : EventType, run : Run]

\* What a step that only moves prompts which have begun, or have ended, and asks
\* for a finalization may change.
Moves(p) ==
  /\ prompt'[p].run = prompt[p].run \/ prompt'[p].phase = "idle"
  /\ prompt'[p].phase \in {"launch", "begun"} => prompt'[p] = prompt[p]
  /\ prompt[p].phase = "begun" => prompt'[p] = prompt[p]
  /\ prompt'[p].phase # "idle" => prompt[p].phase # "idle"

\* The finalization that is asked for is of the active turn.
LEMMA MovesKeep ==
  ASSUME TurnInv, MainTypeOK', UNCHANGED <<row, activeRun, losses, codex>>,
         \A p \in Prompter : Moves(p),
         \/ fin' = fin
         \/ /\ fin' = [run |-> activeRun, status |-> fin'.status, cause |-> fin'.cause, phase |-> "sent"]
            /\ activeRun # NoRun /\ (codex /\ fin'.cause # NoRun => fin'.cause = activeRun)
  PROVE  TurnInv'
<1>1. fin'.run \in {fin.run, activeRun} /\ (fin' = fin \/ (fin'.run = activeRun /\ fin'.phase = "sent"))
  OBVIOUS
<1>2. \A p \in Prompter : Unopened(p)'
  BY <1>1 DEF TurnInv, Unopened, Moves
<1>3. TurnsApart'
  BY DEF TurnInv, TurnsApart, Moves
<1>4. Opened'
  BY <1>1 DEF TurnInv, Opened
<1>5. OneRow' /\ Running' = Running
  BY DEF TurnInv, OneRow, Running
<1>6. RunningRowOwned'
  BY <1>5 DEF TurnInv, RunningRowOwned, Moves
<1>7. ClosesOwnTurn'
  BY DEF TurnInv, ClosesOwnTurn
<1> QED BY <1>2, <1>3, <1>4, <1>5, <1>6, <1>7 DEF TurnInv

\* finishTurn in the form MovesKeep asks for.
LEMMA FinishForm ==
  ASSUME MainTypeOK, NEW status \in {"completed", "aborted", "error"}, NEW cause \in Run \cup {NoRun},
         FinishTurn(status, cause)
  PROVE  /\ fin' \in {NoFin} \cup FinRec
         /\ \/ fin' = fin
            \/ /\ fin' = [run |-> activeRun, status |-> fin'.status, cause |-> fin'.cause, phase |-> "sent"]
               /\ activeRun # NoRun /\ fin'.cause = cause
BY DEF MainTypeOK, FinishTurn, FinRec, RowStatus

\* A prompt takes a step in which no turn begins or opens.
LEMMA OnePrompt ==
  ASSUME MainTypeOK, NEW p \in Prompter, NEW phase \in PromptPhase \ {"idle", "launch", "begun"},
         prompt' = [prompt EXCEPT ![p].phase = phase],
         prompt[p].phase \notin {"idle", "begun"}
  PROVE  prompt' \in [Prompter -> PromptRec] /\ \A q \in Prompter : Moves(q)
<1>1. prompt \in [Prompter -> PromptRec]
  BY DEF MainTypeOK, PromptRec
<1>2. [prompt[p] EXCEPT !.phase = phase] \in PromptRec
  BY <1>1 DEF PromptRec
<1>3. /\ prompt' \in [Prompter -> PromptRec] /\ prompt'[p].phase = phase
      /\ prompt'[p].run = prompt[p].run /\ \A q \in Prompter \ {p} : prompt'[q] = prompt[q]
  BY <1>1, <1>2 DEF PromptRec
<1> QED BY <1>3 DEF Moves

LEMMA PromptMoves ==
  ASSUME TurnInv, NEW p \in Prompter,
         PromptFails(p) \/ CallSidecar(p) \/ SidecarPrompt(p) \/ PromptEnds(p)
  PROVE  TurnInv'
<1>0. MainTypeOK /\ Unopened(p)
  BY DEF TurnInv
<1>1. CASE PromptFails(p)
  <2>1. PICK phase \in {"failed", "closing"} : prompt' = [prompt EXCEPT ![p].phase = phase]
    BY <1>1 DEF PromptFails
  <2>2. prompt' \in [Prompter -> PromptRec] /\ \A q \in Prompter : Moves(q)
    BY <1>0, <1>1, <2>1, OnePrompt DEF PromptFails, PromptPhase
  <2>3. FinishTurn("error", NoRun)
    BY <1>1 DEF PromptFails
  <2>4. MainTypeOK'
    BY <1>0, <1>1, <2>2, <2>3, FinishForm DEF MainTypeOK, PromptFails, ghosts, FinRec, PromptRec
  <2> QED BY <1>0, <1>1, <2>2, <2>3, <2>4, FinishForm, MovesKeep DEF PromptFails, ghosts
<1>2. CASE CallSidecar(p)
  <2>1. prompt' \in [Prompter -> PromptRec] /\ \A q \in Prompter : Moves(q)
    BY <1>0, <1>2, OnePrompt DEF CallSidecar, PromptPhase
  <2>2. MainTypeOK'
    BY <1>0, <1>2, <2>1 DEF MainTypeOK, CallSidecar, ghosts, PromptRec
  <2> QED BY <1>2, <2>1, <2>2, MovesKeep DEF CallSidecar, ghosts
<1>3. CASE SidecarPrompt(p)
  <2>1. prompt' \in [Prompter -> PromptRec] /\ \A q \in Prompter : Moves(q)
    BY <1>0, <1>3, OnePrompt DEF SidecarPrompt, PromptPhase
  <2>2. prompt[p].run \in Run
    BY <1>0, <1>3 DEF Unopened, SidecarPrompt
  <2>3. wire' \in Seq(Event)
    <3>1. [type |-> IF rt = NoRun THEN "start" ELSE "error", run |-> prompt[p].run] \in Event
      BY <2>2 DEF Event, EventType
    <3> QED BY <1>0, <1>3, <3>1, AppendProperties DEF SidecarPrompt, MainTypeOK, Event
  <2>4. MainTypeOK'
    BY <1>0, <1>3, <2>1, <2>2, <2>3 DEF MainTypeOK, SidecarPrompt, ghosts, PromptRec, Event
  <2> QED BY <1>3, <2>1, <2>4, MovesKeep DEF SidecarPrompt, ghosts
<1>4. CASE PromptEnds(p)
  <2>1. /\ prompt' \in [Prompter -> PromptRec] /\ prompt'[p] = NoPrompt
        /\ \A q \in Prompter \ {p} : prompt'[q] = prompt[q]
    BY <1>0, <1>4 DEF PromptEnds, MainTypeOK, PromptRec, NoPrompt, PromptPhase
  <2>2. \A q \in Prompter : Moves(q)
    BY <1>4, <2>1 DEF Moves, NoPrompt, PromptEnds
  <2>3. MainTypeOK'
    BY <1>0, <1>4, <2>1 DEF MainTypeOK, PromptEnds, ghosts, PromptRec
  <2> QED BY <1>4, <2>2, <2>3, MovesKeep DEF PromptEnds, ghosts
<1> QED BY <1>1, <1>2, <1>3, <1>4

\* A prompt that begins takes a turn no row and no other prompt has.
LEMMA BeginKeeps ==
  ASSUME TurnInv, NEW p \in Prompter, PromptBegin(p)
  PROVE  TurnInv'
<1> DEFINE r == CHOOSE u \in Unused : TRUE
<1>0. MainTypeOK /\ \A q \in Prompter : Unopened(q)
  BY DEF TurnInv
<1>1. r \in Unused
  BY DEF PromptBegin
<1>2. r \in Run /\ row[r] = "none" /\ \A q \in Prompter : prompt[q].run # r
  BY <1>1 DEF Unused
<1>3. prompt' = [prompt EXCEPT ![p] = [phase |-> "launch", run |-> r]] /\ prompt[p].phase = "idle"
  BY DEF PromptBegin, NoPrompt
<1> HIDE DEF r
<1>4. [phase |-> "launch", run |-> r] \in PromptRec
  BY <1>2 DEF PromptRec, PromptPhase
<1>5. prompt \in [Prompter -> PromptRec]
  BY <1>0 DEF MainTypeOK, PromptRec
<1>6. /\ prompt' \in [Prompter -> PromptRec] /\ prompt'[p] = [phase |-> "launch", run |-> r]
      /\ \A q \in Prompter \ {p} : prompt'[q] = prompt[q]
  BY <1>3, <1>4, <1>5
<1>7. UNCHANGED <<row, activeRun, fin, losses, codex>>
  BY DEF PromptBegin, ghosts
<1>8. MainTypeOK'
  BY <1>0, <1>6 DEF MainTypeOK, PromptRec, PromptBegin, ghosts
<1>9. \A q \in Prompter : Unopened(q)'
  BY <1>0, <1>2, <1>6, <1>7 DEF Unopened
<1>10. TurnsApart'
  BY <1>2, <1>6 DEF TurnInv, TurnsApart
<1>11. Opened' /\ OneRow' /\ ClosesOwnTurn' /\ Running' = Running
  BY <1>7 DEF TurnInv, Opened, OneRow, ClosesOwnTurn, Running
<1>12. RunningRowOwned'
  <2> SUFFICES ASSUME losses = 0, NEW s \in Running, activeRun # s
               PROVE  \E q \in Prompter : prompt'[q] = [phase |-> "begun", run |-> s]
    BY <1>7, <1>11 DEF RunningRowOwned
  <2>1. PICK q \in Prompter : prompt[q] = [phase |-> "begun", run |-> s]
    BY DEF TurnInv, RunningRowOwned
  <2> QED BY <2>1, <1>3, <1>6
<1> QED BY <1>8, <1>9, <1>10, <1>11, <1>12 DEF TurnInv

\* The INSERT of a turn row finds no running one and nobody else knows the row.
LEMMA InsertKeeps ==
  ASSUME TurnInv, NEW p \in Prompter, BeginTurn(p), Running = {}
  PROVE  TurnInv'
<1> DEFINE r == prompt[p].run
<1>0. MainTypeOK /\ (\A q \in Prompter : Unopened(q)) /\ Opened
  BY DEF TurnInv
<1>1. /\ row' = [row EXCEPT ![r] = "running"] /\ prompt' = [prompt EXCEPT ![p].phase = "begun"]
      /\ prompt[p].phase = "launch"
  BY DEF BeginTurn
<1>2. r \in Run /\ row[r] = "none"
  BY <1>0, <1>1 DEF Unopened
<1>3. r \notin {activeRun, fin.run}
  BY <1>0, <1>2, MainAssumption DEF Opened, NoFin
<1>4. prompt \in [Prompter -> PromptRec]
  BY <1>0 DEF MainTypeOK, PromptRec
<1>5. [prompt[p] EXCEPT !.phase = "begun"] = [phase |-> "begun", run |-> r]
  BY <1>4 DEF PromptRec
<1>6. [phase |-> "begun", run |-> r] \in PromptRec
  BY <1>2 DEF PromptRec, PromptPhase
<1>7. prompt' = [prompt EXCEPT ![p] = [phase |-> "begun", run |-> r]]
  BY <1>1, <1>5, <1>4
<1>8. /\ prompt' \in [Prompter -> PromptRec] /\ prompt'[p] = [phase |-> "begun", run |-> r]
      /\ \A q \in Prompter \ {p} : prompt'[q] = prompt[q]
  BY <1>4, <1>6, <1>7
<1>9. /\ row' \in [Run -> RowStatus] /\ row'[r] = "running"
      /\ \A s \in Run \ {r} : row'[s] = row[s]
  BY <1>0, <1>1, <1>2 DEF MainTypeOK, RowStatus
<1>10. UNCHANGED <<activeRun, fin, losses, codex>>
  BY DEF BeginTurn, ghosts
<1>11. MainTypeOK'
  BY <1>0, <1>8, <1>9 DEF MainTypeOK, PromptRec, BeginTurn, ghosts
<1>12. Running' = {r}
  BY <1>2, <1>9 DEF Running
<1>13. TurnsApart'
  <2>1. prompt'[p].run = prompt[p].run /\ prompt[p].phase # "idle"
    BY <1>1, <1>8
  <2>2. \A q \in Prompter : prompt'[q].run = prompt[q].run
                           /\ (prompt'[q].phase # "idle" => prompt[q].phase # "idle")
    BY <1>8, <2>1
  <2>3. TurnsApart
    BY DEF TurnInv
  <2> QED BY <2>2, <2>3 DEF TurnsApart
<1> HIDE DEF r
<1>14. \A q \in Prompter : Unopened(q)'
  <2> SUFFICES ASSUME NEW q \in Prompter PROVE Unopened(q)'
    OBVIOUS
  <2>1. CASE q = p
    BY <2>1, <1>2, <1>3, <1>8, <1>9, <1>10 DEF Unopened
  <2>2. CASE q # p
    <3>1. prompt'[q] = prompt[q] /\ Unopened(q)
      BY <1>0, <1>8, <2>2
    <3>2. prompt[q].phase # "idle" => prompt[q].run # r
      BY <1>1, <1>8, <1>13, <2>2, <3>1 DEF TurnsApart
    <3> QED BY <1>9, <1>10, <3>1, <3>2 DEF Unopened
  <2> QED BY <2>1, <2>2
<1>15. Opened'
  <2>1. activeRun # NoRun => activeRun \in Run \ {r}
    BY <1>0, <1>3 DEF MainTypeOK
  <2>2. fin # NoFin => fin.run \in Run \ {r}
    BY <1>0, <1>3 DEF MainTypeOK
  <2>3. fin.phase = "done" => fin # NoFin
    BY DEF NoFin
  <2> QED BY <1>0, <1>9, <1>10, <2>1, <2>2, <2>3 DEF Opened
<1>16. OneRow' /\ RunningRowOwned'
  BY <1>8, <1>12 DEF OneRow, RunningRowOwned
<1>17. ClosesOwnTurn'
  BY <1>10 DEF TurnInv, ClosesOwnTurn
<1> QED BY <1>11, <1>13, <1>14, <1>15, <1>16, <1>17 DEF TurnInv

\* A turn that is refused never was.
LEMMA RefusedKeeps ==
  ASSUME TurnInv, NEW p \in Prompter, BeginTurn(p), Running # {}
  PROVE  TurnInv'
<1>0. MainTypeOK
  BY DEF TurnInv
<1>1. prompt' \in [Prompter -> PromptRec] /\ \A q \in Prompter : Moves(q)
  BY <1>0, OnePrompt DEF BeginTurn, PromptPhase
<1>2. MainTypeOK'
  BY <1>0, <1>1 DEF MainTypeOK, BeginTurn, ghosts, PromptRec
<1> QED BY <1>1, <1>2, MovesKeep DEF BeginTurn, ghosts

\* A lost answer leaves a row nobody owns, which only a loss may.
LEMMA LostBeginKeeps ==
  ASSUME TurnInv, NEW p \in Prompter, BeginTurnLost(p)
  PROVE  TurnInv'
<1>0. MainTypeOK /\ \A q \in Prompter : Unopened(q)
  BY DEF TurnInv
<1>1. prompt \in [Prompter -> PromptRec]
  BY <1>0 DEF MainTypeOK, PromptRec
<1>2. [prompt[p] EXCEPT !.phase = "failed"] = [phase |-> "failed", run |-> prompt[p].run]
  BY <1>1 DEF PromptRec
<1>3. [phase |-> "failed", run |-> prompt[p].run] \in PromptRec
  BY <1>1 DEF PromptRec, PromptPhase
<1>4. prompt' = [prompt EXCEPT ![p] = [phase |-> "failed", run |-> prompt[p].run]]
  BY <1>1, <1>2 DEF BeginTurnLost
<1>5. /\ prompt' \in [Prompter -> PromptRec] /\ prompt'[p] = [phase |-> "failed", run |-> prompt[p].run]
      /\ \A q \in Prompter \ {p} : prompt'[q] = prompt[q]
  BY <1>1, <1>3, <1>4
<1>6. losses' \in 0..MaxLosses /\ losses' # 0 /\ prompt[p].phase = "begun"
  BY <1>0, MainAssumption DEF MainTypeOK, BeginTurnLost, Lose
<1>7. UNCHANGED <<row, activeRun, fin, codex>>
  BY DEF BeginTurnLost
<1>8. MainTypeOK'
  BY <1>0, <1>5, <1>6 DEF MainTypeOK, PromptRec, BeginTurnLost
<1>9. \A q \in Prompter : Unopened(q)'
  BY <1>0, <1>5, <1>6, <1>7 DEF Unopened
<1>10. TurnsApart'
  BY <1>5, <1>6 DEF TurnInv, TurnsApart
<1>11. Opened' /\ OneRow' /\ ClosesOwnTurn' /\ RunningRowOwned'
  BY <1>6, <1>7 DEF TurnInv, Opened, OneRow, ClosesOwnTurn, Running, RunningRowOwned
<1> QED BY <1>8, <1>9, <1>10, <1>11 DEF TurnInv

\* Main owns the row from the moment the answer is in.
LEMMA OpenKeeps ==
  ASSUME TurnInv, NEW p \in Prompter, TurnOpened(p)
  PROVE  TurnInv'
<1> DEFINE r == prompt[p].run
<1>0. MainTypeOK /\ \A q \in Prompter : Unopened(q)
  BY DEF TurnInv
<1>1. prompt \in [Prompter -> PromptRec]
  BY <1>0 DEF MainTypeOK, PromptRec
<1>2. [prompt[p] EXCEPT !.phase = "open"] = [phase |-> "open", run |-> r]
  BY <1>1 DEF PromptRec
<1>3. [phase |-> "open", run |-> r] \in PromptRec
  BY <1>1 DEF PromptRec, PromptPhase
<1>4. prompt' = [prompt EXCEPT ![p] = [phase |-> "open", run |-> r]]
  BY <1>1, <1>2 DEF TurnOpened
<1>5. /\ prompt' \in [Prompter -> PromptRec] /\ prompt'[p] = [phase |-> "open", run |-> r]
      /\ \A q \in Prompter \ {p} : prompt'[q] = prompt[q]
  BY <1>1, <1>3, <1>4
<1>6. activeRun' = r /\ prompt[p].phase = "begun" /\ UNCHANGED <<row, fin, losses, codex>>
  BY DEF TurnOpened
<1>7. r \in Run /\ row[r] = "running" /\ r # fin.run
  BY <1>0, <1>6 DEF Unopened
<1>8. joined' \in BOOLEAN
  BY <1>0 DEF MainTypeOK, TurnOpened
<1>9. MainTypeOK'
  BY <1>0, <1>5, <1>6, <1>7, <1>8 DEF MainTypeOK, PromptRec, TurnOpened
<1>10. TurnsApart'
  BY <1>5, <1>6 DEF TurnInv, TurnsApart
<1>11. \A q \in Prompter : Unopened(q)'
  <2> SUFFICES ASSUME NEW q \in Prompter PROVE Unopened(q)'
    OBVIOUS
  <2>1. CASE q = p
    BY <2>1, <1>5, <1>7 DEF Unopened
  <2>2. CASE q # p
    <3>1. prompt'[q] = prompt[q] /\ Unopened(q)
      BY <1>0, <1>5, <2>2
    <3>2. prompt[q].phase # "idle" => prompt[q].run # r
      BY <1>6, <2>2 DEF TurnInv, TurnsApart
    <3> QED BY <1>6, <3>1, <3>2 DEF Unopened
  <2> QED BY <2>1, <2>2
<1>12. Opened'
  BY <1>6, <1>7 DEF TurnInv, Opened
<1>13. OneRow' /\ ClosesOwnTurn' /\ Running' = Running
  BY <1>6 DEF TurnInv, OneRow, ClosesOwnTurn, Running
<1>14. RunningRowOwned'
  BY <1>6, <1>7, <1>13 DEF TurnInv, OneRow, RunningRowOwned, Running
<1> QED BY <1>9, <1>10, <1>11, <1>12, <1>13, <1>14 DEF TurnInv

\* endTurn closes the row of the finalization, or finds it closed.
LEMMA EndKeeps ==
  ASSUME TurnInv, EndTurn
  PROVE  TurnInv'
<1> DEFINE r == fin.run
<1>0. MainTypeOK /\ (\A q \in Prompter : Unopened(q)) /\ Opened
  BY DEF TurnInv
<1>1. fin \in FinRec /\ fin.phase = "sent" /\ fin # NoFin
  BY <1>0 DEF MainTypeOK, EndTurn, NoFin, FinRec
<1>2. /\ fin' = [run |-> r, status |-> fin.status, cause |-> fin.cause, phase |-> "done"]
      /\ fin' \in FinRec /\ fin' # NoFin
  BY <1>1 DEF EndTurn, FinRec, NoFin
<1>3. r \in Run /\ fin.status \in RowStatus \ {"none", "running"}
  BY <1>1 DEF FinRec
<1>4. /\ row' \in [Run -> RowStatus] /\ row'[r] \notin {"running", "none"}
      /\ \A s \in Run \ {r} : row'[s] = row[s]
  <2>1. CASE row[r] = "running"
    BY <1>0, <1>3, <2>1 DEF EndTurn, MainTypeOK, RowStatus
  <2>2. CASE row[r] # "running"
    BY <1>0, <1>1, <2>2 DEF EndTurn, MainTypeOK, Opened
  <2> QED BY <2>1, <2>2
<1>5. UNCHANGED <<activeRun, prompt, losses, codex>>
  BY DEF EndTurn, ghosts
<1>6. MainTypeOK'
  BY <1>0, <1>2, <1>4 DEF MainTypeOK, FinRec, EndTurn, ghosts
<1>7. Running' \subseteq Running
  BY <1>4 DEF Running
<1> HIDE DEF r
<1>8. \A q \in Prompter : Unopened(q)'
  <2> SUFFICES ASSUME NEW q \in Prompter PROVE Unopened(q)'
    OBVIOUS
  <2>1. Unopened(q) /\ fin'.run = r /\ r = fin.run
    BY <1>0, <1>2 DEF r
  <2>2. prompt[q].phase = "launch" => prompt[q].run # r
    BY <1>0, <1>1, <2>1 DEF Unopened, Opened
  <2> QED BY <1>4, <1>5, <2>1, <2>2 DEF Unopened
<1>9. Opened'
  <2>1. fin'.run = r
    BY <1>2
  <2>2. activeRun # NoRun => activeRun \in Run
    BY <1>0 DEF MainTypeOK
  <2> QED BY <1>0, <1>4, <1>5, <2>1, <2>2 DEF Opened
<1>10. TurnsApart' /\ OneRow' /\ RunningRowOwned'
  BY <1>5, <1>7 DEF TurnInv, TurnsApart, OneRow, RunningRowOwned
<1>11. ClosesOwnTurn'
  BY <1>2 DEF ClosesOwnTurn
<1> QED BY <1>6, <1>8, <1>9, <1>10, <1>11 DEF TurnInv

\* A lost endTurn leaves the row as it is, which only a loss may.
LEMMA LostEndKeeps ==
  ASSUME TurnInv, EndTurnLost
  PROVE  TurnInv'
<1>0. MainTypeOK /\ (\A q \in Prompter : Unopened(q)) /\ Opened
  BY DEF TurnInv
<1>1. fin \in FinRec /\ fin # NoFin
  BY <1>0 DEF MainTypeOK, EndTurnLost, NoFin, FinRec
<1>2. /\ fin' = [run |-> fin.run, status |-> fin.status, cause |-> fin.cause, phase |-> "done"]
      /\ fin' \in FinRec /\ fin' # NoFin
  BY <1>1 DEF EndTurnLost, FinRec, NoFin
<1>3. losses' \in 0..MaxLosses /\ losses' # 0
  BY <1>0, MainAssumption DEF MainTypeOK, EndTurnLost, Lose
<1>4. UNCHANGED <<row, activeRun, prompt, codex>> /\ fin'.run = fin.run /\ fin'.phase = "done"
  BY <1>2 DEF EndTurnLost
<1>5. MainTypeOK'
  BY <1>0, <1>2, <1>3 DEF MainTypeOK, FinRec, EndTurnLost
<1>6. \A q \in Prompter : Unopened(q)'
  BY <1>0, <1>4 DEF Unopened
<1>7. Opened'
  BY <1>0, <1>1, <1>3, <1>4 DEF Opened
<1>8. TurnsApart' /\ OneRow' /\ RunningRowOwned' /\ ClosesOwnTurn'
  BY <1>3, <1>4 DEF TurnInv, TurnsApart, OneRow, Running, RunningRowOwned, ClosesOwnTurn
<1> QED BY <1>5, <1>6, <1>7, <1>8 DEF TurnInv

\* Main gives the turn up once its row is closed.
LEMMA DoneKeeps ==
  ASSUME TurnInv, FinishDone
  PROVE  TurnInv'
<1>0. MainTypeOK /\ (\A q \in Prompter : Unopened(q)) /\ Opened
  BY DEF TurnInv
<1>1. prompt \in [Prompter -> PromptRec]
  BY <1>0 DEF MainTypeOK, PromptRec
<1>2. \A q \in Prompter : /\ prompt'[q] \in PromptRec
                          /\ \/ prompt'[q] = prompt[q]
                             \/ /\ prompt'[q] = [phase |-> "failed", run |-> prompt[q].run]
                                /\ prompt[q].phase = "closing"
  BY <1>1 DEF FinishDone, PromptRec, PromptPhase
<1>3. prompt' \in [Prompter -> PromptRec]
  <2>1. prompt' = [q \in Prompter |-> prompt'[q]]
    BY DEF FinishDone
  <2> QED BY <1>2, <2>1
<1>4. fin' = NoFin /\ fin'.run = NoRun /\ activeRun' \in {activeRun, NoRun}
      /\ UNCHANGED <<row, losses, codex>>
  <2>1. fin' = NoFin /\ UNCHANGED <<row, losses, codex>>
    BY DEF FinishDone, ghosts
  <2>2. activeRun' \in {activeRun, NoRun}
    BY DEF FinishDone
  <2> QED BY <2>1, <2>2 DEF NoFin
<1>5. MainTypeOK'
  <2>1. abort' \in {abort, "idle"} /\ UNCHANGED <<rt, wire, aborts, crashes, joined, exiting>>
    BY DEF FinishDone, ghosts
  <2> QED BY <1>0, <1>3, <1>4, <2>1 DEF MainTypeOK, PromptRec
<1>6. \A q \in Prompter : Unopened(q)'
  <2> SUFFICES ASSUME NEW q \in Prompter PROVE Unopened(q)'
    OBVIOUS
  <2>1. CASE prompt'[q] = prompt[q]
    <3>1. prompt[q].phase = "begun" => prompt[q].run \in Run
      BY <1>0 DEF Unopened
    <3> QED BY <1>0, <1>4, <2>1, <3>1, MainAssumption DEF Unopened
  <2>2. CASE prompt'[q] = [phase |-> "failed", run |-> prompt[q].run] /\ prompt[q].phase = "closing"
    BY <1>0, <2>2 DEF Unopened
  <2> QED BY <1>2, <2>1, <2>2
<1>7. TurnsApart'
  <2>1. \A q \in Prompter : prompt'[q].run = prompt[q].run /\ (prompt'[q].phase = "idle" <=> prompt[q].phase = "idle")
    <3> SUFFICES ASSUME NEW q \in Prompter
                 PROVE  prompt'[q].run = prompt[q].run /\ (prompt'[q].phase = "idle" <=> prompt[q].phase = "idle")
      OBVIOUS
    <3>1. CASE prompt'[q] = prompt[q]
      BY <3>1
    <3>2. CASE prompt'[q] = [phase |-> "failed", run |-> prompt[q].run] /\ prompt[q].phase = "closing"
      BY <3>2
    <3> QED BY <1>2, <3>1, <3>2
  <2> QED BY <2>1 DEF TurnInv, TurnsApart
<1>8. Opened' /\ ClosesOwnTurn' /\ OneRow' /\ Running' = Running
  BY <1>0, <1>4 DEF TurnInv, Opened, NoFin, ClosesOwnTurn, OneRow, Running
<1>9. RunningRowOwned'
  <2> SUFFICES ASSUME losses = 0, NEW s \in Running, activeRun' # s
               PROVE  \E q \in Prompter : prompt'[q] = [phase |-> "begun", run |-> s]
    BY <1>4, <1>8 DEF RunningRowOwned
  <2>1. activeRun # s
    <3>1. fin.phase = "done" /\ row[fin.run] # "running"
      BY <1>0 DEF FinishDone, Opened
    <3> QED BY <3>1 DEF Running, FinishDone
  <2>2. PICK q \in Prompter : prompt[q] = [phase |-> "begun", run |-> s]
    BY <2>1 DEF TurnInv, RunningRowOwned
  <2>3. prompt[q].phase # "closing"
    BY <2>2
  <2>4. prompt'[q] = prompt[q]
    BY <1>2, <2>3
  <2> QED BY <2>2, <2>4
<1> QED BY <1>5, <1>6, <1>7, <1>8, <1>9 DEF TurnInv

-----------------------------------------------------------------------------
(* The events *)

\* Reading an event takes one off the wire.
LEMMA TailTyped ==
  ASSUME MainTypeOK, wire # <<>>
  PROVE  Head(wire) \in Event /\ Tail(wire) \in Seq(Event)
BY HeadTailProperties DEF MainTypeOK, Event

\* What an event closes is the turn it is of, where stale ones are dropped.
LEMMA HearKeeps ==
  ASSUME TurnInv, HearStart \/ HearEnd \/ HearError \/ DropStale
  PROVE  TurnInv'
<1>0. MainTypeOK
  BY DEF TurnInv
<1>1. wire # <<>> /\ wire' = Tail(wire)
  BY DEF HearStart, HearEnd, HearError, DropStale, Hear
<1>2. Head(wire) \in Event /\ wire' \in Seq(Event)
  BY <1>0, <1>1, TailTyped
<1>3. UNCHANGED <<row, activeRun, prompt, rt, abort, aborts, crashes, codex, joined, losses, exiting>>
  BY DEF HearStart, HearEnd, HearError, DropStale, ghosts
<1>4. \A p \in Prompter : Moves(p)
  BY <1>3 DEF Moves
<1>5. CASE UNCHANGED fin
  <2>1. MainTypeOK'
    BY <1>0, <1>2, <1>3, <1>5 DEF MainTypeOK, Event
  <2> QED BY <1>3, <1>4, <1>5, <2>1, MovesKeep
<1>6. CASE HearEnd \/ HearError
  <2>1. PICK status \in {"completed", "error"} : FinishTurn(status, Head(wire).run)
    BY <1>6 DEF HearEnd, HearError
  <2>2. Head(wire).run \in Run
    BY <1>2 DEF Event
  <2>3. /\ fin' \in {NoFin} \cup FinRec
        /\ \/ fin' = fin
           \/ /\ fin' = [run |-> activeRun, status |-> fin'.status, cause |-> fin'.cause, phase |-> "sent"]
              /\ activeRun # NoRun /\ fin'.cause = Head(wire).run
    BY <1>0, <2>1, <2>2, FinishForm
  <2>4. codex => Head(wire).run = activeRun
    BY <1>6 DEF HearEnd, HearError, Hear, Stale
  <2>5. MainTypeOK'
    BY <1>0, <1>2, <1>3, <2>3 DEF MainTypeOK, Event, FinRec
  <2> QED BY <1>3, <1>4, <2>3, <2>4, <2>5, MovesKeep
<1> QED BY <1>5, <1>6 DEF HearStart, DropStale

\* The events of a run's end are of that run.
LEMMA EndsKeeps ==
  ASSUME TurnInv, RunEnds
  PROVE  TurnInv'
<1>0. MainTypeOK /\ rt \in Run
  BY DEF TurnInv, MainTypeOK, RunEnds
<1>1. PICK tail \in {<<"end">>, <<"error">>, <<"error", "end">>} :
        wire' = wire \o [i \in DOMAIN tail |-> [type |-> tail[i], run |-> rt]]
  BY DEF RunEnds
<1>2. tail \in Seq(EventType)
  <2>1. "end" \in EventType /\ "error" \in EventType
    BY DEF EventType
  <2>2. <<"end">> \in Seq(EventType) /\ <<"error">> \in Seq(EventType)
    BY <2>1
  <2>3. <<"error", "end">> \in Seq(EventType)
    BY <2>1
  <2> QED BY <2>2, <2>3
<1>3. [i \in DOMAIN tail |-> [type |-> tail[i], run |-> rt]] \in Seq(Event)
  <2>1. DOMAIN tail = 1..Len(tail) /\ Len(tail) \in Nat /\ \A i \in 1..Len(tail) : tail[i] \in EventType
    BY <1>2
  <2>2. \A i \in 1..Len(tail) : [type |-> tail[i], run |-> rt] \in Event
    BY <1>0, <2>1 DEF Event
  <2> QED BY <2>1, <2>2, IsASeq
<1>4. wire' \in Seq(Event)
  BY <1>0, <1>1, <1>3, ConcatProperties DEF MainTypeOK, Event
<1>5. UNCHANGED <<row, activeRun, fin, prompt, abort, aborts, crashes, codex, joined, losses, exiting>> /\ rt' = NoRun
  BY DEF RunEnds, ghosts
<1>6. MainTypeOK'
  BY <1>0, <1>4, <1>5 DEF MainTypeOK, Event
<1>7. \A p \in Prompter : Moves(p)
  BY <1>5 DEF Moves
<1> QED BY <1>5, <1>6, <1>7, MovesKeep

\* A stop asks for the active turn to be closed, whichever it is.
LEMMA AbortKeeps ==
  ASSUME TurnInv, AbortBegin \/ AbortReturn
  PROVE  TurnInv'
<1>0. MainTypeOK
  BY DEF TurnInv
<1>1. UNCHANGED <<row, activeRun, prompt, rt, wire, crashes, codex, joined, losses, exiting>>
  BY DEF AbortBegin, AbortReturn, ghosts
<1>2. \A p \in Prompter : Moves(p)
  BY <1>1 DEF Moves
<1>3. abort' \in {"idle", "sent", "closing"} /\ aborts' \in 0..MaxAborts
  BY <1>0, MainAssumption DEF MainTypeOK, AbortBegin, AbortReturn
<1>4. CASE AbortBegin
  <2>1. fin' = fin
    BY <1>4 DEF AbortBegin
  <2>2. MainTypeOK'
    BY <1>0, <1>1, <1>3, <2>1 DEF MainTypeOK
  <2> QED BY <1>1, <1>2, <2>1, <2>2, MovesKeep
<1>5. CASE AbortReturn
  <2>1. FinishTurn("aborted", NoRun)
    BY <1>5 DEF AbortReturn
  <2>2. MainTypeOK'
    BY <1>0, <1>1, <1>3, <2>1, FinishForm DEF MainTypeOK, FinRec
  <2> QED BY <1>0, <1>1, <1>2, <2>1, <2>2, FinishForm, MovesKeep
<1> QED BY <1>4, <1>5

\* A sidecar that exits takes its run and the requests it had with it.
LEMMA ExitKeeps ==
  ASSUME TurnInv, SidecarExit
  PROVE  TurnInv'
<1>0. MainTypeOK
  BY DEF TurnInv
<1>1. prompt \in [Prompter -> PromptRec]
  BY <1>0 DEF MainTypeOK, PromptRec
<1>2. \A q \in Prompter : /\ prompt'[q] \in PromptRec
                          /\ \/ prompt'[q] = prompt[q]
                             \/ /\ prompt'[q] = [phase |-> "rejected", run |-> prompt[q].run]
                                /\ prompt[q].phase = "calling"
  BY <1>1 DEF SidecarExit, PromptRec, PromptPhase
<1>3. prompt' \in [Prompter -> PromptRec]
  <2>1. prompt' = [q \in Prompter |-> prompt'[q]]
    BY DEF SidecarExit
  <2> QED BY <1>2, <2>1
<1>4. \A q \in Prompter : Moves(q)
  <2> SUFFICES ASSUME NEW q \in Prompter PROVE Moves(q)
    OBVIOUS
  <2>1. CASE prompt'[q] = prompt[q]
    BY <2>1 DEF Moves
  <2>2. CASE prompt'[q] = [phase |-> "rejected", run |-> prompt[q].run] /\ prompt[q].phase = "calling"
    BY <2>2 DEF Moves
  <2> QED BY <1>2, <2>1, <2>2
<1>5. UNCHANGED <<row, activeRun, fin, abort, aborts, codex, joined, losses>> /\ rt' = NoRun
  BY DEF SidecarExit
<1>6. wire' \in Seq(Event) /\ crashes' \in 0..MaxCrashes /\ exiting' \in 0..crashes'
  <2>1. wire' \in {wire, <<>>}
    BY DEF SidecarExit
  <2>2. crashes < MaxCrashes /\ crashes' = crashes + 1
    BY DEF SidecarExit
  <2>3. <<>> \in Seq(Event) /\ wire \in Seq(Event)
    BY <1>0 DEF MainTypeOK, Event
  <2>4. crashes' \in 0..MaxCrashes
    BY <1>0, <2>2, MainAssumption DEF MainTypeOK
  <2>5. exiting' \in 0..crashes'
    BY <1>0, <2>2, MainAssumption DEF MainTypeOK, SidecarExit
  <2> QED BY <2>1, <2>3, <2>4, <2>5
<1>7. MainTypeOK'
  BY <1>0, <1>3, <1>5, <1>6 DEF MainTypeOK, PromptRec, Event
<1> QED BY <1>4, <1>5, <1>7, MovesKeep

\* Its exit handler closes the turn that is active when it comes to that.
LEMMA ExitClosesKeeps ==
  ASSUME TurnInv, ExitCloses
  PROVE  TurnInv'
<1>0. MainTypeOK
  BY DEF TurnInv
<1>1. UNCHANGED <<row, activeRun, prompt, rt, wire, abort, aborts, crashes, codex, joined, losses>>
  BY DEF ExitCloses
<1>2. \A p \in Prompter : Moves(p)
  BY <1>1 DEF Moves
<1>3. FinishTurn("aborted", NoRun) /\ exiting' \in 0..crashes'
  BY <1>0, <1>1, MainAssumption DEF ExitCloses, MainTypeOK
<1>4. MainTypeOK'
  BY <1>0, <1>1, <1>3, FinishForm DEF MainTypeOK, FinRec
<1> QED BY <1>0, <1>1, <1>2, <1>3, <1>4, FinishForm, MovesKeep

-----------------------------------------------------------------------------
(* The specification *)

\* Nothing has been opened at the start.
LEMMA TurnInvInit ==
  ASSUME MainInit PROVE TurnInv
<1>1. MainTypeOK
  <2>1. row \in [Run -> RowStatus] /\ activeRun \in Run \cup {NoRun} /\ fin = NoFin /\ rt \in Run \cup {NoRun}
    BY DEF MainInit, RowStatus
  <2>2. NoPrompt \in [phase : PromptPhase, run : Run \cup {NoRun}]
    BY DEF NoPrompt, PromptPhase
  <2>3. prompt \in [Prompter -> [phase : PromptPhase, run : Run \cup {NoRun}]]
    BY <2>2 DEF MainInit
  <2>4. wire \in Seq([type : EventType, run : Run])
    BY DEF MainInit
  <2>5. aborts \in 0..MaxAborts /\ crashes \in 0..MaxCrashes /\ losses \in 0..MaxLosses /\ exiting \in 0..crashes
    BY MainAssumption DEF MainInit
  <2> QED BY <2>1, <2>3, <2>4, <2>5 DEF MainInit, MainTypeOK
<1>2. \A p \in Prompter : prompt[p] = NoPrompt
  BY DEF MainInit
<1>3. activeRun = NoRun /\ fin = NoFin /\ Running = {}
  BY DEF MainInit, Running
<1>4. \A p \in Prompter : Unopened(p)
  BY <1>2 DEF Unopened, NoPrompt
<1>5. TurnsApart
  BY <1>2 DEF TurnsApart, NoPrompt
<1> QED BY <1>1, <1>3, <1>4, <1>5 DEF TurnInv, Opened, OneRow, RunningRowOwned, ClosesOwnTurn, NoFin

\* Every step keeps the invariant.
LEMMA TurnInvNext ==
  ASSUME TurnInv, [MainNext]_mainVars PROVE TurnInv'
<1>1. CASE UNCHANGED mainVars
  <2>1. MainTypeOK' /\ \A p \in Prompter : Moves(p)
    BY <1>1 DEF TurnInv, MainTypeOK, Moves, mainVars
  <2> QED BY <1>1, <2>1, MovesKeep DEF mainVars
<1>2. ASSUME NEW p \in Prompter, PromptStep(p) PROVE TurnInv'
  BY <1>2, PromptMoves, BeginKeeps, InsertKeeps, RefusedKeeps, LostBeginKeeps, OpenKeeps DEF PromptStep
<1>3. CASE EndTurn \/ EndTurnLost \/ FinishDone
  BY <1>3, EndKeeps, LostEndKeeps, DoneKeeps
<1>4. CASE RunEnds \/ AbortBegin \/ AbortReturn \/ SidecarExit \/ ExitCloses
  BY <1>4, EndsKeeps, AbortKeeps, ExitKeeps, ExitClosesKeeps
<1>5. CASE HearStart \/ HearEnd \/ HearError \/ DropStale
  BY <1>5, HearKeeps
<1> QED BY <1>1, <1>2, <1>3, <1>4, <1>5 DEF MainNext

\* A row of the turns table that runs is owned by Main, as its active turn or
\* by the beginTurn whose answer is on its way, unless a host-core call was
\* lost: no sequence of prompts, stops, events and sidecar exits leaves the
\* session answering AGENT_BUSY for ever.
THEOREM RowsOwned == MainSpec => []MainInv
<1>1. MainInit => TurnInv
  BY TurnInvInit
<1>2. TurnInv /\ [MainNext]_mainVars => TurnInv'
  BY TurnInvNext
<1>3. TurnInv => MainInv
  BY DEF TurnInv, MainInv
<1> QED BY <1>1, <1>2, <1>3, PTL DEF MainSpec

\* An event of one run never closes the turn of another, with the engine whose
\* stale events are dropped.
THEOREM OwnOutcome == MainSpec => []ClosesOwnTurn
<1>1. MainInit => TurnInv
  BY TurnInvInit
<1>2. TurnInv /\ [MainNext]_mainVars => TurnInv'
  BY TurnInvNext
<1>3. TurnInv => ClosesOwnTurn
  BY DEF TurnInv
<1> QED BY <1>1, <1>2, <1>3, PTL DEF MainSpec

-----------------------------------------------------------------------------
(* The runtime port *)

\* A finalization is of a session that Main holds, and the active turn runs
\* until its own finalization has closed it.
Held == fin # NoFin => activeRun # NoRun
ActiveRuns ==
  activeRun # NoRun /\ ~(fin.phase = "done" /\ fin.run = activeRun) => row[activeRun] = "running"

PortInv == TurnInv /\ Held /\ ActiveRuns

\* Asking for a finalization closes the run that is open, or joins.
LEMMA FinishCloses ==
  ASSUME PortInv, NEW status \in {"completed", "aborted", "error"}, NEW cause \in Run \cup {NoRun},
         FinishTurn(status, cause), UNCHANGED <<row, activeRun>>
  PROVE  Held' /\ ActiveRuns' /\ [Port!PortNext]_(Port!portVars)
<1>1. MainTypeOK
  BY DEF PortInv, TurnInv
<1>2. CASE fin' = fin
  BY <1>2 DEF PortInv, Held, ActiveRuns, Port!portVars, PortPhase
<1>3. CASE /\ fin = NoFin /\ activeRun # NoRun
           /\ fin' = [run |-> activeRun, status |-> status, cause |-> cause, phase |-> "sent"]
  <2>1. fin' # NoFin /\ fin'.run = activeRun /\ fin'.phase = "sent"
    BY <1>3 DEF NoFin
  <2>2. Held' /\ ActiveRuns'
    BY <1>3, <2>1 DEF PortInv, Held, ActiveRuns, NoFin
  <2>3. PortPhase = "open" /\ PortPhase' = "closing"
    BY <1>3, <2>1 DEF PortPhase
  <2> QED BY <2>2, <2>3 DEF Port!PortNext, Port!Closes
<1> QED BY <1>2, <1>3 DEF FinishTurn

\* A turn opens in a free session, or in place of one whose row is closed and
\* whose finalization has not ended.
LEMMA OpenTakes ==
  ASSUME PortInv, NEW p \in Prompter, TurnOpened(p)
  PROVE  Held' /\ ActiveRuns' /\ Port!PortNext
<1> DEFINE r == prompt[p].run
<1>1. MainTypeOK /\ Unopened(p) /\ OneRow /\ Held /\ ActiveRuns
  BY DEF PortInv, TurnInv
<1>2. r \in Run /\ row[r] = "running" /\ r \notin {activeRun, fin.run} /\ r # NoRun
  BY <1>1, MainAssumption DEF Unopened, TurnOpened
<1>3. activeRun' = r /\ UNCHANGED <<row, fin>>
  BY DEF TurnOpened
<1> HIDE DEF r
<1>4. Held' /\ ActiveRuns'
  BY <1>2, <1>3 DEF Held, ActiveRuns
<1>5. activeRun # NoRun => row[activeRun] # "running"
  <2> SUFFICES ASSUME activeRun # NoRun, row[activeRun] = "running" PROVE FALSE
    OBVIOUS
  <2>1. activeRun \in Running /\ r \in Running
    BY <1>1, <1>2 DEF MainTypeOK, Running
  <2> QED BY <1>1, <1>2, <2>1 DEF OneRow
<1>6. CASE fin = NoFin
  <2>1. PortPhase = "none" /\ PortPhase' = "open"
    <3>1. activeRun = NoRun
      BY <1>1, <1>5, <1>6 DEF ActiveRuns, NoFin
    <3> QED BY <1>2, <1>3, <1>6, <3>1 DEF PortPhase
  <2> QED BY <1>2, <1>3, <1>4, <2>1 DEF Port!PortNext, Port!Opens
<1>7. CASE fin # NoFin
  <2>1. PortPhase = "closing" /\ PortPhase' = "overtaken"
    BY <1>1, <1>2, <1>3, <1>5, <1>7 DEF PortPhase, Held, ActiveRuns
  <2> QED BY <1>2, <1>3, <1>4, <2>1 DEF Port!PortNext, Port!Overtakes
<1> QED BY <1>6, <1>7

\* The end of a row, or the loss of its answer, is not seen.
LEMMA RowEnds ==
  ASSUME PortInv, EndTurn \/ EndTurnLost
  PROVE  Held' /\ ActiveRuns' /\ UNCHANGED Port!portVars
<1>1. MainTypeOK /\ Held /\ ActiveRuns
  BY DEF PortInv, TurnInv
<1>2. fin \in FinRec /\ fin # NoFin /\ fin.phase = "sent"
  BY <1>1 DEF MainTypeOK, FinRec, EndTurn, EndTurnLost, NoFin
<1>3. /\ fin' = [run |-> fin.run, status |-> fin.status, cause |-> fin.cause, phase |-> "done"]
      /\ UNCHANGED activeRun
  BY <1>2 DEF FinRec, EndTurn, EndTurnLost
<1>4. fin' # NoFin /\ fin'.run = fin.run /\ fin'.phase = "done"
  BY <1>3 DEF NoFin
<1>5. activeRun # fin.run => row'[activeRun] = row[activeRun]
  <2>1. activeRun \in Run /\ fin.run \in Run /\ row \in [Run -> RowStatus]
    BY <1>1, <1>2 DEF Held, MainTypeOK, FinRec
  <2>2. row' = row \/ row' = [row EXCEPT ![fin.run] = fin.status]
    BY DEF EndTurn, EndTurnLost
  <2> QED BY <2>1, <2>2
<1>6. ActiveRuns'
  BY <1>1, <1>2, <1>3, <1>4, <1>5 DEF ActiveRuns
<1>7. Held' /\ PortPhase' = PortPhase
  BY <1>1, <1>2, <1>3, <1>4 DEF Held, PortPhase
<1> QED BY <1>3, <1>6, <1>7 DEF Port!portVars

\* The session is free, or the run that overtook has it alone.
LEMMA DoneFrees ==
  ASSUME PortInv, FinishDone
  PROVE  Held' /\ ActiveRuns' /\ Port!PortNext
<1>1. Held /\ ActiveRuns
  BY DEF PortInv
<1>2. /\ fin.phase = "done" /\ fin' = NoFin /\ UNCHANGED row
      /\ activeRun' = IF activeRun = fin.run THEN NoRun ELSE activeRun
  BY DEF FinishDone, ghosts
<1>3. fin # NoFin /\ activeRun # NoRun
  BY <1>1, <1>2 DEF NoFin, Held
<1>4. Held' /\ ActiveRuns'
  BY <1>1, <1>2 DEF Held, ActiveRuns
<1>5. CASE activeRun = fin.run
  <2>1. PortPhase = "closing" /\ PortPhase' = "none" /\ activeRun' = NoRun
    BY <1>2, <1>3, <1>5 DEF PortPhase
  <2> QED BY <1>4, <2>1 DEF Port!PortNext, Port!Frees
<1>6. CASE activeRun # fin.run
  <2>1. PortPhase = "overtaken" /\ PortPhase' = "open" /\ activeRun' = activeRun
    BY <1>2, <1>3, <1>6 DEF PortPhase
  <2> QED BY <1>4, <2>1 DEF Port!PortNext, Port!Settles
<1> QED BY <1>5, <1>6

\* What does not open, close or finish a turn is not seen.
LEMMA Unseen ==
  ASSUME PortInv, UNCHANGED <<activeRun, fin>>,
         \A r \in Run : row[r] = "running" => row'[r] = "running"
  PROVE  Held' /\ ActiveRuns' /\ UNCHANGED Port!portVars
<1>1. MainTypeOK /\ Held /\ ActiveRuns
  BY DEF PortInv, TurnInv
<1>2. ActiveRuns'
  BY <1>1 DEF ActiveRuns, MainTypeOK
<1>3. Held' /\ PortPhase' = PortPhase
  BY <1>1 DEF Held, PortPhase
<1> QED BY <1>2, <1>3 DEF Port!portVars

LEMMA PortInvInit ==
  ASSUME MainInit PROVE PortInv /\ Port!PortInit
<1>1. fin = NoFin /\ activeRun = NoRun
  BY DEF MainInit
<1> QED BY <1>1, TurnInvInit DEF PortInv, Held, ActiveRuns, Port!PortInit, PortPhase

LEMMA PortStep ==
  ASSUME PortInv, [MainNext]_mainVars
  PROVE  PortInv' /\ [Port!PortNext]_(Port!portVars)
<1>0. TurnInv' /\ MainTypeOK
  BY TurnInvNext DEF PortInv, TurnInv
<1>1. CASE UNCHANGED mainVars
  BY <1>0, <1>1, Unseen DEF mainVars, PortInv
<1>2. ASSUME NEW p \in Prompter, PromptStep(p)
      PROVE  Held' /\ ActiveRuns' /\ [Port!PortNext]_(Port!portVars)
  <2>1. CASE TurnOpened(p)
    BY <2>1, OpenTakes
  <2>2. CASE PromptFails(p)
    <3>1. FinishTurn("error", NoRun) /\ UNCHANGED <<row, activeRun>>
      BY <2>2 DEF PromptFails
    <3> QED BY <3>1, FinishCloses
  <2>3. CASE BeginTurn(p)
    <3>1. UNCHANGED <<activeRun, fin>>
      BY <2>3 DEF BeginTurn
    <3>2. ASSUME NEW r \in Run, row[r] = "running" PROVE row'[r] = "running"
      BY <1>0, <2>3, <3>2 DEF BeginTurn, MainTypeOK
    <3> QED BY <3>1, <3>2, Unseen
  <2>4. CASE PromptBegin(p) \/ BeginTurnLost(p) \/ CallSidecar(p) \/ SidecarPrompt(p) \/ PromptEnds(p)
    <3>1. UNCHANGED <<row, activeRun, fin>>
      BY <2>4 DEF PromptBegin, BeginTurnLost, CallSidecar, SidecarPrompt, PromptEnds
    <3> QED BY <3>1, Unseen
  <2> QED BY <1>2, <2>1, <2>2, <2>3, <2>4 DEF PromptStep
<1>3. CASE EndTurn \/ EndTurnLost
  BY <1>0, <1>3, RowEnds DEF PortInv
<1>4. CASE FinishDone
  BY <1>0, <1>4, DoneFrees DEF PortInv
<1>5. CASE RunEnds \/ HearStart \/ DropStale \/ AbortBegin \/ SidecarExit
  <2>1. UNCHANGED <<row, activeRun, fin>>
    BY <1>5 DEF RunEnds, HearStart, DropStale, AbortBegin, SidecarExit
  <2> QED BY <1>0, <2>1, Unseen DEF PortInv
<1>6. CASE HearEnd \/ HearError
  <2>1. PICK status \in {"completed", "error"} : FinishTurn(status, Head(wire).run)
    BY <1>6 DEF HearEnd, HearError
  <2>2. Head(wire).run \in Run /\ UNCHANGED <<row, activeRun>>
    BY <1>0, <1>6, TailTyped DEF HearEnd, HearError, Hear, Event
  <2> QED BY <1>0, <2>1, <2>2, FinishCloses DEF PortInv
<1>7. CASE AbortReturn \/ ExitCloses
  <2>1. FinishTurn("aborted", NoRun) /\ UNCHANGED <<row, activeRun>>
    BY <1>7 DEF AbortReturn, ExitCloses
  <2> QED BY <1>0, <2>1, FinishCloses DEF PortInv
<1> QED BY <1>0, <1>1, <1>2, <1>3, <1>4, <1>5, <1>6, <1>7 DEF MainNext, PortInv

\* Main implements the runtime port: whatever prompts, stops, events, exits and
\* losses of calls it goes through, a session shows one run at a time, which is
\* closed before the session is free, and which only a run that opens while it
\* is closing takes the place of.
THEOREM MainImplementsPort == MainSpec => ImplementsPort
<1>1. MainInit => PortInv /\ Port!PortInit
  BY PortInvInit
<1>2. PortInv /\ [MainNext]_mainVars => PortInv' /\ [Port!PortNext]_(Port!portVars)
  BY PortStep
<1> QED BY <1>1, <1>2, PTL DEF MainSpec, ImplementsPort, Port!PortSpec

=============================================================================
