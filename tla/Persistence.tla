---------------------------- MODULE Persistence -----------------------------
(***************************************************************************)
(* How the rows of a conversation reach its transcript: the outbox of      *)
(* Electron Main (persistence-outbox.ts), the checkpoints of the reply     *)
(* being streamed (inflight-checkpoint.ts), and host-core, which appends   *)
(* rows, keeps one checkpoint per session and promotes what is left of it  *)
(* (crates/host-core/src/sessions.rs).  host-core may exit and be started  *)
(* again at any moment, the sidecar may exit, and Electron Main with both. *)
(*                                                                         *)
(* A row has one final content; a reply may also stand in the transcript   *)
(* as the part of it that a checkpoint had.                                *)
(***************************************************************************)
EXTENDS Integers, Sequences, FiniteSets, SequencesExt

CONSTANTS
  Row, SessionOf, \* what is enqueued under one key, and its session
  Reply,          \* the rows that are streamed replies, each of a turn of its own
  Twice,          \* the rows the sidecar may send twice
  Deletable,      \* sessions the user may delete
  None,           \* no row
  MaxEntries,     \* MAX_ENTRIES
  MaxExits,       \* bound on exits of host-core, of the sidecar and of Main
  MaxLost,        \* bound on promotions that fail once the checkpoint is removed
  Timeouts        \* the rows whose calls to host-core may time out

Streams == {"no", "part", "final", "again", "dead", "over"}
Session == {SessionOf[m] : m \in Row}
Content == {"part", "final"}
Resting == [at |-> "idle", row |-> None]
Nothing == [row |-> None, has |-> "none"]
Snap(m, has) == [row |-> m, has |-> has]
Snaps == {Nothing} \cup {Snap(m, has) : m \in Reply, has \in Content}

ASSUME PersistenceAssumption ==
  /\ IsFiniteSet(Row) /\ Reply \subseteq Row /\ Twice \subseteq Row /\ None \notin Row
  /\ Deletable \subseteq Session /\ MaxEntries \in Nat \ {0} /\ MaxExits \in Nat
  /\ MaxLost \in Nat
  /\ Timeouts \subseteq Row

VARIABLES
  stream,  \* how far each row has come in the sidecar
  turn,    \* the turn of each reply in host-core's table
  entries, \* PersistenceOutbox.entries
  file,    \* session-message-outbox.json
  chain,   \* persistChain: the writes to come, by who asked for them
  flush,   \* flushLoop: where it is and the row it sends
  paused,  \* history: the last flush ended on an error although the host was up
  pending, saving, \* InflightCheckpointer: the next snapshot and the one being written
  start,   \* startHost: "down", "drain", "recover", "up"
  starter, \* who starts the host: the boot of Main, superviseRestart's loop or nobody
  rows,    \* the sessions in host-core's table
  lines,   \* the transcript of each session: rows with their content, in file order
  index,   \* the rows in the index
  ckpt,    \* the checkpoint file of each session
  late,    \* appends whose caller has given up
  gone,    \* session.delete: "no", "host" or "done"
  exits,   \* exits so far
  stored,  \* history: rows the file has held
  crossed, \* history: a session was dropped while its row was being sent
  torn,    \* history: rows whose line was written and whose index row was not
  lost     \* history: promotions that removed a checkpoint and wrote no line

outboxVars == <<entries, file, chain, flush, paused, stored, crossed>>
cpVars     == <<pending, saving>>
storeVars  == <<turn, rows, lines, index, ckpt, torn, lost>>
hostVars   == <<start, starter>>
persistenceVars ==
  <<stream, outboxVars, cpVars, hostVars, storeVars, late, gone, exits>>

Up == start # "down"

\* No host, and nobody who starts one before the user does.
Stranded == start = "down" /\ starter = "no"

PersistenceTypeOK ==
  /\ stream \in [Row -> Streams]
  /\ turn \in [Reply -> {"none", "running", "completed", "aborted"}]
  /\ entries \in Seq(Row) /\ Len(entries) <= MaxEntries
  /\ file \in Seq(Row) /\ Len(file) <= MaxEntries
  /\ chain \in Seq({"enqueue", "flush", "drop"}) /\ paused \in BOOLEAN /\ crossed \in BOOLEAN
  /\ flush \in [at : {"idle", "sent", "shifted"}, row : Row \cup {None}]
  /\ pending \in [Session -> Snaps] /\ saving \in [Session -> Snaps]
  /\ start \in {"down", "drain", "recover", "up"} /\ starter \in {"no", "boot", "loop"}
  /\ ~Up => flush.at # "sent" /\ late = {} /\ saving = [s \in Session |-> Nothing]
  /\ rows \subseteq Session /\ late \subseteq Row
  /\ index \subseteq Row /\ stored \subseteq Row /\ torn \subseteq Row
  /\ lines \in [Session -> Seq([row : Row, has : Content])]
  /\ ckpt \in [Session -> Snaps]
  /\ gone \in [Session -> {"no", "host", "done"}] /\ exits \in 0..MaxExits
  /\ lost \in 0..MaxLost

PersistenceInit ==
  /\ stream = [m \in Row |-> "no"] /\ turn = [m \in Reply |-> "none"]
  /\ entries = <<>> /\ file = <<>> /\ chain = <<>>
  /\ flush = Resting /\ paused = FALSE /\ stored = {} /\ torn = {} /\ crossed = FALSE
  /\ pending = [s \in Session |-> Nothing] /\ saving = [s \in Session |-> Nothing]
  /\ start = "up" /\ starter = "no" /\ lost = 0 /\ rows = Session /\ lines = [s \in Session |-> <<>>] /\ index = {}
  /\ ckpt = [s \in Session |-> Nothing] /\ late = {}
  /\ gone = [s \in Session |-> "no"] /\ exits = 0

-----------------------------------------------------------------------------
(* host-core *)

Lined(m) == \E l \in ToSet(lines[SessionOf[m]]) : l.row = m
Finished(m) == [lines EXCEPT ![SessionOf[m]] = Append(@, Snap(m, "final"))]

\* Mutant: the line is written and the index row left for later.
AppendUnindexed(m) ==
  LET s == SessionOf[m]
  IN /\ rows' = rows \cup {s}
     /\ lines' = IF m \in index THEN lines ELSE Finished(m)
     /\ ckpt' = IF ckpt[s].row = m THEN [ckpt EXCEPT ![s] = Nothing] ELSE ckpt
     /\ UNCHANGED <<turn, index, torn, lost>>

\* append_message of a row, seen by the whole store: a missing session is
\* recreated, an indexed row is the durable result already, and the final row
\* supersedes the checkpoint of the same reply.
AppendRow(m) ==
  LET s == SessionOf[m]
  IN /\ rows' = rows \cup {s}
     /\ IF m \in index THEN UNCHANGED <<lines, index, ckpt>>
        ELSE /\ lines' = Finished(m) /\ index' = index \cup {m}
             /\ ckpt' = IF ckpt[s].row = m THEN [ckpt EXCEPT ![s] = Nothing] ELSE ckpt
     /\ UNCHANGED <<turn, torn, lost>>

\* The line is written, the index is not: the process has exited in between.
AppendTorn(m) ==
  /\ rows' = rows \cup {SessionOf[m]}
  /\ lines' = IF m \in index THEN lines ELSE Finished(m)
  /\ torn' = IF m \in index THEN torn ELSE torn \cup {m}
  /\ UNCHANGED <<turn, index, ckpt, lost>>

\* save_inflight_message
SaveSnap(s) ==
  ckpt' = IF s \notin rows THEN ckpt
          ELSE [ckpt EXCEPT ![s] = IF saving[s].row \in index THEN Nothing ELSE saving[s]]

\* recover_inflight_messages of the sessions ss, with the turns t: a checkpoint
\* whose row has landed, or whose session is gone, is removed; the others are
\* promoted, those of a completed turn only withCompleted.  A promotion removes
\* the checkpoint first; then the append may fail, bare of the line or with the
\* line written and the index row not.  One that fails is logged, and the sweep
\* goes on.  An exit in between is such a failure and then an exit.
Promote(ss, withCompleted, t) ==
  LET left == {s \in ss : ckpt[s] # Nothing}
      dead == {s \in left : s \notin rows \/ ckpt[s].row \in index}
      todo == {s \in left \ dead : withCompleted \/ t[ckpt[s].row] # "completed"}
  IN \E bare \in SUBSET todo : \E cut \in SUBSET (todo \ bare) :
       /\ bare \cup cut # {} => lost < MaxLost
       /\ lost' = IF bare \cup cut = {} THEN lost ELSE lost + 1
       /\ lines' = [s \in Session |-> IF s \in todo \ bare THEN Append(lines[s], ckpt[s]) ELSE lines[s]]
       /\ index' = index \cup {ckpt[s].row : s \in todo \ (bare \cup cut)}
       /\ torn' = torn \cup {ckpt[s].row : s \in cut}
       /\ ckpt' = [s \in Session |-> IF s \in dead \cup todo THEN Nothing ELSE ckpt[s]]

-----------------------------------------------------------------------------
(* The outbox *)

\* flushLoop rests: startHost, which waits for it, goes on.
Rest ==
  /\ flush' = Resting
  /\ start' = IF start = "drain" THEN "recover" ELSE start
  /\ UNCHANGED starter

\* The loop sends the head, or rests without one or without a host.
Send ==
  IF entries = <<>> \/ ~Up THEN Rest
  ELSE flush' = [at |-> "sent", row |-> Head(entries)] /\ UNCHANGED hostVars

\* persist, then what its caller goes on with: the loop, or flush(), which joins
\* a loop that runs.  A write takes the entries of the moment it runs.
Persist ==
  /\ chain # <<>> /\ chain' = Tail(chain)
  /\ file' = entries /\ stored' = stored \cup ToSet(entries)
  /\ LET begins == Head(chain) = "enqueue" /\ flush.at = "idle"
     IN /\ paused' = (paused /\ ~begins)
        /\ IF begins \/ Head(chain) = "flush" THEN Send ELSE UNCHANGED <<flush, hostVars>>
  /\ UNCHANGED <<stream, entries, crossed, cpVars, storeVars, late, gone, exits>>

\* enqueue: an entry with the same key is replaced where it is; a new one is
\* dropped when the outbox is full.
Push(m) ==
  IF m \in ToSet(entries) THEN chain' = Append(chain, "enqueue") /\ UNCHANGED entries
  ELSE IF Len(entries) < MaxEntries
       THEN entries' = Append(entries, m) /\ chain' = Append(chain, "enqueue")
       ELSE UNCHANGED <<entries, chain>>

Shift(es) == IF es = <<>> THEN <<>> ELSE Tail(es)

\* Mutant: the entry leaves the outbox when it is sent, whatever the answer.
FlushFailsShifted ==
  /\ Up /\ flush.at = "sent" /\ flush.row \in Timeouts
  /\ Rest /\ paused' = TRUE
  /\ entries' = Shift(entries) /\ late' = late \cup {flush.row}
  /\ UNCHANGED <<stream, file, chain, stored, crossed, cpVars, storeVars, gone, exits>>

\* host-core appends the row and answers; the entry that is first now leaves.
FlushDone ==
  /\ Up /\ flush.at = "sent"
  /\ AppendRow(flush.row)
  /\ entries' = Shift(entries) /\ chain' = Append(chain, "flush")
  /\ flush' = [at |-> "shifted", row |-> None]
  /\ UNCHANGED <<stream, file, paused, stored, crossed, cpVars, hostVars, late, gone, exits>>

\* The call times out; host-core may still append the row.
FlushFails ==
  /\ Up /\ flush.at = "sent" /\ flush.row \in Timeouts
  /\ Rest /\ paused' = TRUE
  /\ late' = late \cup {flush.row}
  /\ UNCHANGED <<stream, entries, file, chain, stored, crossed, cpVars, storeVars, gone, exits>>

LateAppend ==
  /\ Up /\ \E m \in late : AppendRow(m) /\ late' = late \ {m}
  /\ UNCHANGED <<stream, outboxVars, cpVars, hostVars, gone, exits>>

-----------------------------------------------------------------------------
(* What the sidecar sends *)

Observe(m, has) == pending' = [pending EXCEPT ![SessionOf[m]] = Snap(m, has)]

\* message_update, with which the turn is under way; a session has one reply at a time.
Update(m) ==
  /\ m \in Reply /\ stream[m] = "no" /\ gone[SessionOf[m]] = "no" /\ Up
  /\ \A n \in Reply : SessionOf[n] = SessionOf[m] => stream[n] # "part" /\ turn[n] # "running"
  /\ stream' = [stream EXCEPT ![m] = "part"] /\ turn' = [turn EXCEPT ![m] = "running"]
  /\ Observe(m, "part")
  /\ UNCHANGED <<outboxVars, saving, hostVars, rows, lines, index, ckpt, torn, lost, late, gone, exits>>

\* message_end or tool_end: a reply is checkpointed once more, then enqueued.
\* The sidecar may send it a second time.
End(m) ==
  /\ gone[SessionOf[m]] = "no"
  /\ \/ /\ stream[m] = IF m \in Reply THEN "part" ELSE "no"
        /\ stream' = [stream EXCEPT ![m] = "final"]
     \/ m \in Twice /\ stream[m] = "final" /\ stream' = [stream EXCEPT ![m] = "again"]
  /\ IF m \in Reply THEN Observe(m, "final") ELSE UNCHANGED pending
  /\ Push(m)
  /\ UNCHANGED <<file, flush, paused, stored, crossed, saving, hostVars, storeVars, late, gone, exits>>

\* InflightCheckpointer.flush: one write per session at a time; without a host
\* the snapshot is let go.
SaveBegin(s) ==
  /\ pending[s] # Nothing /\ saving[s] = Nothing
  /\ pending' = [pending EXCEPT ![s] = Nothing]
  /\ saving' = IF Up THEN [saving EXCEPT ![s] = pending[s]] ELSE saving
  /\ UNCHANGED <<stream, outboxVars, hostVars, storeVars, late, gone, exits>>

SaveDone(s) ==
  /\ Up /\ saving[s] # Nothing /\ SaveSnap(s) /\ saving' = [saving EXCEPT ![s] = Nothing]
  /\ UNCHANGED <<stream, outboxVars, pending, hostVars, turn, rows, lines, index, torn, lost, late, gone, exits>>

\* Mutant: the checkpoint goes with its turn, landed or not.
EndTurnDrops(m) ==
  /\ Up /\ stream[m] \in {"final", "again"} /\ turn[m] = "running"
  /\ turn' = [turn EXCEPT ![m] = "completed"]
  /\ ckpt' = [ckpt EXCEPT ![SessionOf[m]] = Nothing]
  /\ UNCHANGED <<stream, outboxVars, cpVars, hostVars, rows, lines, index, torn, lost, late, gone, exits>>

\* agent_end: end_turn_settling drops the checkpoint if its row has landed.
EndTurn(m) ==
  LET s == SessionOf[m]
  IN /\ Up /\ stream[m] \in {"final", "again"} /\ turn[m] = "running"
     /\ turn' = [turn EXCEPT ![m] = "completed"]
     /\ ckpt' = IF ckpt[s].row \in index THEN [ckpt EXCEPT ![s] = Nothing] ELSE ckpt
     /\ UNCHANGED <<stream, outboxVars, cpVars, hostVars, rows, lines, index, torn, lost, late, gone, exits>>

\* A row that has come does not come again, and its turn is not ended.
Ended(m) ==
  IF stream[m] \in {"final", "again"} /\ m \in Reply \cup Twice THEN "over" ELSE stream[m]

\* The sidecar exits: no more of its replies comes.
SidecarExit ==
  /\ exits < MaxExits /\ exits' = exits + 1
  /\ \E m \in Reply : turn[m] = "running"
  /\ stream' = [m \in Row |-> IF stream[m] = "part" THEN "dead" ELSE Ended(m)]
  /\ UNCHANGED <<outboxVars, cpVars, hostVars, storeVars, late, gone>>

\* Its exit handler flushes the checkpoint and then ends the turn, promoting it.
EndDeadTurn(m) ==
  LET s == SessionOf[m]
  IN /\ Up /\ stream[m] \in {"dead", "over"} /\ turn[m] = "running"
     /\ pending[s] = Nothing /\ saving[s] = Nothing
     /\ turn' = [turn EXCEPT ![m] = "aborted"] /\ Promote({s}, TRUE, turn')
     /\ UNCHANGED <<stream, outboxVars, cpVars, hostVars, rows, late, gone, exits>>

-----------------------------------------------------------------------------
(* session.delete *)

DeleteRow(s) ==
  /\ Up /\ s \in Deletable /\ gone[s] = "no" /\ gone' = [gone EXCEPT ![s] = "host"]
  /\ rows' = rows \ {s}
  /\ lines' = [lines EXCEPT ![s] = <<>>]
  /\ index' = {m \in index : SessionOf[m] # s}
  /\ ckpt' = [ckpt EXCEPT ![s] = Nothing]
  /\ UNCHANGED <<stream, turn, outboxVars, cpVars, hostVars, late, exits, torn, lost>>

\* The entries of other sessions, in their order.
Others(s) ==
  LET places == {i \in DOMAIN entries : SessionOf[entries[i]] # s}
      nth(n) == CHOOSE i \in places : Cardinality({j \in places : j <= i}) = n
  IN [n \in 1..Cardinality(places) |-> entries[nth(n)]]

\* dropSession
Drop(s) ==
  LET kept == Others(s)
  IN /\ gone[s] = "host" /\ gone' = [gone EXCEPT ![s] = "done"]
     /\ entries' = kept
     /\ chain' = IF kept = entries THEN chain ELSE Append(chain, "drop")
     /\ crossed' = (crossed \/ (flush.at = "sent" /\ SessionOf[flush.row] = s))
     /\ UNCHANGED <<stream, file, flush, paused, stored, cpVars, hostVars, storeVars, late, exits>>

-----------------------------------------------------------------------------
(* Exits and starts *)

\* No call outlives the host.
CallsLost ==
  /\ saving' = [s \in Session |-> Nothing] /\ late' = {}
  /\ start' = "down" /\ exits' = exits + 1

\* superviseRestart, on an exit of the host: it starts its loop, or leaves the
\* exit to the loop that runs.  That one does not look again: what startHost
\* still awaits fails unseen, and only a call of drainApprovedPlanExecutions
\* that is lost with the host makes it start over.
Supervise ==
  starter' \in IF starter # "loop" THEN {"loop"}
               ELSE IF start = "up" THEN {"loop", "no"} ELSE {"no"}

\* host-core exits, perhaps in the middle of the append it was asked for.
HostExit ==
  /\ Up /\ exits < MaxExits /\ CallsLost /\ Supervise
  /\ \/ UNCHANGED storeVars
     \/ flush.at = "sent" /\ AppendRow(flush.row)
     \/ flush.at = "sent" /\ AppendTorn(flush.row)
  /\ flush' = IF flush.at = "sent" THEN Resting ELSE flush
  /\ UNCHANGED <<stream, entries, file, chain, paused, stored, crossed, pending, gone>>

\* Main exits with its children; what is not in a file is lost.
MainExit ==
  /\ exits < MaxExits /\ CallsLost /\ starter' = "boot"
  /\ stream' = [m \in Row |-> IF stream[m] \in {"no", "part"} THEN "dead" ELSE Ended(m)]
  /\ entries' = file /\ chain' = <<>> /\ flush' = Resting /\ pending' = [s \in Session |-> Nothing]
  /\ gone' = [s \in Session |-> IF gone[s] = "host" THEN "done" ELSE gone[s]]
  /\ UNCHANGED <<storeVars, file, paused, stored, crossed>>

\* Mutant: the outbox is left to the next row.
HostStartUndrained ==
  /\ start = "down" /\ starter # "no" /\ start' = "recover"
  /\ turn' = [m \in Reply |-> IF turn[m] = "running" THEN "aborted" ELSE turn[m]]
  /\ Promote(Session, FALSE, turn')
  /\ UNCHANGED <<stream, outboxVars, cpVars, starter, rows, late, gone, exits>>

\* startHost.  Boot aborts the running turns and promotes their checkpoints
\* before the handshake; then the outbox is flushed.
HostStart ==
  /\ start = "down" /\ starter # "no"
  /\ turn' = [m \in Reply |-> IF turn[m] = "running" THEN "aborted" ELSE turn[m]]
  /\ Promote(Session, FALSE, turn')
  /\ LET begins == flush.at = "idle"
     IN /\ paused' = (paused /\ ~begins)
        /\ flush' = IF begins /\ entries # <<>> THEN [at |-> "sent", row |-> Head(entries)] ELSE flush
        /\ start' = IF begins /\ entries = <<>> THEN "recover" ELSE "drain"
  /\ UNCHANGED <<stream, entries, file, chain, stored, crossed, cpVars, starter, rows, late, gone, exits>>

\* The host does not come up: boot fails, the loop reaches its limit of restarts
\* or meets a schema or a system it cannot run on.
GiveUp ==
  /\ start = "down" /\ starter # "no" /\ exits < MaxExits
  /\ starter' = "no" /\ exits' = exits + 1
  /\ UNCHANGED <<stream, outboxVars, cpVars, start, storeVars, late, gone>>

\* recoverInflightMessages: what the flush did not land of completed turns is
\* promoted.
StartDone ==
  /\ start = "recover" /\ start' = "up"
  /\ starter' = IF starter = "boot" THEN "no" ELSE starter
  /\ Promote(Session, TRUE, turn)
  /\ UNCHANGED <<stream, outboxVars, cpVars, turn, rows, late, gone, exits>>

\* The loop ends, once drainApprovedPlanExecutions has returned.
Restarted ==
  /\ start = "up" /\ starter = "loop" /\ starter' = "no"
  /\ UNCHANGED <<stream, outboxVars, cpVars, start, storeVars, late, gone, exits>>

-----------------------------------------------------------------------------

OutboxStep == Persist \/ FlushDone

PersistenceNext ==
  \/ OutboxStep \/ FlushFails \/ LateAppend
  \/ \E m \in Row : Update(m) \/ End(m)
  \/ \E m \in Reply : EndTurn(m) \/ EndDeadTurn(m)
  \/ \E s \in Session : SaveBegin(s) \/ SaveDone(s) \/ DeleteRow(s) \/ Drop(s)
  \/ SidecarExit \/ HostExit \/ MainExit
  \/ HostStart \/ GiveUp \/ StartDone \/ Restarted

PersistenceSpec == PersistenceInit /\ [][PersistenceNext]_persistenceVars

\* Files are written, host-core answers, and who is to start it does.
PersistenceFairness ==
  WF_persistenceVars(OutboxStep) /\ WF_persistenceVars(HostStart) /\ WF_persistenceVars(StartDone)

PersistenceLiveSpec == PersistenceSpec /\ PersistenceFairness

-----------------------------------------------------------------------------
(* Properties *)

Kept(m) == m \in ToSet(entries) \/ Lined(m) \/ gone[SessionOf[m]] # "no"

\* "Message ids make replay idempotent after a host restart"
\* (persistence-outbox.ts:29): a row the file has held is in the outbox or in
\* the transcript for good, whatever exits, unless its session was deleted.  The
\* one way to lose it is a session dropped while its row is on its way: the loop
\* then removes the next row unsent.
NothingDropped == crossed \/ \A m \in stored : Kept(m)

\* "a message whose final row already landed must not be resurrected by a
\* checkpoint" (sessions.rs:1674): a final row is never followed by a part of it,
\* which readers, who keep the last line of an id, would show.
FinalStays ==
  \A s \in Session : \A i, j \in DOMAIN lines[s] :
    i < j /\ lines[s][i].row = lines[s][j].row =>
      lines[s][j].has = "final" \/ lines[s][i].row \in torn

\* "deletes .inflight.json only when that id is already indexed" (D327): a
\* checkpoint goes when its reply, or the reply to be checkpointed in its place,
\* is in the transcript, or with its session; a reply that waits in the outbox
\* keeps it.  The one other way is a promotion that fails between its remove and
\* its append (sessions.rs:1756): then the checkpoint is lost, and counted.
SavedStays ==
  [][\A s \in Session :
       ckpt[s] # Nothing /\ ckpt'[s] = Nothing /\ s \in rows' =>
         \/ lost' = lost + 1
         \/ \E l \in ToSet(lines'[s]) : l.row \in {ckpt[s].row, saving[s].row}]_persistenceVars

\* A row the file has held leaves the outbox for the transcript, unless its
\* session is deleted, its call times out or a drop crosses it, as long as there
\* is a host or somebody starts one.  A host that exits while superviseRestart
\* still waits for startHost is started by nobody (index.ts:6335).
OutboxDrains ==
  \A m \in Row :
    m \in stored ~> \/ m \notin ToSet(entries) /\ Lined(m)
                    \/ gone[SessionOf[m]] # "no" \/ paused \/ crossed \/ Stranded

\* What readers show of a row is its last line.
Shown(m) ==
  LET t == lines[SessionOf[m]]
  IN t[CHOOSE i \in DOMAIN t : t[i].row = m /\ \A j \in DOMAIN t : t[j].row = m => j <= i]

\* "The final assistant row supersedes any checkpoint of the same message"
\* (sessions.rs:1613): once the outbox has let go of a reply that has ended, the
\* transcript shows its final text.
FinalSupersedes ==
  \A m \in stored \cap Reply : m \notin ToSet(entries) /\ Lined(m) => Shown(m).has = "final"

\* The state is well formed, and no final row is hidden by a part of it.
PersistenceInv == PersistenceTypeOK /\ FinalStays

=============================================================================
