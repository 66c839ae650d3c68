------------------------------ MODULE Snapshot ------------------------------
(***************************************************************************)
(* What a client that attaches sees of a session (packages/agent-host/src/ *)
(* agent-host.ts: ingest, attach, snapshot): a page of completed items     *)
(* that host-core reads from the transcript, the items in flight that the  *)
(* Agent Host keeps in memory, and the cursor of the event stream from     *)
(* which the client goes on.                                               *)
(*                                                                         *)
(* Electron Main gives an event to the Agent Host first and writes its row *)
(* to host-core afterwards, through the outbox (main/index.ts:             *)
(* wireSidecar, persistAgentEvent). The page is awaited; the items in      *)
(* flight and the cursor are read when it has arrived.                     *)
(***************************************************************************)
EXTENDS EventHub

CONSTANT Item \* messages and tool calls; the page is long enough for all

VARIABLES
  item,         \* of each: "new", "streaming", "completed", or "dead" when its turn ended first
  began, ended, \* sequence of its first and last event, 0 when of an earlier epoch
  activeItems,  \* of the Agent Host
  rows,         \* items completed in the transcript of host-core
  attach,       \* of each client: "idle", "asked", or "read" once the page has been read
  page,         \* the page on its way to it
  live, done,   \* the items its view shows in flight, and completed
  valid,        \* its view is of its cursor
  gap           \* history: completed items its last snapshot showed nowhere

feed == <<item, began, ended, activeItems>>
view == <<live, done, valid, gap>>
attaching == <<attach, page>>
vars == <<hubVars, feed, rows, attaching, view>>

SnapTypeOK ==
  /\ HubTypeOK
  /\ item \in [Item -> {"new", "streaming", "completed", "dead"}]
  /\ began \in [Item -> Nat] /\ ended \in [Item -> Nat]
  /\ activeItems \subseteq Item /\ rows \subseteq Item
  /\ attach \in [Subscriber -> {"idle", "asked", "read"}]
  /\ page \in [Subscriber -> SUBSET Item]
  /\ live \in [Subscriber -> SUBSET Item] /\ done \in [Subscriber -> SUBSET Item]
  /\ valid \in [Subscriber -> BOOLEAN] /\ gap \in [Subscriber -> SUBSET Item]

SnapInit ==
  /\ HubInit
  /\ item = [i \in Item |-> "new"]
  /\ began = [i \in Item |-> 0] /\ ended = [i \in Item |-> 0]
  /\ activeItems = {} /\ rows = {}
  /\ attach = [c \in Subscriber |-> "idle"] /\ page = [c \in Subscriber |-> {}]
  /\ live = [c \in Subscriber |-> {}] /\ done = [c \in Subscriber |-> {}]
  /\ valid = [c \in Subscriber |-> FALSE] /\ gap = [c \in Subscriber |-> {}]

-----------------------------------------------------------------------------
(* The Agent Host takes in events of the runtime *)

\* message_start, tool_start.
ItemStarts(i) ==
  /\ item[i] = "new" /\ item' = [item EXCEPT ![i] = "streaming"]
  /\ activeItems' = activeItems \union {i}
  /\ Publish /\ began' = [began EXCEPT ![i] = sequence + 1]
  /\ UNCHANGED <<ended, rows, attaching, view>>

\* message_end, tool_end.
ItemEnds(i) ==
  /\ item[i] = "streaming" /\ item' = [item EXCEPT ![i] = "completed"]
  /\ activeItems' = activeItems \ {i}
  /\ Publish /\ ended' = [ended EXCEPT ![i] = sequence + 1]
  /\ UNCHANGED <<began, rows, attaching, view>>

Streaming == {i \in Item : item[i] = "streaming"}

\* Mutant: the end of a turn leaves its items in flight.
TurnEndsKept ==
  /\ item' = [i \in Item |-> IF i \in Streaming THEN "dead" ELSE item[i]]
  /\ Publish
  /\ ended' = [i \in Item |-> IF i \in Streaming THEN sequence + 1 ELSE ended[i]]
  /\ UNCHANGED <<activeItems, began, rows, attaching, view>>

\* agent_end, error: nothing of the session is in flight any more. Events that
\* concern no item are these, when nothing is streaming.
TurnEnds ==
  /\ item' = [i \in Item |-> IF i \in Streaming THEN "dead" ELSE item[i]]
  /\ activeItems' = {}
  /\ Publish
  /\ ended' = [i \in Item |-> IF i \in Streaming THEN sequence + 1 ELSE ended[i]]
  /\ UNCHANGED <<began, rows, attaching, view>>

\* The row of a completed item reaches host-core.
Stored(i) ==
  /\ item[i] = "completed" /\ i \notin rows
  /\ rows' = rows \union {i}
  /\ UNCHANGED <<hubVars, feed, attaching, view>>

\* The application restarts: nothing streams, and rows still in the outbox
\* are written later.
SnapHostRestarts ==
  /\ HostRestarts
  /\ item' = [i \in Item |-> IF i \in Streaming THEN "dead" ELSE item[i]]
  /\ activeItems' = {}
  /\ began' = [i \in Item |-> 0] /\ ended' = [i \in Item |-> 0]
  /\ attach' = [c \in Subscriber |-> "idle"]
  /\ UNCHANGED <<rows, page, view>>

-----------------------------------------------------------------------------
(* attach *)

\* A client without a subscription attaches when its view is behind.
AttachAsks(c) ==
  /\ attach[c] = "idle" /\ ~open[c] /\ wire[c] = <<>>
  /\ ~valid[c] \/ at[c] # sequence \/ atEpoch[c] # epoch
  /\ attach' = [attach EXCEPT ![c] = "asked"]
  /\ UNCHANGED <<hubVars, feed, rows, page, view>>

\* snapshot awaits the newest page of the transcript.
PageRead(c) ==
  /\ attach[c] = "asked" /\ attach' = [attach EXCEPT ![c] = "read"]
  /\ page' = [page EXCEPT ![c] = rows]
  /\ UNCHANGED <<hubVars, feed, rows, view>>

\* The rest of the snapshot is of the moment the page has arrived.
SnapshotTaken(c) ==
  /\ attach[c] = "read" /\ attach' = [attach EXCEPT ![c] = "idle"]
  /\ TakeSnapshot(c)
  /\ live' = [live EXCEPT ![c] = activeItems] /\ done' = [done EXCEPT ![c] = page[c]]
  /\ valid' = [valid EXCEPT ![c] = TRUE]
  /\ gap' = [gap EXCEPT ![c] = {i \in Item : item[i] = "completed"} \ page[c]]
  /\ page' = [page EXCEPT ![c] = {}]
  /\ UNCHANGED <<feed, rows>>

-----------------------------------------------------------------------------
(* The client *)

\* It asks for events when it is not attaching; told to take a snapshot, it
\* holds its view for outdated.
Resyncs(c) ==
  /\ attach[c] = "idle" /\ SubscribeResync(c)
  /\ valid' = [valid EXCEPT ![c] = FALSE]
  /\ UNCHANGED <<feed, rows, attaching, live, done, gap>>

Replays(c) ==
  /\ attach[c] = "idle" /\ SubscribeReplay(c)
  /\ UNCHANGED <<feed, rows, attaching, view>>

Leaves(c) == Unsubscribe(c) /\ UNCHANGED <<feed, rows, attaching, view>>

Acks(c, n) == Ack(c, n) /\ UNCHANGED <<feed, rows, attaching, view>>

\* What the next message tells of the items.
Applies(c) ==
  LET n     == Head(wire[c]).n
      news  == Head(wire[c]).kind = "event" /\ atEpoch[c] = epoch
      start == {i \in Item : news /\ began[i] = n}
      end   == {i \in Item : news /\ ended[i] = n}
  IN  /\ Apply(c)
      /\ live' = [live EXCEPT ![c] = (@ \union start) \ end]
      /\ done' = [done EXCEPT ![c] = @ \union {i \in end : item[i] = "completed"}]
      /\ UNCHANGED <<feed, rows, attaching, valid, gap>>

SnapNext ==
  \/ TurnEnds \/ SnapHostRestarts
  \/ \E i \in Item : ItemStarts(i) \/ ItemEnds(i) \/ Stored(i)
  \/ \E c \in Subscriber :
       \/ AttachAsks(c) \/ PageRead(c) \/ SnapshotTaken(c)
       \/ Resyncs(c) \/ Replays(c) \/ Leaves(c) \/ Applies(c)
       \/ \E n \in 1..MaxSequence : Acks(c, n)

SnapSpec == SnapInit /\ [][SnapNext]_vars

\* An attach is answered; a client subscribes again when it has no
\* subscription, and its connection lasts long enough, again and again, for it
\* to read an event.
SnapFairness ==
  \A c \in Subscriber :
    /\ WF_vars(PageRead(c) \/ SnapshotTaken(c))
    /\ SF_vars(Applies(c)) /\ SF_vars(Resyncs(c) \/ Replays(c))

SnapLiveSpec == SnapSpec /\ SnapFairness

-----------------------------------------------------------------------------
(* Properties *)

\* "A snapshot is valid only together with its `cursor`" (docs/spec/
\* 03-runtime/19-remote-agent-control-protocol.md:408). Item i had ended at
\* the cursor of client c; it had begun and not ended there.
Over(c, i)    == item[i] \in {"completed", "dead"} /\ ended[i] <= at[c]
Running(c, i) == item[i] # "new" /\ began[i] <= at[c] /\ ~Over(c, i)

Current == {c \in Subscriber : valid[c] /\ atEpoch[c] = epoch}

\* A snapshot and the events applied to it show in flight exactly what was in
\* flight at the client's cursor.
InFlightAsOfCursor ==
  \A c \in Current : live[c] = {i \in Item : Running(c, i)}

\* An item that was completed by the client's cursor is shown completed,
\* unless it was completed while the snapshot's page was read or its row was
\* still on the way to host-core.
CompletedUnlessGap ==
  \A c \in Current, i \in Item :
    item[i] = "completed" /\ Over(c, i) => i \in done[c] \union gap[c]

\* "`items` is the newest bounded page of completed items" (docs/spec/
\* 03-runtime/19-remote-agent-control-protocol.md:404), so that with the
\* events after the cursor a client has every completed item.
NothingMissing ==
  \A c \in Current, i \in Item : item[i] = "completed" /\ Over(c, i) => i \in done[c]

\* The state is well formed, and a client has seen what was completed before its
\* cursor, but for the gap it was left with.
SnapInv == SnapTypeOK /\ CompletedUnlessGap

=============================================================================
