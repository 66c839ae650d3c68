------------------------------ MODULE EventHub ------------------------------
(***************************************************************************)
(* One event stream of the Agent Host and its subscribers                  *)
(* (packages/agent-host/src/event-log.ts): sequence allocation, eviction   *)
(* from the replay window, replay from a cursor, fan-out bounded by the    *)
(* events a subscriber has not acknowledged, and the CLIENT_TOO_SLOW close *)
(* that hands back a cursor to resume from.                                *)
(*                                                                         *)
(* A client applies what its connection carries in order, keeps the cursor *)
(* of the last event it applied, acknowledges some of what it applied and  *)
(* subscribes again from its cursor; the connection may drop at any time.  *)
(* Ephemeral events have no sequence and are left out.                     *)
(***************************************************************************)
EXTENDS Integers, Sequences

CONSTANTS
  Subscriber,     \* clients, each with at most one subscription
  MaxEvents,      \* replayWindowEvents
  MaxOutstanding, \* durable events a subscriber may leave unacknowledged
  MaxSequence,    \* bound: durable events per epoch explored
  MaxEpoch        \* bound: epochs (Host processes) explored

ASSUME HubAssumption ==
  /\ MaxEvents \in Nat \ {0} /\ MaxOutstanding \in Nat \ {0}
  /\ MaxSequence \in Nat /\ MaxEpoch \in Nat

VARIABLES
  epoch, sequence, \* of the stream; a restarted Host starts a new epoch
  oldest,          \* oldest retained sequence, sequence + 1 when there is none
  open,            \* whether the client has a subscription
  lastDelivered, outstanding, \* of its subscription
  wire,            \* what its connection carries
  at, atEpoch,     \* the client's cursor
  acked,           \* highest sequence acknowledged in this subscription
  snapshots        \* the client was told to take a snapshot: how often

stream == <<epoch, sequence, oldest>>
client == <<at, atEpoch, snapshots>>
hubVars == <<epoch, sequence, oldest, open, lastDelivered, outstanding, wire,
             at, atEpoch, acked, snapshots>>

Message == [kind : {"event", "too_slow"}, n : Nat]
Event(n)   == [kind |-> "event", n |-> n]
TooSlow(n) == [kind |-> "too_slow", n |-> n]

HubTypeOK ==
  /\ epoch \in Nat /\ sequence \in Nat /\ oldest \in 1..(sequence + 1)
  /\ open \in [Subscriber -> BOOLEAN]
  /\ lastDelivered \in [Subscriber -> Nat] /\ outstanding \in [Subscriber -> Nat]
  /\ wire \in [Subscriber -> Seq(Message)]
  /\ at \in [Subscriber -> Nat] /\ atEpoch \in [Subscriber -> Nat]
  /\ acked \in [Subscriber -> Nat] /\ snapshots \in [Subscriber -> Nat]

HubInit ==
  /\ epoch = 0 /\ sequence = 0 /\ oldest = 1
  /\ open = [c \in Subscriber |-> FALSE]
  /\ lastDelivered = [c \in Subscriber |-> 0]
  /\ outstanding = [c \in Subscriber |-> 0]
  /\ wire = [c \in Subscriber |-> <<>>]
  /\ at = [c \in Subscriber |-> 0] /\ atEpoch = [c \in Subscriber |-> 0]
  /\ acked = [c \in Subscriber |-> 0] /\ snapshots = [c \in Subscriber |-> 0]

-----------------------------------------------------------------------------
(* The stream *)

\* deliver() of one durable event: a full subscriber is closed instead.
Fits(c) == outstanding[c] < MaxOutstanding

\* publish: append allocates the next sequence, evicts by number and by age,
\* and the event goes to every subscription.
Publish ==
  LET n == sequence + 1
  IN  /\ sequence < MaxSequence
      /\ sequence' = n
      /\ oldest' \in {o \in oldest..n : n - o < MaxEvents}
      /\ open' = [c \in Subscriber |-> open[c] /\ Fits(c)]
      /\ wire' = [c \in Subscriber |->
           IF ~open[c] THEN wire[c]
           ELSE Append(wire[c], IF Fits(c) THEN Event(n) ELSE TooSlow(lastDelivered[c]))]
      /\ lastDelivered' = [c \in Subscriber |->
           IF open[c] /\ Fits(c) THEN n ELSE lastDelivered[c]]
      /\ outstanding' = [c \in Subscriber |->
           IF open[c] /\ Fits(c) THEN outstanding[c] + 1 ELSE outstanding[c]]
      /\ UNCHANGED <<epoch, acked, client>>

\* Mutant: eviction goes unnoticed.
ResyncNotEvicted(c) == atEpoch[c] # epoch \/ at[c] > sequence

\* Mutant: the epoch of the cursor is not compared.
ResyncAnyEpoch(c) == at[c] > sequence \/ (at[c] < sequence /\ oldest > at[c] + 1)

\* What replay() answers to the cursor of client c.
Resync(c) ==
  \/ atEpoch[c] # epoch
  \/ at[c] > sequence
  \/ at[c] < sequence /\ oldest > at[c] + 1

\* Mutant: the answer names the next sequence to be published as the cursor.
SubscribeResyncAhead(c) ==
  /\ ~open[c] /\ wire[c] = <<>> /\ Resync(c)
  /\ open' = [open EXCEPT ![c] = TRUE]
  /\ lastDelivered' = [lastDelivered EXCEPT ![c] = sequence]
  /\ outstanding' = [outstanding EXCEPT ![c] = 0]
  /\ at' = [at EXCEPT ![c] = sequence + 1] /\ atEpoch' = [atEpoch EXCEPT ![c] = epoch]
  /\ acked' = [acked EXCEPT ![c] = sequence]
  /\ snapshots' = [snapshots EXCEPT ![c] = @ + 1]
  /\ UNCHANGED <<stream, wire>>

\* subscribe with a cursor the window no longer covers: the response says so
\* and the subscription starts at the end of the stream.
SubscribeResync(c) ==
  /\ ~open[c] /\ wire[c] = <<>> /\ Resync(c)
  /\ open' = [open EXCEPT ![c] = TRUE]
  /\ lastDelivered' = [lastDelivered EXCEPT ![c] = sequence]
  /\ outstanding' = [outstanding EXCEPT ![c] = 0]
  /\ at' = [at EXCEPT ![c] = sequence] /\ atEpoch' = [atEpoch EXCEPT ![c] = epoch]
  /\ acked' = [acked EXCEPT ![c] = sequence]
  /\ snapshots' = [snapshots EXCEPT ![c] = @ + 1]
  /\ UNCHANGED <<stream, wire>>

\* The retained events after the cursor, the oldest first.
Missed(c) ==
  LET from == IF oldest > at[c] + 1 THEN oldest ELSE at[c] + 1
  IN  [i \in 1..(sequence - from + 1) |-> Event(from + i - 1)]

\* subscribe with a cursor inside the window: the missed events are delivered
\* at once; when they are more than the bound the subscription is closed
\* before subscribe returns.
SubscribeReplay(c) ==
  LET missed == Missed(c)
      fits   == Len(missed) <= MaxOutstanding
      sent   == IF fits THEN missed ELSE SubSeq(missed, 1, MaxOutstanding)
      last   == at[c] + Len(sent)
  IN  /\ ~open[c] /\ wire[c] = <<>> /\ ~Resync(c)
      /\ open' = [open EXCEPT ![c] = fits]
      /\ wire' = [wire EXCEPT ![c] = IF fits THEN sent ELSE Append(sent, TooSlow(last))]
      /\ lastDelivered' = [lastDelivered EXCEPT ![c] = last]
      /\ outstanding' = [outstanding EXCEPT ![c] = Len(sent)]
      /\ acked' = [acked EXCEPT ![c] = at[c]]
      /\ UNCHANGED <<stream, client>>

\* attach returns a snapshot with the cursor it is valid at; the client
\* subscribes from there.
TakeSnapshot(c) ==
  /\ ~open[c] /\ wire[c] = <<>>
  /\ at' = [at EXCEPT ![c] = sequence] /\ atEpoch' = [atEpoch EXCEPT ![c] = epoch]
  /\ snapshots' = [snapshots EXCEPT ![c] = @ + 1]
  /\ UNCHANGED <<stream, open, lastDelivered, outstanding, wire, acked>>

\* Mutant: an acknowledgement clears the counter.
AckClears(c, n) ==
  /\ open[c] /\ n \in (acked[c] + 1)..at[c]
  /\ acked' = [acked EXCEPT ![c] = n] /\ outstanding' = [outstanding EXCEPT ![c] = 0]
  /\ UNCHANGED <<stream, open, lastDelivered, wire, client>>

\* ack: everything up to n has been applied.
Ack(c, n) ==
  /\ open[c] /\ n \in (acked[c] + 1)..at[c]
  /\ acked' = [acked EXCEPT ![c] = n]
  /\ outstanding' = [outstanding EXCEPT ![c] =
       IF n >= lastDelivered[c] THEN 0 ELSE lastDelivered[c] - n]
  /\ UNCHANGED <<stream, open, lastDelivered, wire, client>>

\* unsubscribe, or the connection drops with what it carries.
Unsubscribe(c) ==
  /\ open[c] \/ wire[c] # <<>>
  /\ open' = [open EXCEPT ![c] = FALSE]
  /\ wire' = [wire EXCEPT ![c] = <<>>]
  /\ UNCHANGED <<stream, lastDelivered, outstanding, acked, client>>

\* A restarted Host has a new epoch and an empty log; what it had written may
\* still reach the clients.
HostRestarts ==
  /\ epoch < MaxEpoch
  /\ epoch' = epoch + 1 /\ sequence' = 0 /\ oldest' = 1
  /\ open' = [c \in Subscriber |-> FALSE]
  /\ UNCHANGED <<lastDelivered, outstanding, wire, acked, client>>

-----------------------------------------------------------------------------
(* The client *)

\* An event, or the cursor that comes with CLIENT_TOO_SLOW, becomes the cursor.
Apply(c) ==
  /\ wire[c] # <<>>
  /\ at' = [at EXCEPT ![c] = Head(wire[c]).n]
  /\ wire' = [wire EXCEPT ![c] = Tail(@)]
  /\ UNCHANGED <<stream, open, lastDelivered, outstanding, atEpoch, acked, snapshots>>

HubNext ==
  \/ Publish \/ HostRestarts
  \/ \E c \in Subscriber :
       \/ SubscribeResync(c) \/ SubscribeReplay(c) \/ TakeSnapshot(c)
       \/ Unsubscribe(c) \/ Apply(c)
       \/ \E n \in 1..MaxSequence : Ack(c, n)

HubSpec == HubInit /\ [][HubNext]_hubVars

-----------------------------------------------------------------------------
(* Properties *)

\* "Eviction and epoch change MUST make the cursor invalid and cause
\* resync.required, never silent loss" (docs/spec/03-runtime/
\* 19-remote-agent-control-protocol.md:851): a client's cursor moves to the
\* next event, or with a snapshot; a close leaves it where it was.
NoSilentLoss ==
  [][\A c \in Subscriber :
       \/ at'[c] = at[c] /\ atEpoch'[c] = atEpoch[c]
       \/ at'[c] = at[c] + 1 /\ atEpoch'[c] = atEpoch[c]
       \/ snapshots'[c] = snapshots[c] + 1]_hubVars

\* The log and its subscriptions implement the gapless feed: beyond
\* NoSilentLoss, a client never holds a cursor of an event that was not
\* published, and a snapshot takes it to the very end of the current epoch,
\* whatever was evicted, closed, dropped or restarted meanwhile.
Feed == INSTANCE GaplessFeed WITH Client <- Subscriber, length <- sequence
ImplementsFeed == Feed!FeedSpec

\* A live subscription has been given every event of its stream, and what its
\* client has not acknowledged is counted and stays within the bound.
LiveIsCurrent ==
  \A c \in Subscriber : open[c] =>
    /\ lastDelivered[c] = sequence
    /\ outstanding[c] = sequence - acked[c]
    /\ outstanding[c] <= MaxOutstanding

\* A client that goes on reading gets every event of the epoch, or a snapshot.
CatchesUp ==
  \A c \in Subscriber, n \in 1..MaxSequence :
    (epoch = MaxEpoch /\ sequence >= n)
      ~> (atEpoch[c] = MaxEpoch /\ at[c] >= n)

=============================================================================
