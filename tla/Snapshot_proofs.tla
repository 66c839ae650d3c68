--------------------------- MODULE Snapshot_proofs ---------------------------
(***************************************************************************)
(* Proofs about EventHub, for every number of subscribers and every value  *)
(* of the bounds, and about Snapshot, for any number of clients and items  *)
(* as well: the stream implements the gapless feed, a session with its     *)
(* attaching clients uses it as EventHub describes it, and a snapshot with *)
(* the events after it shows in flight what was in flight at the cursor    *)
(* and completed what had been completed there.                            *)
(***************************************************************************)
EXTENDS Snapshot, TLAPS

\* What a connection carries continues the client's cursor without a gap; a
\* CLIENT_TOO_SLOW is the last message and carries the cursor reached there.
Gapless(w, from) ==
  \A i \in 1..Len(w) :
    /\ w[i].kind = "event" => w[i].n = from + i
    /\ w[i].kind = "too_slow" => w[i].n = from + i - 1 /\ i = Len(w)

\* A subscription is of the current epoch, has delivered the whole stream, and
\* all it delivered is applied or on its way.
Subscribed(c) ==
  /\ atEpoch[c] = epoch
  /\ lastDelivered[c] = sequence
  /\ lastDelivered[c] = at[c] + Len(wire[c])
  /\ \A i \in 1..Len(wire[c]) : wire[c][i].kind = "event"
  /\ acked[c] <= at[c]
  /\ outstanding[c] = lastDelivered[c] - acked[c]
  /\ outstanding[c] <= MaxOutstanding

HubInv ==
  /\ HubTypeOK
  /\ \A c \in Subscriber : Gapless(wire[c], at[c])
  /\ \A c \in Subscriber : open[c] => Subscribed(c)

-----------------------------------------------------------------------------

\* The retained events that replay() delivers start right after the cursor.
LEMMA MissedFromCursor ==
  ASSUME HubTypeOK, NEW c \in Subscriber, ~Resync(c)
  PROVE  /\ at[c] \in Nat /\ at[c] <= sequence
         /\ Missed(c) = [i \in 1..(sequence - at[c]) |-> Event(at[c] + i)]
<1>1. at[c] \in Nat /\ at[c] <= sequence
  BY DEF HubTypeOK, Resync
<1>2. CASE oldest > at[c] + 1
  <2>1. at[c] = sequence /\ oldest = sequence + 1
    BY <1>1, <1>2 DEF HubTypeOK, Resync
  <2>2. 1..(sequence - oldest + 1) = {} /\ 1..(sequence - at[c]) = {}
    BY <2>1, <1>1 DEF HubTypeOK
  <2> QED BY <1>1, <1>2, <2>2 DEF Missed
<1>3. CASE ~(oldest > at[c] + 1)
  <2>1. sequence - (at[c] + 1) + 1 = sequence - at[c]
    BY <1>1 DEF HubTypeOK
  <2>2. \A i \in 1..(sequence - at[c]) : at[c] + 1 + i - 1 = at[c] + i
    BY <1>1
  <2> QED BY <1>1, <1>3, <2>1, <2>2 DEF Missed
<1> QED BY <1>2, <1>3

\* A run of consecutive events is a sequence of messages.
LEMMA EventRun ==
  ASSUME NEW from \in Nat, NEW n \in Nat
  PROVE  LET run == [i \in 1..n |-> Event(from + i)]
         IN  run \in Seq(Message) /\ Len(run) = n /\ \A i \in 1..n : run[i] = Event(from + i)
<1> DEFINE run == [i \in 1..n |-> Event(from + i)]
<1>1. \A i \in 1..n : Event(from + i) \in Message
  BY DEF Event, Message
<1>2. run \in [1..n -> Message]
  BY <1>1
<1>3. run \in Seq(Message)
  BY <1>2
<1>4. Len(run) = n
  BY <1>2
<1> QED BY <1>3, <1>4

\* A message after a run of events keeps it gapless: the next event, or the
\* close with the cursor of the last one.
LEMMA AppendGapless ==
  ASSUME NEW w \in Seq(Message), NEW from \in Nat, NEW m \in Message,
         \A i \in 1..Len(w) : w[i].kind = "event" /\ w[i].n = from + i,
         m = Event(from + Len(w) + 1) \/ m = TooSlow(from + Len(w))
  PROVE  /\ Append(w, m) \in Seq(Message) /\ Len(Append(w, m)) = Len(w) + 1
         /\ Gapless(Append(w, m), from)
         /\ m.kind = "event" => \A i \in 1..(Len(w) + 1) : Append(w, m)[i].kind = "event"
<1> DEFINE a == Append(w, m)
           n == Len(w)
<1>1. /\ a \in Seq(Message) /\ n \in Nat /\ Len(a) = n + 1 /\ a[n + 1] = m
      /\ \A i \in 1..n : a[i] = w[i]
  OBVIOUS
<1>2. \A i \in 1..n : a[i].kind = "event" /\ a[i].n = from + i
  BY <1>1
<1>3. \/ m.kind = "event" /\ m.n = from + (n + 1)
      \/ m.kind = "too_slow" /\ m.n = from + (n + 1) - 1
  BY <1>1 DEF Event, TooSlow
<1> HIDE DEF a, n
<1>4. ASSUME NEW i \in 1..Len(a)
      PROVE  /\ a[i].kind = "event" => a[i].n = from + i
             /\ a[i].kind = "too_slow" => a[i].n = from + i - 1 /\ i = Len(a)
             /\ m.kind = "event" => a[i].kind = "event"
  <2>1. CASE i \in 1..n
    BY <2>1, <1>2
  <2>2. CASE i = n + 1
    BY <2>2, <1>1, <1>3
  <2> QED BY <2>1, <2>2, <1>1
<1>5. Gapless(a, from)
  BY <1>4, SMTT(40) DEF Gapless
<1> QED BY <1>1, <1>4, <1>5 DEF a, n

\* The first message of a gapless wire is the next event, after which the rest
\* is gapless again, or the close, and then it is the only one.
LEMMA TailGapless ==
  ASSUME NEW w \in Seq(Message), w # <<>>, NEW from \in Nat, Gapless(w, from)
  PROVE  /\ Head(w).n \in Nat /\ Tail(w) \in Seq(Message)
         /\ Len(Tail(w)) = Len(w) - 1 /\ Len(w) \in Nat
         /\ \A i \in 1..Len(Tail(w)) : i + 1 \in 1..Len(w) /\ Tail(w)[i] = w[i + 1]
         /\ Gapless(Tail(w), Head(w).n)
         /\ Head(w) = w[1] /\ 1 \in 1..Len(w)
         /\ \/ Head(w).kind = "event" /\ Head(w).n = from + 1
            \/ Head(w).kind = "too_slow" /\ Head(w).n = from
<1> DEFINE t == Tail(w)
           n == Len(w)
<1>1. /\ n \in Nat /\ n >= 1 /\ Head(w) = w[1] /\ w[1] \in Message
      /\ t \in Seq(Message) /\ Len(t) = n - 1
  OBVIOUS
<1>2. \A i \in 1..(n - 1) : t[i] = w[i + 1]
  BY <1>1
<1>3. w[1].n \in Nat /\ w[1].kind \in {"event", "too_slow"}
  BY <1>1 DEF Message
<1>4. \A i \in 1..n :
        /\ w[i].kind = "event" => w[i].n = from + i
        /\ w[i].kind = "too_slow" => w[i].n = from + i - 1 /\ i = n
  BY DEF Gapless
<1> HIDE DEF t, n
<1>5. 1 \in 1..n
  BY <1>1
<1>6. \/ w[1].kind = "event" /\ w[1].n = from + 1
      \/ w[1].kind = "too_slow" /\ w[1].n = from /\ n = 1
  BY <1>3, <1>4, <1>5
<1>7. ASSUME NEW i \in 1..(n - 1)
      PROVE  /\ i + 1 \in 1..n /\ t[i] = w[i + 1] /\ i \in Nat
             /\ t[i].kind = "event" => t[i].n = w[1].n + i
             /\ t[i].kind = "too_slow" => t[i].n = w[1].n + i - 1 /\ i = n - 1
  <2>1. i + 1 \in 1..n /\ i \in Nat /\ n > 1
    BY <1>1
  <2>2. w[1].n = from + 1
    BY <2>1, <1>6
  <2>3. t[i] = w[i + 1]
    BY <1>2
  <2>4. /\ w[i + 1].kind = "event" => w[i + 1].n = from + (i + 1)
        /\ w[i + 1].kind = "too_slow" => w[i + 1].n = from + (i + 1) - 1 /\ i + 1 = n
    BY <1>4, <2>1
  <2> QED BY <2>1, <2>2, <2>3, <2>4, <1>1
<1>8. Gapless(t, w[1].n)
  BY <1>1, <1>7 DEF Gapless
<1> QED BY <1>1, <1>3, <1>5, <1>6, <1>7, <1>8 DEF t, n

\* What the invariant says of one subscriber.
LEMMA HubInvAt ==
  ASSUME HubInv, NEW c \in Subscriber
  PROVE  /\ at[c] \in Nat /\ lastDelivered[c] \in Nat /\ outstanding[c] \in Nat
         /\ acked[c] \in Nat /\ sequence \in Nat /\ open[c] \in BOOLEAN
         /\ wire[c] \in Seq(Message) /\ Len(wire[c]) \in Nat
         /\ \A i \in 1..Len(wire[c]) :
              /\ wire[c][i].kind = "event" => wire[c][i].n = at[c] + i
              /\ wire[c][i].kind = "too_slow" =>
                   wire[c][i].n = at[c] + i - 1 /\ i = Len(wire[c])
         /\ open[c] => \A i \in 1..Len(wire[c]) :
              wire[c][i].kind = "event" /\ wire[c][i].n = at[c] + i
BY DEF HubInv, HubTypeOK, Gapless, Subscribed

\* Initially nothing is subscribed and nothing is on the wire.
LEMMA HubInitInv == ASSUME HubInit PROVE HubInv
BY DEF HubInit, HubInv, HubTypeOK, Gapless, Message

\* publish() keeps the invariant: the event, or the close, continues the wire.
LEMMA PublishInv == ASSUME HubInv, Publish PROVE HubInv'
<1>1. /\ sequence \in Nat /\ sequence' = sequence + 1 /\ epoch' = epoch /\ epoch \in Nat
      /\ oldest' \in 1..(sequence' + 1)
      /\ at' = at /\ atEpoch' = atEpoch /\ acked' = acked /\ snapshots' = snapshots
  BY DEF Publish, client, HubInv, HubTypeOK
<1>2. ASSUME NEW c \in Subscriber
      PROVE  /\ open'[c] \in BOOLEAN /\ lastDelivered'[c] \in Nat
             /\ outstanding'[c] \in Nat /\ wire'[c] \in Seq(Message)
             /\ Gapless(wire'[c], at'[c])
             /\ open'[c] => Subscribed(c)'
  <2>1. /\ wire[c] \in Seq(Message) /\ Len(wire[c]) \in Nat
        /\ at[c] \in Nat /\ acked[c] \in Nat
        /\ lastDelivered[c] \in Nat /\ outstanding[c] \in Nat /\ open[c] \in BOOLEAN
    BY HubInvAt
  <2>2. CASE ~open[c]
    <3>1. /\ wire'[c] = wire[c] /\ ~open'[c] /\ open'[c] \in BOOLEAN
          /\ lastDelivered'[c] = lastDelivered[c] /\ outstanding'[c] = outstanding[c]
      BY <2>2 DEF Publish
    <3>2. Gapless(wire[c], at[c])
      BY DEF HubInv
    <3> QED BY <3>1, <3>2, <2>1, <1>1
  <2>3. CASE open[c]
    <3>1. /\ lastDelivered[c] = sequence /\ sequence = at[c] + Len(wire[c])
          /\ atEpoch[c] = epoch /\ acked[c] <= at[c]
          /\ outstanding[c] = lastDelivered[c] - acked[c]
          /\ outstanding[c] <= MaxOutstanding
      BY <2>3 DEF HubInv, Subscribed
    <3>2. \A i \in 1..Len(wire[c]) : wire[c][i].kind = "event" /\ wire[c][i].n = at[c] + i
      BY <2>3, HubInvAt
    <3>3. CASE Fits(c)
      <4> DEFINE m == Event(sequence + 1)
      <4>1. /\ open'[c] /\ wire'[c] = Append(wire[c], m) /\ open'[c] \in BOOLEAN
            /\ lastDelivered'[c] = sequence + 1 /\ outstanding'[c] = outstanding[c] + 1
        BY <2>3, <3>3 DEF Publish
      <4>2. m \in Message /\ m = Event(at[c] + Len(wire[c]) + 1) /\ m.kind = "event"
        BY <3>1, <1>1 DEF Event, Message
      <4> HIDE DEF m
      <4>3. /\ wire'[c] \in Seq(Message) /\ Len(wire'[c]) = Len(wire[c]) + 1
            /\ Gapless(wire'[c], at[c])
            /\ \A i \in 1..Len(wire'[c]) : wire'[c][i].kind = "event"
        <5>1. /\ Append(wire[c], m) \in Seq(Message)
              /\ Len(Append(wire[c], m)) = Len(wire[c]) + 1
              /\ Gapless(Append(wire[c], m), at[c])
              /\ \A i \in 1..(Len(wire[c]) + 1) : Append(wire[c], m)[i].kind = "event"
          BY <4>2, <3>2, <2>1, AppendGapless
        <5> QED BY <5>1, <4>1
      <4>4. outstanding[c] + 1 <= MaxOutstanding
        BY <3>3, <2>1, HubAssumption DEF Fits
      <4>5. /\ atEpoch'[c] = epoch' /\ lastDelivered'[c] = sequence'
            /\ lastDelivered'[c] = at'[c] + Len(wire'[c]) /\ acked'[c] <= at'[c]
            /\ outstanding'[c] = lastDelivered'[c] - acked'[c]
            /\ outstanding'[c] <= MaxOutstanding
        <5>1. /\ at'[c] = at[c] /\ atEpoch'[c] = atEpoch[c] /\ acked'[c] = acked[c]
          BY <1>1
        <5>2. lastDelivered'[c] = at'[c] + Len(wire'[c])
          BY <5>1, <4>1, <4>3, <3>1, <2>1, <1>1
        <5>3. outstanding'[c] = lastDelivered'[c] - acked'[c]
          BY <5>1, <4>1, <3>1, <2>1, <1>1
        <5> QED BY <5>1, <5>2, <5>3, <4>1, <4>4, <3>1, <1>1
      <4>6. Subscribed(c)'
        BY <4>3, <4>5 DEF Subscribed
      <4> QED BY <4>1, <4>3, <4>6, <2>1, <1>1
    <3>4. CASE ~Fits(c)
      <4> DEFINE m == TooSlow(lastDelivered[c])
      <4>1. /\ ~open'[c] /\ wire'[c] = Append(wire[c], m) /\ open'[c] \in BOOLEAN
            /\ lastDelivered'[c] = lastDelivered[c] /\ outstanding'[c] = outstanding[c]
        BY <2>3, <3>4 DEF Publish
      <4>2. m \in Message /\ m = TooSlow(at[c] + Len(wire[c]))
        BY <3>1, <2>1 DEF TooSlow, Message
      <4> HIDE DEF m
      <4>3. wire'[c] \in Seq(Message) /\ Gapless(wire'[c], at[c])
        BY <4>1, <4>2, <3>2, <2>1, AppendGapless
      <4> QED BY <4>1, <4>3, <2>1, <1>1
    <3> QED BY <3>3, <3>4
  <2> QED BY <2>2, <2>3
<1>3. HubTypeOK'
  BY <1>1, <1>2 DEF Publish, HubInv, HubTypeOK
<1> QED BY <1>2, <1>3 DEF HubInv

\* A resynchronized subscription starts at the end of the stream.
LEMMA ResyncInv ==
  ASSUME HubInv, NEW c \in Subscriber, SubscribeResync(c)
  PROVE  HubInv'
<1> USE DEF HubInv, HubTypeOK
<1>1. HubTypeOK'
  BY DEF SubscribeResync, stream
<1>2. ASSUME NEW d \in Subscriber
      PROVE  Gapless(wire'[d], at'[d]) /\ (open'[d] => Subscribed(d)')
  <2>1. CASE d = c
    BY <2>1, HubAssumption DEF SubscribeResync, Gapless, Subscribed, stream
  <2>2. CASE d # c
    BY <2>2 DEF SubscribeResync, Gapless, Subscribed, stream
  <2> QED BY <2>1, <2>2
<1> QED BY <1>1, <1>2

\* A snapshot is of the end of the stream and subscribes nothing.
LEMMA SnapshotInv ==
  ASSUME HubInv, NEW c \in Subscriber, TakeSnapshot(c)
  PROVE  HubInv'
<1> USE DEF HubInv, HubTypeOK
<1>1. HubTypeOK'
  BY SMTT(40) DEF TakeSnapshot, stream
<1>2. ASSUME NEW d \in Subscriber
      PROVE  Gapless(wire'[d], at'[d]) /\ (open'[d] => Subscribed(d)')
  <2>1. CASE d = c
    BY <2>1 DEF TakeSnapshot, Gapless, stream
  <2>2. CASE d # c
    BY <2>2 DEF TakeSnapshot, Gapless, Subscribed, stream
  <2> QED BY <2>1, <2>2
<1> QED BY <1>1, <1>2

\* A replay delivers exactly the events after the cursor, or their beginning
\* and the cursor it stopped at.
LEMMA ReplayInv ==
  ASSUME HubInv, NEW c \in Subscriber, SubscribeReplay(c)
  PROVE  HubInv'
<1> DEFINE k == IF sequence - at[c] <= MaxOutstanding THEN sequence - at[c]
                ELSE MaxOutstanding
           sent == [i \in 1..k |-> Event(at[c] + i)]
           fits == sequence - at[c] <= MaxOutstanding
<1>1. at[c] \in Nat /\ at[c] <= sequence /\ sequence \in Nat /\ atEpoch[c] = epoch
  BY MissedFromCursor DEF SubscribeReplay, Resync, HubInv, HubTypeOK
<1>2. k \in Nat /\ sequence - at[c] \in Nat /\ k <= MaxOutstanding /\ k <= sequence - at[c]
  BY <1>1, HubAssumption
<1>3. Missed(c) = [i \in 1..(sequence - at[c]) |-> Event(at[c] + i)]
  BY MissedFromCursor DEF SubscribeReplay, HubInv
<1>5. /\ sent \in Seq(Message) /\ Len(sent) = k
      /\ \A i \in 1..k : sent[i] = Event(at[c] + i)
  BY <1>1, <1>2, EventRun
<1>6. Missed(c) \in Seq(Message) /\ Len(Missed(c)) = sequence - at[c]
  <2> DEFINE all == sequence - at[c]
  <2>1. all \in Nat
    BY <1>2
  <2> HIDE DEF all
  <2>2. /\ [i \in 1..all |-> Event(at[c] + i)] \in Seq(Message)
        /\ Len([i \in 1..all |-> Event(at[c] + i)]) = all
    BY <2>1, <1>1, EventRun
  <2> QED BY <2>2, <1>3 DEF all
<1>7. ~fits => SubSeq(Missed(c), 1, MaxOutstanding) = sent
  BY <1>2, <1>3, <1>5, <1>6, HubAssumption
<1>8. /\ open' = [open EXCEPT ![c] = fits]
      /\ wire' = [wire EXCEPT ![c] = IF fits THEN sent ELSE Append(sent, TooSlow(at[c] + k))]
      /\ lastDelivered' = [lastDelivered EXCEPT ![c] = at[c] + k]
      /\ outstanding' = [outstanding EXCEPT ![c] = k]
      /\ acked' = [acked EXCEPT ![c] = at[c]]
      /\ UNCHANGED <<stream, client>>
  <2>1. CASE fits
    BY <2>1, <1>3, <1>5, <1>6 DEF SubscribeReplay
  <2>2. CASE ~fits
    BY <2>2, <1>5, <1>6, <1>7 DEF SubscribeReplay
  <2> QED BY <2>1, <2>2
<1>9. /\ wire'[c] \in Seq(Message) /\ Gapless(wire'[c], at[c])
      /\ fits => /\ Len(wire'[c]) = k
                 /\ \A i \in 1..Len(wire'[c]) : wire'[c][i].kind = "event"
  <2>1. \A i \in 1..Len(sent) : sent[i].kind = "event" /\ sent[i].n = at[c] + i
    BY <1>5 DEF Event
  <2>3. TooSlow(at[c] + k) \in Message
    BY <1>1, <1>2 DEF TooSlow, Message
  <2> HIDE DEF k, sent, fits
  <2>2. wire'[c] = IF fits THEN sent ELSE Append(sent, TooSlow(at[c] + k))
    BY <1>8 DEF HubInv, HubTypeOK
  <2>4. CASE fits
    BY <2>4, <2>1, <2>2, <1>5 DEF Gapless
  <2>5. CASE ~fits
    <3>1. TooSlow(at[c] + k) = TooSlow(at[c] + Len(sent))
      BY <1>5
    <3>2. Append(sent, TooSlow(at[c] + k)) \in Seq(Message)
      BY <2>1, <2>3, <3>1, <1>1, <1>5, AppendGapless
    <3>3. Gapless(Append(sent, TooSlow(at[c] + k)), at[c])
      BY <2>1, <2>3, <3>1, <1>1, <1>5, AppendGapless
    <3> QED BY <3>2, <3>3, <2>2, <2>5
  <2> QED BY <2>4, <2>5
<1>10. fits \in BOOLEAN /\ (fits => k = sequence - at[c]) /\ at[c] + k \in Nat
  BY <1>1, <1>2
<1> HIDE DEF k, sent, fits
<1>11. /\ sequence' = sequence /\ epoch' = epoch /\ oldest' = oldest
       /\ at' = at /\ atEpoch' = atEpoch /\ snapshots' = snapshots
  BY <1>8 DEF stream, client
<1>12. wire' \in [Subscriber -> Seq(Message)]
  BY <1>8, <1>9 DEF HubInv, HubTypeOK
<1>13. HubTypeOK'
  BY <1>1, <1>2, <1>8, <1>10, <1>11, <1>12 DEF HubInv, HubTypeOK
<1>14. ASSUME NEW d \in Subscriber
       PROVE  Gapless(wire'[d], at'[d]) /\ (open'[d] => Subscribed(d)')
  <2>1. CASE d = c
    <3>1. /\ open'[c] = fits /\ lastDelivered'[c] = at[c] + k /\ outstanding'[c] = k
          /\ acked'[c] = at[c]
      BY <1>8 DEF HubInv, HubTypeOK
    <3>2. ASSUME fits
          PROVE  /\ atEpoch'[c] = epoch' /\ lastDelivered'[c] = sequence'
                 /\ lastDelivered'[c] = at'[c] + Len(wire'[c]) /\ acked'[c] <= at'[c]
                 /\ outstanding'[c] = lastDelivered'[c] - acked'[c]
                 /\ outstanding'[c] <= MaxOutstanding
      <4>1. k = sequence - at[c] /\ at[c] + k = sequence /\ Len(wire'[c]) = k
        BY <3>2, <1>1, <1>2, <1>9, <1>10
      <4>2. at'[c] = at[c] /\ atEpoch'[c] = atEpoch[c]
        BY <1>11
      <4> QED BY <4>1, <4>2, <3>1, <1>1, <1>2, <1>11
    <3> QED BY <2>1, <3>1, <3>2, <1>9, <1>11 DEF Subscribed
  <2>2. CASE d # c
    <3>1. /\ open'[d] = open[d] /\ wire'[d] = wire[d] /\ lastDelivered'[d] = lastDelivered[d]
          /\ outstanding'[d] = outstanding[d] /\ acked'[d] = acked[d]
      BY <2>2, <1>8 DEF HubInv, HubTypeOK
    <3> QED BY <3>1, <1>11 DEF HubInv, Subscribed
  <2> QED BY <2>1, <2>2
<1> QED BY <1>13, <1>14 DEF HubInv

\* ack() leaves outstanding the events after the acknowledged one.
LEMMA AckInv ==
  ASSUME HubInv, NEW c \in Subscriber, NEW n \in 1..MaxSequence, Ack(c, n)
  PROVE  HubInv'
<1> DEFINE left == IF n >= lastDelivered[c] THEN 0 ELSE lastDelivered[c] - n
<1>1. /\ at[c] \in Nat /\ lastDelivered[c] \in Nat /\ acked[c] \in Nat
      /\ Len(wire[c]) \in Nat /\ open[c] /\ Subscribed(c)
  BY HubInvAt DEF Ack, HubInv
<1>2. n \in Nat /\ n <= at[c] /\ acked[c] < n /\ at[c] <= lastDelivered[c]
  BY <1>1, HubAssumption DEF Ack, Subscribed
<1>3. left \in Nat /\ left = lastDelivered[c] - n /\ left <= MaxOutstanding
  BY <1>1, <1>2, HubAssumption, SMTT(40) DEF Subscribed
<1>4. /\ acked' = [acked EXCEPT ![c] = n]
      /\ outstanding' = [outstanding EXCEPT ![c] = left]
      /\ sequence' = sequence /\ epoch' = epoch /\ oldest' = oldest
      /\ at' = at /\ atEpoch' = atEpoch /\ snapshots' = snapshots
      /\ open' = open /\ lastDelivered' = lastDelivered /\ wire' = wire
  BY DEF Ack, stream, client
<1> HIDE DEF left
<1>5. HubTypeOK'
  BY <1>2, <1>3, <1>4 DEF HubInv, HubTypeOK
<1>6. ASSUME NEW d \in Subscriber, open'[d] PROVE Subscribed(d)'
  <2>1. CASE d = c
    <3>1. acked'[c] = n /\ outstanding'[c] = left
      BY <1>4 DEF HubInv, HubTypeOK
    <3> QED BY <2>1, <3>1, <1>1, <1>2, <1>3, <1>4 DEF Subscribed
  <2>2. CASE d # c
    <3>1. acked'[d] = acked[d] /\ outstanding'[d] = outstanding[d]
      BY <2>2, <1>4 DEF HubInv, HubTypeOK
    <3> QED BY <3>1, <1>4, <1>6 DEF HubInv, Subscribed
  <2> QED BY <2>1, <2>2
<1> QED BY <1>4, <1>5, <1>6 DEF HubInv

\* A dropped connection carries nothing.
LEMMA UnsubscribeInv ==
  ASSUME HubInv, NEW c \in Subscriber, Unsubscribe(c)
  PROVE  HubInv'
<1> USE DEF HubInv, HubTypeOK
<1>1. HubTypeOK'
  BY DEF Unsubscribe, stream, client
<1>2. ASSUME NEW d \in Subscriber
      PROVE  Gapless(wire'[d], at'[d]) /\ (open'[d] => Subscribed(d)')
  BY SMTT(40) DEF Unsubscribe, Gapless, Subscribed, stream, client
<1> QED BY <1>1, <1>2

\* The messages left when the Host restarts still continue the cursors.
LEMMA RestartInv == ASSUME HubInv, HostRestarts PROVE HubInv'
BY DEF HostRestarts, HubInv, HubTypeOK, Gapless, client

\* The head of the wire is the next event, or closes at the cursor itself.
LEMMA ApplyInv ==
  ASSUME HubInv, NEW c \in Subscriber, Apply(c)
  PROVE  /\ HubInv'
         /\ at'[c] = at[c] \/ at'[c] = at[c] + 1
<1> DEFINE w == wire[c]
<1>1. w \in Seq(Message) /\ w # <<>> /\ at[c] \in Nat /\ Gapless(w, at[c])
  BY HubInvAt DEF Apply, HubInv
<1>2. /\ Head(w).n \in Nat /\ Tail(w) \in Seq(Message)
      /\ Len(Tail(w)) = Len(w) - 1 /\ Len(w) \in Nat
      /\ \A i \in 1..Len(Tail(w)) : i + 1 \in 1..Len(w) /\ Tail(w)[i] = w[i + 1]
      /\ Gapless(Tail(w), Head(w).n)
      /\ Head(w) = w[1] /\ 1 \in 1..Len(w)
      /\ \/ Head(w).kind = "event" /\ Head(w).n = at[c] + 1
         \/ Head(w).kind = "too_slow" /\ Head(w).n = at[c]
  BY <1>1, TailGapless
<1> DEFINE first == Head(w).n
           rest == Tail(w)
<1>3. /\ at' = [at EXCEPT ![c] = first] /\ wire' = [wire EXCEPT ![c] = rest]
      /\ sequence' = sequence /\ epoch' = epoch /\ oldest' = oldest
      /\ open' = open /\ lastDelivered' = lastDelivered /\ outstanding' = outstanding
      /\ atEpoch' = atEpoch /\ acked' = acked /\ snapshots' = snapshots
  BY DEF Apply, stream
<1>4. at'[c] = first /\ wire'[c] = rest
  BY <1>3 DEF HubInv, HubTypeOK
<1>5. ASSUME open[c]
      PROVE  /\ first = at[c] + 1
             /\ \A i \in 1..Len(rest) : rest[i].kind = "event"
  <2>1. \A i \in 1..Len(w) : w[i].kind = "event"
    BY <1>5 DEF HubInv, Subscribed
  <2>2. Head(w).kind = "event"
    BY <2>1, <1>2
  <2> QED BY <2>1, <2>2, <1>2
<1> HIDE DEF w, first, rest
<1>6. HubTypeOK'
  BY <1>2, <1>3 DEF HubInv, HubTypeOK, first, rest
<1>7. ASSUME NEW d \in Subscriber
      PROVE  Gapless(wire'[d], at'[d]) /\ (open'[d] => Subscribed(d)')
  <2>1. CASE d = c
    <3>1. Gapless(wire'[c], at'[c])
      BY <1>2, <1>4 DEF first, rest
    <3>2. ASSUME open[c] PROVE Subscribed(c)'
      <4>1. at'[c] = at[c] + 1 /\ Len(wire'[c]) = Len(wire[c]) - 1 /\ Len(wire[c]) \in Nat
        BY <1>2, <1>4, <1>5, <3>2 DEF rest, w
      <4>2. \A i \in 1..Len(wire'[c]) : wire'[c][i].kind = "event"
        BY <1>4, <1>5, <3>2
      <4>3. lastDelivered'[c] = at'[c] + Len(wire'[c]) /\ acked'[c] <= at'[c]
        <5>1. /\ lastDelivered[c] = at[c] + Len(wire[c]) /\ acked[c] <= at[c]
              /\ acked[c] \in Nat /\ lastDelivered'[c] = lastDelivered[c]
              /\ acked'[c] = acked[c]
          BY <1>3, <3>2, HubInvAt DEF HubInv, Subscribed
        <5> QED BY <5>1, <4>1, <1>1
      <4> QED BY <4>2, <4>3, <1>3, <3>2 DEF HubInv, Subscribed
    <3> QED BY <2>1, <3>1, <3>2, <1>3
  <2>2. CASE d # c
    <3>1. at'[d] = at[d] /\ wire'[d] = wire[d]
      BY <2>2, <1>3 DEF HubInv, HubTypeOK
    <3> QED BY <3>1, <1>3 DEF HubInv, Subscribed
  <2> QED BY <2>1, <2>2
<1>8. at'[c] = at[c] \/ at'[c] = at[c] + 1
  BY <1>2, <1>4 DEF first
<1> QED BY <1>6, <1>7, <1>8 DEF HubInv

\* Every step keeps the invariant.
LEMMA HubNextInv == ASSUME HubInv, [HubNext]_hubVars PROVE HubInv'
<1>1. CASE UNCHANGED hubVars
  BY <1>1 DEF hubVars, HubInv, HubTypeOK, Gapless, Subscribed
<1>2. CASE HubNext
  BY <1>2, PublishInv, RestartInv, ResyncInv, SnapshotInv, ReplayInv, UnsubscribeInv,
           ApplyInv, AckInv
     DEF HubNext
<1> QED BY <1>1, <1>2

\* The invariant holds of every behaviour.
THEOREM HubInvariant == HubSpec => []HubInv
BY HubInitInv, HubNextInv, PTL DEF HubSpec

\* publish(), subscribe(), deliver() and ack(): a subscription that is open has
\* been given the whole stream, and its counter says exactly how many events its
\* client has not acknowledged, never more than the bound.
THEOREM LiveSubscriptionIsCurrent == HubSpec => []LiveIsCurrent
<1>1. HubInv => LiveIsCurrent
  BY DEF HubInv, LiveIsCurrent, Subscribed
<1> QED BY <1>1, HubInvariant, PTL

\* replay(), deliver() and the close with a cursor: no client ever skips an
\* event without being told to take a snapshot.
THEOREM FeedHasNoSilentLoss == HubSpec => NoSilentLoss
<1> DEFINE Step == \A c \in Subscriber :
       \/ at'[c] = at[c] /\ atEpoch'[c] = atEpoch[c]
       \/ at'[c] = at[c] + 1 /\ atEpoch'[c] = atEpoch[c]
       \/ snapshots'[c] = snapshots[c] + 1
<1>1. ASSUME HubInv, [HubNext]_hubVars PROVE [Step]_hubVars
  <2>1. CASE UNCHANGED hubVars
    BY <2>1
  <2>2. CASE Publish \/ HostRestarts
    BY <2>2 DEF Publish, HostRestarts, client
  <2>3. ASSUME NEW c \in Subscriber, Apply(c) PROVE Step
    BY <1>1, <2>3, ApplyInv DEF Apply, HubInv, HubTypeOK
  <2>4. ASSUME NEW c \in Subscriber, SubscribeResync(c) \/ TakeSnapshot(c) PROVE Step
    BY <1>1, <2>4 DEF SubscribeResync, TakeSnapshot, HubInv, HubTypeOK
  <2>5. ASSUME NEW c \in Subscriber,
               SubscribeReplay(c) \/ Unsubscribe(c) \/ \E n \in 1..MaxSequence : Ack(c, n)
        PROVE Step
    BY <2>5 DEF SubscribeReplay, Unsubscribe, Ack, client
  <2> QED BY <1>1, <2>1, <2>2, <2>3, <2>4, <2>5 DEF HubNext
<1>2. HubSpec => [][HubNext]_hubVars
  BY DEF HubSpec
<1> HIDE DEF Step
<1>3. HubSpec => [][Step]_hubVars
  BY <1>1, <1>2, HubInvariant, PTL
<1> QED BY <1>3 DEF NoSilentLoss, Step

-----------------------------------------------------------------------------
(* The refinement of GaplessFeed *)

\* A cursor of the current epoch, and what is on the way to its client, is of
\* events that have been published; no cursor is of an epoch to come.
Within(c) ==
  /\ atEpoch[c] <= epoch
  /\ atEpoch[c] = epoch =>
       at[c] <= sequence /\ \A i \in 1..Len(wire[c]) : wire[c][i].n <= sequence

FeedInv == HubInv /\ \A c \in Subscriber : Within(c)

\* What publish() puts on a wire is numbered at most the new sequence.
LEMMA PublishWithin == ASSUME FeedInv, Publish PROVE \A c \in Subscriber : Within(c)'
<1>1. /\ sequence \in Nat /\ sequence' = sequence + 1 /\ epoch' = epoch
      /\ at' = at /\ atEpoch' = atEpoch
  BY DEF Publish, client, FeedInv, HubInv, HubTypeOK
<1> SUFFICES ASSUME NEW c \in Subscriber PROVE Within(c)'
  OBVIOUS
<1>2. /\ wire[c] \in Seq(Message) /\ Len(wire[c]) \in Nat /\ at[c] \in Nat
      /\ lastDelivered[c] \in Nat
  BY HubInvAt DEF FeedInv
<1>3. Within(c)
  BY DEF FeedInv
<1> DEFINE m == IF Fits(c) THEN Event(sequence + 1) ELSE TooSlow(lastDelivered[c])
<1>4. wire'[c] = wire[c] \/ (open[c] /\ wire'[c] = Append(wire[c], m))
  BY DEF Publish
<1>5. open[c] => m \in Message /\ m.n <= sequence + 1
  <2>1. open[c] => lastDelivered[c] = sequence
    BY DEF FeedInv, HubInv, Subscribed
  <2> QED BY <2>1, <1>1, <1>2 DEF Event, TooSlow, Message
<1>6. \A i \in 1..Len(wire[c]) : wire[c][i].n \in Nat
  <2>1. \A i \in 1..Len(wire[c]) : wire[c][i] \in Message
    BY <1>2
  <2> QED BY <2>1 DEF Message
<1> HIDE DEF m
<1>7. ASSUME atEpoch[c] = epoch PROVE \A i \in 1..Len(wire'[c]) : wire'[c][i].n <= sequence + 1
  <2>1. \A i \in 1..Len(wire[c]) : wire[c][i].n <= sequence + 1
    BY <1>1, <1>3, <1>6, <1>7 DEF Within
  <2>2. CASE wire'[c] = wire[c]
    BY <2>1, <2>2
  <2>3. CASE open[c] /\ wire'[c] = Append(wire[c], m)
    <3>1. /\ Len(wire'[c]) = Len(wire[c]) + 1
          /\ \A i \in 1..(Len(wire[c]) + 1) :
               wire'[c][i] = IF i <= Len(wire[c]) THEN wire[c][i] ELSE m
      BY <2>3, <1>2, <1>5
    <3> QED BY <3>1, <2>1, <2>3, <1>2, <1>5
  <2> QED BY <1>4, <2>2, <2>3
<1>8. at[c] <= sequence => at[c] <= sequence + 1
  BY <1>1, <1>2
<1> QED BY <1>1, <1>3, <1>7, <1>8 DEF Within

\* A replay delivers what the window holds, and no more.
LEMMA ReplayWithin ==
  ASSUME FeedInv, NEW c \in Subscriber, SubscribeReplay(c)
  PROVE  \A d \in Subscriber : Within(d)'
<1>1. /\ at[c] \in Nat /\ at[c] <= sequence /\ sequence \in Nat /\ atEpoch[c] = epoch
      /\ epoch \in Nat
      /\ Missed(c) = [i \in 1..(sequence - at[c]) |-> Event(at[c] + i)]
  BY MissedFromCursor DEF SubscribeReplay, Resync, FeedInv, HubInv, HubTypeOK
<1>2. /\ sequence' = sequence /\ epoch' = epoch /\ at' = at /\ atEpoch' = atEpoch
      /\ \A d \in Subscriber : d # c => wire'[d] = wire[d]
  BY DEF SubscribeReplay, stream, client, FeedInv, HubInv, HubTypeOK
<1>3. HubInv'
  BY ReplayInv DEF FeedInv
<1>4. \A i \in 1..Len(wire'[c]) : wire'[c][i].n <= sequence
  <2> DEFINE missed == Missed(c)
             all == sequence - at[c]
  <2>1. all \in Nat
    BY <1>1
  <2> HIDE DEF all
  <2>2. /\ missed \in Seq(Message) /\ Len(missed) = all
        /\ \A i \in 1..all : missed[i].n = at[c] + i
    <3> DEFINE run == [i \in 1..all |-> Event(at[c] + i)]
    <3>1. run \in Seq(Message) /\ Len(run) = all /\ \A i \in 1..all : run[i] = Event(at[c] + i)
      BY <2>1, <1>1, EventRun
    <3>2. missed = run
      BY <1>1 DEF all
    <3> HIDE DEF run, missed
    <3> QED BY <3>1, <3>2 DEF Event
  <2>3. \A i \in 1..all : at[c] + i <= sequence
    BY <1>1 DEF all
  <2> HIDE DEF missed
  <2>4. CASE all <= MaxOutstanding
    <3>1. wire'[c] = missed
      BY <2>2, <2>4 DEF SubscribeReplay, FeedInv, HubInv, HubTypeOK, missed
    <3> QED BY <3>1, <2>2, <2>3
  <2>5. CASE ~(all <= MaxOutstanding)
    <3> DEFINE sent == SubSeq(missed, 1, MaxOutstanding)
    <3>1. /\ sent \in Seq(Message) /\ Len(sent) = MaxOutstanding
          /\ \A i \in 1..MaxOutstanding : i \in 1..all /\ sent[i] = missed[i]
      BY <2>1, <2>2, <2>5, HubAssumption
    <3>2. wire'[c] = Append(sent, TooSlow(at[c] + Len(sent)))
      BY <2>2, <2>5 DEF SubscribeReplay, FeedInv, HubInv, HubTypeOK, missed
    <3> HIDE DEF sent
    <3>3. TooSlow(at[c] + Len(sent)) \in Message /\ TooSlow(at[c] + Len(sent)).n <= sequence
      BY <1>1, <2>1, <2>5, <3>1, HubAssumption DEF TooSlow, Message, all
    <3>4. /\ Len(wire'[c]) = MaxOutstanding + 1
          /\ \A i \in 1..(MaxOutstanding + 1) :
               wire'[c][i] = IF i <= MaxOutstanding THEN sent[i]
                             ELSE TooSlow(at[c] + Len(sent))
      BY <3>1, <3>2, <3>3, HubAssumption
    <3> QED BY <3>1, <3>3, <3>4, <2>2, <2>3, HubAssumption
  <2> QED BY <2>4, <2>5
<1>5. ASSUME NEW d \in Subscriber PROVE Within(d)'
  <2>1. CASE d = c
    BY <2>1, <1>1, <1>2, <1>4 DEF Within
  <2>2. CASE d # c
    BY <2>2, <1>2 DEF FeedInv, Within
  <2> QED BY <2>1, <2>2
<1> QED BY <1>5

\* The cursor a client reads was within the stream on its way already.
LEMMA ApplyWithin ==
  ASSUME FeedInv, NEW c \in Subscriber, Apply(c)
  PROVE  /\ \A d \in Subscriber : Within(d)'
         /\ atEpoch[c] = epoch => at'[c] <= sequence
<1> DEFINE w == wire[c]
<1>1. w \in Seq(Message) /\ w # <<>> /\ at[c] \in Nat /\ Gapless(w, at[c])
  BY HubInvAt DEF Apply, HubInv, FeedInv
<1>2. /\ \A i \in 1..Len(Tail(w)) : i + 1 \in 1..Len(w) /\ Tail(w)[i] = w[i + 1]
      /\ Head(w) = w[1] /\ 1 \in 1..Len(w)
  BY <1>1, TailGapless
<1>3. /\ sequence' = sequence /\ epoch' = epoch /\ atEpoch' = atEpoch
      /\ at' = [at EXCEPT ![c] = Head(w).n] /\ wire' = [wire EXCEPT ![c] = Tail(w)]
  BY DEF Apply, stream
<1>4. at'[c] = w[1].n /\ wire'[c] = Tail(w)
  BY <1>2, <1>3 DEF FeedInv, HubInv, HubTypeOK
<1> HIDE DEF w
<1>5. atEpoch[c] = epoch =>
        at'[c] <= sequence /\ \A i \in 1..Len(wire'[c]) : wire'[c][i].n <= sequence
  BY <1>2, <1>4 DEF FeedInv, Within, w
<1>6. ASSUME NEW d \in Subscriber, d # c PROVE Within(d)'
  <2>1. at'[d] = at[d] /\ wire'[d] = wire[d]
    BY <1>3, <1>6 DEF FeedInv, HubInv, HubTypeOK
  <2> QED BY <2>1, <1>3 DEF FeedInv, Within
<1>7. Within(c)'
  BY <1>3, <1>5 DEF FeedInv, Within
<1> QED BY <1>5, <1>6, <1>7

\* Every step keeps the invariant.
LEMMA FeedInvNext == ASSUME FeedInv, [HubNext]_hubVars PROVE FeedInv'
<1>1. HubInv'
  BY HubNextInv DEF FeedInv
<1>2. CASE UNCHANGED hubVars
  BY <1>1, <1>2 DEF FeedInv, Within, hubVars
<1>3. CASE HostRestarts
  BY <1>1, <1>3 DEF FeedInv, HubInv, HubTypeOK, Within, HostRestarts, client
<1>4. ASSUME NEW c \in Subscriber, SubscribeResync(c) \/ TakeSnapshot(c)
      PROVE  \A d \in Subscriber : Within(d)'
  <2>1. /\ sequence' = sequence /\ epoch' = epoch /\ wire' = wire /\ wire[c] = <<>>
        /\ at' = [at EXCEPT ![c] = sequence] /\ atEpoch' = [atEpoch EXCEPT ![c] = epoch]
    BY <1>4 DEF SubscribeResync, TakeSnapshot, stream
  <2>2. sequence \in Nat /\ epoch \in Nat /\ DOMAIN at = Subscriber /\ DOMAIN atEpoch = Subscriber
    BY DEF FeedInv, HubInv, HubTypeOK
  <2>3. Within(c)'
    BY <2>1, <2>2 DEF Within
  <2>4. ASSUME NEW d \in Subscriber, d # c PROVE Within(d)'
    BY <2>1, <2>2, <2>4 DEF FeedInv, Within
  <2> QED BY <2>3, <2>4
<1>5. ASSUME NEW c \in Subscriber, Unsubscribe(c) PROVE \A d \in Subscriber : Within(d)'
  <2>1. ASSUME NEW d \in Subscriber PROVE wire'[d] = wire[d] \/ wire'[d] = <<>>
    BY <1>5 DEF Unsubscribe, FeedInv, HubInv, HubTypeOK
  <2> QED BY <1>5, <2>1 DEF FeedInv, Within, Unsubscribe, stream, client
<1>6. ASSUME NEW c \in Subscriber, NEW n \in 1..MaxSequence, Ack(c, n)
      PROVE  \A d \in Subscriber : Within(d)'
  BY <1>6 DEF FeedInv, Within, Ack, stream, client
<1> QED BY <1>1, <1>2, <1>3, <1>4, <1>5, <1>6, PublishWithin, ReplayWithin, ApplyWithin
        DEF HubNext, FeedInv

\* Every step is a step of the feed, or hidden from it.
LEMMA HubStepIsFeedStep ==
  ASSUME FeedInv, FeedInv', [HubNext]_hubVars
  PROVE  [Feed!FeedNext]_(Feed!feedVars)
<1> USE DEF Feed!feedVars
<1>1. CASE UNCHANGED hubVars
  BY <1>1 DEF hubVars
<1>2. CASE Publish
  BY <1>2 DEF Publish, client, Feed!FeedNext, Feed!Published
<1>3. CASE HostRestarts
  BY <1>3 DEF HostRestarts, client, Feed!FeedNext, Feed!Restarted
<1>4. ASSUME NEW c \in Subscriber, SubscribeResync(c) \/ TakeSnapshot(c)
      PROVE  Feed!FeedNext
  BY <1>4 DEF SubscribeResync, TakeSnapshot, stream, Feed!FeedNext, Feed!Snapshots
<1>5. ASSUME NEW c \in Subscriber, Apply(c)
      PROVE  Feed!FeedNext \/ UNCHANGED <<epoch, sequence, at, atEpoch>>
  <2>1. /\ epoch' = epoch /\ sequence' = sequence /\ atEpoch' = atEpoch
        /\ at' = [at EXCEPT ![c] = at'[c]]
    BY <1>5 DEF Apply, stream, FeedInv, HubInv, HubTypeOK
  <2>2. at'[c] = at[c] \/ at'[c] = at[c] + 1
    BY <1>5, ApplyInv DEF FeedInv
  <2>3. CASE at'[c] = at[c]
    BY <2>1, <2>3 DEF FeedInv, HubInv, HubTypeOK
  <2>4. CASE at'[c] = at[c] + 1
    <3>1. atEpoch[c] = epoch => at[c] < sequence
      BY <1>5, <2>4, ApplyWithin, HubInvAt DEF FeedInv
    <3> QED BY <2>1, <2>4, <3>1 DEF Feed!FeedNext, Feed!Reads
  <2> QED BY <2>2, <2>3, <2>4
<1>6. ASSUME NEW c \in Subscriber,
             SubscribeReplay(c) \/ Unsubscribe(c) \/ \E n \in 1..MaxSequence : Ack(c, n)
      PROVE  UNCHANGED <<epoch, sequence, at, atEpoch>>
  BY <1>6 DEF SubscribeReplay, Unsubscribe, Ack, stream, client
<1> QED BY <1>1, <1>2, <1>3, <1>4, <1>5, <1>6 DEF HubNext

\* publish(), replay(), deliver() and the close with a cursor, under eviction,
\* dropped connections and restarts, implement the feed that has no gaps, no
\* duplicates and no event nobody published.
THEOREM HubImplementsFeed == HubSpec => ImplementsFeed
<1>1. HubInit => Feed!FeedInit
  BY DEF HubInit, Feed!FeedInit
<1>2. HubInit => FeedInv
  BY HubInitInv DEF HubInit, FeedInv, Within
<1>3. HubSpec => []FeedInv
  BY <1>2, FeedInvNext, PTL DEF HubSpec
<1> QED BY <1>1, <1>3, HubStepIsFeedStep, PTL DEF HubSpec, ImplementsFeed, Feed!FeedSpec

-----------------------------------------------------------------------------
(* Sessions and attaching clients *)

\* Every step is a step of the event stream, or hidden from it.
LEMMA SnapStepIsHubStep == ASSUME [SnapNext]_vars PROVE [HubNext]_hubVars
<1>1. CASE UNCHANGED vars
  BY <1>1 DEF vars
<1>2. CASE TurnEnds \/ SnapHostRestarts
  BY <1>2 DEF TurnEnds, SnapHostRestarts, HubNext
<1>3. ASSUME NEW i \in Item, ItemStarts(i) \/ ItemEnds(i) \/ Stored(i)
      PROVE  [HubNext]_hubVars
  BY <1>3 DEF ItemStarts, ItemEnds, Stored, HubNext
<1>4. ASSUME NEW c \in Subscriber, AttachAsks(c) \/ PageRead(c)
      PROVE  UNCHANGED hubVars
  BY <1>4 DEF AttachAsks, PageRead
<1>5. ASSUME NEW c \in Subscriber,
             SnapshotTaken(c) \/ Resyncs(c) \/ Replays(c) \/ Leaves(c) \/ Applies(c)
      PROVE  HubNext
  BY <1>5 DEF SnapshotTaken, Resyncs, Replays, Leaves, Applies, HubNext
<1>6. ASSUME NEW c \in Subscriber, NEW n \in 1..MaxSequence, Acks(c, n) PROVE HubNext
  BY <1>6 DEF Acks, HubNext
<1> QED BY <1>1, <1>2, <1>3, <1>4, <1>5, <1>6 DEF SnapNext

\* attach() and ingest() use the stream of the Agent Host as specified: what
\* holds of the stream alone holds with sessions and attaching clients.
THEOREM SnapUsesHub == SnapSpec => HubSpec
<1>1. SnapInit => HubInit
  BY DEF SnapInit
<1> QED BY <1>1, SnapStepIsHubStep, PTL DEF SnapSpec, HubSpec

-----------------------------------------------------------------------------

\* The map of active items is what is streaming; begun and ended items have
\* their events in the stream.
ItemsInv ==
  /\ item \in [Item -> {"new", "streaming", "completed", "dead"}]
  /\ began \in [Item -> Nat] /\ ended \in [Item -> Nat]
  /\ live \in [Subscriber -> SUBSET Item]
  /\ valid \in [Subscriber -> BOOLEAN]
  /\ activeItems = Streaming
  /\ \A i \in Item :
       /\ began[i] <= sequence /\ ended[i] <= sequence
       /\ item[i] = "new" => began[i] = 0
       /\ item[i] \in {"new", "streaming"} => ended[i] = 0
       /\ item[i] \in {"completed", "dead"} => began[i] <= ended[i]

ViewInv == FeedInv /\ ItemsInv /\ InFlightAsOfCursor

\* What the stream's invariant says of a client with a view of its cursor.
LEMMA CurrentAt ==
  ASSUME ViewInv, NEW c \in Subscriber
  PROVE  /\ at[c] \in Nat /\ sequence \in Nat /\ epoch \in Nat /\ atEpoch[c] <= epoch
         /\ atEpoch[c] \in Nat
         /\ c \in Current => at[c] <= sequence
BY DEF ViewInv, FeedInv, Within, HubInv, HubTypeOK, Current

LEMMA ViewInitInv == ASSUME SnapInit PROVE ViewInv
<1>1. FeedInv
  BY HubInitInv DEF SnapInit, HubInit, FeedInv, Within
<1>2. ItemsInv
  BY DEF SnapInit, HubInit, ItemsInv, Streaming
<1>3. InFlightAsOfCursor
  BY DEF SnapInit, InFlightAsOfCursor, Current
<1> QED BY <1>1, <1>2, <1>3 DEF ViewInv

\* An event of an item comes after every cursor: no view changes.
LEMMA IngestInv ==
  ASSUME ViewInv, TurnEnds \/ \E i \in Item : ItemStarts(i) \/ ItemEnds(i)
  PROVE  ItemsInv' /\ InFlightAsOfCursor'
<1>1. /\ sequence \in Nat /\ sequence' = sequence + 1 /\ epoch' = epoch
      /\ at' = at /\ atEpoch' = atEpoch /\ live' = live /\ valid' = valid
  BY DEF TurnEnds, ItemStarts, ItemEnds, Publish, client, view, ViewInv, FeedInv,
         HubInv, HubTypeOK
<1>2. ItemsInv'
  <2>1. CASE TurnEnds
    BY <1>1, <2>1 DEF ViewInv, ItemsInv, TurnEnds, Streaming
  <2>2. ASSUME NEW i \in Item, ItemStarts(i) PROVE ItemsInv'
    BY <1>1, <2>2 DEF ViewInv, ItemsInv, ItemStarts, Streaming
  <2>3. ASSUME NEW i \in Item, ItemEnds(i) PROVE ItemsInv'
    BY <1>1, <2>3 DEF ViewInv, ItemsInv, ItemEnds, Streaming
  <2> QED BY <2>1, <2>2, <2>3
<1>3. ASSUME NEW c \in Current' PROVE live'[c] = {i \in Item : Running(c, i)'}
  <2>1. c \in Current /\ c \in Subscriber
    BY <1>1 DEF Current
  <2>2. at[c] \in Nat /\ at[c] <= sequence
    BY <2>1, CurrentAt
  <2>3. ASSUME NEW j \in Item PROVE Running(c, j)' <=> Running(c, j)
    <3>1. CASE TurnEnds
      BY <1>1, <2>2, <3>1 DEF ViewInv, ItemsInv, TurnEnds, Streaming, Running, Over
    <3>2. ASSUME NEW i \in Item, ItemStarts(i) PROVE Running(c, j)' <=> Running(c, j)
      BY <1>1, <2>2, <3>2 DEF ViewInv, ItemsInv, ItemStarts, Running, Over
    <3>3. ASSUME NEW i \in Item, ItemEnds(i) PROVE Running(c, j)' <=> Running(c, j)
      BY <1>1, <2>2, <3>3 DEF ViewInv, ItemsInv, ItemEnds, Running, Over
    <3> QED BY <3>1, <3>2, <3>3
  <2> QED BY <1>1, <2>1, <2>3 DEF ViewInv, InFlightAsOfCursor
<1> QED BY <1>2, <1>3 DEF InFlightAsOfCursor

\* A restarted Host leaves no view of its epoch.
LEMMA RestartViewInv ==
  ASSUME ViewInv, SnapHostRestarts
  PROVE  ItemsInv' /\ InFlightAsOfCursor'
<1>1. ItemsInv'
  BY DEF ViewInv, ItemsInv, SnapHostRestarts, HostRestarts, Streaming, view
<1>2. Current' = {}
  <2>1. epoch' = epoch + 1 /\ atEpoch' = atEpoch
    BY DEF SnapHostRestarts, HostRestarts, client
  <2> QED BY <2>1, CurrentAt DEF Current
<1> QED BY <1>1, <1>2 DEF InFlightAsOfCursor

\* Steps that leave the items, the views and the cursors alone.
LEMMA QuietInv ==
  ASSUME ViewInv, UNCHANGED <<feed, view, sequence, epoch, at, atEpoch>>
  PROVE  ItemsInv' /\ InFlightAsOfCursor'
BY DEF ViewInv, ItemsInv, InFlightAsOfCursor, Current, Running, Over, Streaming, feed, view

\* The snapshot takes what is in flight at the end of the stream.
LEMMA TakenInv ==
  ASSUME ViewInv, NEW c \in Subscriber, SnapshotTaken(c)
  PROVE  ItemsInv' /\ InFlightAsOfCursor'
<1>1. /\ sequence' = sequence /\ epoch' = epoch /\ item' = item /\ began' = began
      /\ ended' = ended /\ activeItems' = activeItems
      /\ at' = [at EXCEPT ![c] = sequence] /\ atEpoch' = [atEpoch EXCEPT ![c] = epoch]
      /\ live' = [live EXCEPT ![c] = activeItems] /\ valid' = [valid EXCEPT ![c] = TRUE]
  BY DEF SnapshotTaken, TakeSnapshot, stream, feed
<1>2. /\ at \in [Subscriber -> Nat] /\ atEpoch \in [Subscriber -> Nat] /\ sequence \in Nat
  BY DEF ViewInv, FeedInv, HubInv, HubTypeOK
<1>3. ItemsInv'
  BY <1>1 DEF ViewInv, ItemsInv, Streaming
<1>4. ASSUME NEW d \in Current' PROVE live'[d] = {i \in Item : Running(d, i)'}
  <2>1. CASE d = c
    <3>1. at'[c] = sequence /\ live'[c] = Streaming
      BY <1>1, <1>2 DEF ViewInv, ItemsInv
    <3>2. ASSUME NEW j \in Item PROVE Running(c, j)' <=> j \in Streaming
      BY <1>1, <3>1 DEF ViewInv, ItemsInv, Running, Over, Streaming
    <3> QED BY <2>1, <3>1, <3>2 DEF Streaming
  <2>2. CASE d # c
    <3>1. d \in Current /\ at'[d] = at[d] /\ live'[d] = live[d]
      BY <1>1, <1>2, <2>2 DEF Current, ViewInv, ItemsInv
    <3> QED BY <1>1, <3>1 DEF ViewInv, InFlightAsOfCursor, Running, Over
  <2> QED BY <2>1, <2>2
<1> QED BY <1>3, <1>4 DEF InFlightAsOfCursor

\* A client that has been told to resynchronize has no view of its cursor.
LEMMA ResyncsInv ==
  ASSUME ViewInv, NEW c \in Subscriber, Resyncs(c)
  PROVE  ItemsInv' /\ InFlightAsOfCursor'
<1>1. /\ sequence' = sequence /\ epoch' = epoch /\ item' = item /\ began' = began
      /\ ended' = ended /\ activeItems' = activeItems /\ live' = live
      /\ at' = [at EXCEPT ![c] = sequence] /\ atEpoch' = [atEpoch EXCEPT ![c] = epoch]
      /\ valid' = [valid EXCEPT ![c] = FALSE]
  BY DEF Resyncs, SubscribeResync, stream, feed
<1>2. at \in [Subscriber -> Nat] /\ atEpoch \in [Subscriber -> Nat]
  BY DEF ViewInv, FeedInv, HubInv, HubTypeOK
<1>3. ItemsInv'
  BY <1>1 DEF ViewInv, ItemsInv, Streaming
<1>4. ASSUME NEW d \in Current' PROVE d \in Current /\ at'[d] = at[d]
  BY <1>1, <1>2 DEF Current, ViewInv, ItemsInv
<1> QED BY <1>1, <1>3, <1>4 DEF ViewInv, InFlightAsOfCursor, Running, Over

\* An applied event tells of the items that began or ended with it.
LEMMA AppliesInv ==
  ASSUME ViewInv, NEW c \in Subscriber, Applies(c)
  PROVE  ItemsInv' /\ InFlightAsOfCursor'
<1> DEFINE m     == Head(wire[c])
           news  == m.kind = "event" /\ atEpoch[c] = epoch
           start == {i \in Item : news /\ began[i] = m.n}
           end   == {i \in Item : news /\ ended[i] = m.n}
<1>1. /\ sequence' = sequence /\ epoch' = epoch /\ item' = item /\ began' = began
      /\ ended' = ended /\ activeItems' = activeItems /\ valid' = valid
      /\ at' = [at EXCEPT ![c] = m.n] /\ atEpoch' = atEpoch
      /\ live' = [live EXCEPT ![c] = (@ \union start) \ end]
  BY DEF Applies, Apply, stream, feed
<1>2. /\ at \in [Subscriber -> Nat] /\ live \in [Subscriber -> SUBSET Item]
  BY DEF ViewInv, FeedInv, HubInv, HubTypeOK, ItemsInv
<1>3. \/ m.kind = "event" /\ m.n = at[c] + 1
      \/ m.kind = "too_slow" /\ m.n = at[c]
  <2>1. wire[c] \in Seq(Message) /\ wire[c] # <<>> /\ at[c] \in Nat /\ Gapless(wire[c], at[c])
    BY HubInvAt DEF Applies, Apply, ViewInv, FeedInv, HubInv
  <2> QED BY <2>1, TailGapless
<1> HIDE DEF m
<1>4. ItemsInv'
  <2>1. live' \in [Subscriber -> SUBSET Item]
    BY <1>1, <1>2
  <2> QED BY <1>1, <2>1 DEF ViewInv, ItemsInv, Streaming
<1>5. ASSUME NEW d \in Current' PROVE live'[d] = {i \in Item : Running(d, i)'}
  <2>1. d \in Current /\ d \in Subscriber
    BY <1>1 DEF Current
  <2>2. CASE d = c
    <3>1. /\ at'[c] = m.n /\ live'[c] = (live[c] \union start) \ end /\ atEpoch[c] = epoch
          /\ at[c] \in Nat
      BY <1>1, <1>2, <2>1, <2>2 DEF Current
    <3>2. live[c] = {i \in Item : Running(c, i)}
      BY <2>1, <2>2 DEF ViewInv, InFlightAsOfCursor
    <3>3. CASE m.kind = "event" /\ m.n = at[c] + 1
      <4>1. ASSUME NEW j \in Item
            PROVE  Running(c, j)' <=> (Running(c, j) \/ began[j] = m.n) /\ ended[j] # m.n
        BY <1>1, <3>1, <3>3 DEF ViewInv, ItemsInv, Running, Over
      <4>2. \A j \in Item : /\ j \in start <=> began[j] = m.n
                            /\ j \in end <=> ended[j] = m.n
        BY <3>1, <3>3
      <4> HIDE DEF start, end
      <4>3. \A j \in Item : j \in live'[c] <=> Running(c, j)'
        BY <3>1, <3>2, <4>1, <4>2
      <4>4. live'[c] \in SUBSET Item
        BY <1>4, <2>1, <2>2 DEF ItemsInv
      <4> QED BY <2>2, <4>3, <4>4
    <3>4. CASE m.kind = "too_slow" /\ m.n = at[c]
      <4>1. start = {} /\ end = {}
        BY <3>4
      <4> QED BY <1>1, <2>2, <3>1, <3>2, <3>4, <4>1 DEF Running, Over
    <3> QED BY <1>3, <3>3, <3>4
  <2>3. CASE d # c
    <3>1. at'[d] = at[d] /\ live'[d] = live[d]
      BY <1>1, <1>2, <2>1, <2>3
    <3> QED BY <1>1, <2>1, <3>1 DEF ViewInv, InFlightAsOfCursor, Running, Over
  <2> QED BY <2>2, <2>3
<1> QED BY <1>4, <1>5 DEF InFlightAsOfCursor

\* Every step keeps the invariant.
LEMMA ViewNextInv == ASSUME ViewInv, [SnapNext]_vars PROVE ViewInv'
<1>1. FeedInv'
  BY SnapStepIsHubStep, FeedInvNext DEF ViewInv
<1>2. CASE UNCHANGED vars
  BY <1>1, <1>2, QuietInv DEF vars, hubVars, ViewInv
<1>3. CASE TurnEnds \/ \E i \in Item : ItemStarts(i) \/ ItemEnds(i)
  BY <1>1, <1>3, IngestInv DEF ViewInv
<1>4. ASSUME NEW i \in Item, Stored(i) PROVE ViewInv'
  BY <1>1, <1>4, QuietInv DEF Stored, hubVars, ViewInv
<1>5. CASE SnapHostRestarts
  BY <1>1, <1>5, RestartViewInv DEF ViewInv
<1>6. ASSUME NEW c \in Subscriber, AttachAsks(c) \/ PageRead(c) PROVE ViewInv'
  BY <1>1, <1>6, QuietInv DEF AttachAsks, PageRead, hubVars, ViewInv
<1>7. ASSUME NEW c \in Subscriber,
             Replays(c) \/ Leaves(c) \/ \E n \in 1..MaxSequence : Acks(c, n)
      PROVE  ViewInv'
  <2>1. UNCHANGED <<feed, view, sequence, epoch, at, atEpoch>>
    BY <1>7 DEF Replays, SubscribeReplay, Leaves, Unsubscribe, Acks, Ack, stream, client
  <2> QED BY <1>1, <2>1, QuietInv DEF ViewInv
<1>8. ASSUME NEW c \in Subscriber, SnapshotTaken(c) \/ Resyncs(c) \/ Applies(c) PROVE ViewInv'
  BY <1>1, <1>8, TakenInv, ResyncsInv, AppliesInv DEF ViewInv
<1> QED BY <1>2, <1>3, <1>4, <1>5, <1>6, <1>7, <1>8 DEF SnapNext

\* ingest(), snapshot() and the events after it: for a client that is not told
\* to resynchronize, what its view shows in flight is what was in flight at
\* its cursor, whatever was published while the snapshot's page was read.
THEOREM InFlightIsAsOfCursor == SnapSpec => []InFlightAsOfCursor
<1>1. SnapSpec => []ViewInv
  BY ViewInitInv, ViewNextInv, PTL DEF SnapSpec
<1>2. ViewInv => InFlightAsOfCursor
  BY DEF ViewInv
<1> QED BY <1>1, <1>2, PTL

-----------------------------------------------------------------------------

\* What the pages and views are of.
PagesOK ==
  /\ rows \subseteq Item
  /\ attach \in [Subscriber -> {"idle", "asked", "read"}]
  /\ page \in [Subscriber -> SUBSET Item]
  /\ done \in [Subscriber -> SUBSET Item] /\ gap \in [Subscriber -> SUBSET Item]

ShownInv == ViewInv /\ PagesOK /\ CompletedUnlessGap

LEMMA PagesStep == ASSUME ViewInv, PagesOK, [SnapNext]_vars PROVE PagesOK'
<1>1. CASE UNCHANGED vars
  BY <1>1 DEF vars, attaching, view, PagesOK
<1>2. CASE TurnEnds
  BY <1>2 DEF TurnEnds, attaching, view, PagesOK
<1>3. CASE SnapHostRestarts
  BY <1>3 DEF SnapHostRestarts, view, PagesOK
<1>4. ASSUME NEW i \in Item, ItemStarts(i) \/ ItemEnds(i) \/ Stored(i) PROVE PagesOK'
  BY <1>4 DEF ItemStarts, ItemEnds, Stored, attaching, view, PagesOK
<1>5. ASSUME NEW c \in Subscriber, AttachAsks(c) \/ PageRead(c) PROVE PagesOK'
  BY <1>5 DEF AttachAsks, PageRead, view, PagesOK
<1>6. ASSUME NEW c \in Subscriber, SnapshotTaken(c) PROVE PagesOK'
  BY <1>6 DEF SnapshotTaken, PagesOK
<1>7. ASSUME NEW c \in Subscriber,
             \/ Resyncs(c) \/ Replays(c) \/ Leaves(c)
             \/ \E n \in 1..MaxSequence : Acks(c, n)
      PROVE  PagesOK'
  BY <1>7 DEF Resyncs, Replays, Leaves, Acks, attaching, view, PagesOK
<1>8. ASSUME NEW c \in Subscriber, Applies(c) PROVE PagesOK'
  BY <1>8 DEF Applies, attaching, PagesOK
<1> QED BY <1>1, <1>2, <1>3, <1>4, <1>5, <1>6, <1>7, <1>8 DEF SnapNext

\* An item ends after every cursor, and a turn that ends completes nothing.
LEMMA IngestShown ==
  ASSUME ShownInv, TurnEnds \/ \E i \in Item : ItemStarts(i) \/ ItemEnds(i)
  PROVE  CompletedUnlessGap'
<1>1. /\ sequence \in Nat /\ sequence' = sequence + 1 /\ epoch' = epoch
      /\ at' = at /\ atEpoch' = atEpoch /\ view' = view
  BY DEF TurnEnds, ItemStarts, ItemEnds, Publish, client, ShownInv, ViewInv, FeedInv,
         HubInv, HubTypeOK
<1>2. ASSUME NEW c \in Current', NEW j \in Item, item'[j] = "completed", Over(c, j)'
      PROVE  j \in done[c] \union gap[c]
  <2>1. c \in Current /\ c \in Subscriber
    BY <1>1 DEF Current, view
  <2>2. at[c] \in Nat /\ at[c] <= sequence
    BY <2>1, CurrentAt DEF ShownInv
  <2>3. item[j] = "completed" /\ ended'[j] = ended[j]
    <3>1. CASE TurnEnds
      BY <1>2, <3>1 DEF ShownInv, ViewInv, ItemsInv, TurnEnds, Streaming
    <3>2. ASSUME NEW i \in Item, ItemStarts(i)
          PROVE  item[j] = "completed" /\ ended'[j] = ended[j]
      BY <1>2, <3>2 DEF ShownInv, ViewInv, ItemsInv, ItemStarts
    <3>3. ASSUME NEW i \in Item, ItemEnds(i)
          PROVE  item[j] = "completed" /\ ended'[j] = ended[j]
      BY <1>1, <1>2, <2>2, <3>3 DEF ShownInv, ViewInv, ItemsInv, ItemEnds, Over
    <3> QED BY <3>1, <3>2, <3>3
  <2>4. Over(c, j)
    BY <1>1, <1>2, <2>3 DEF Over
  <2> QED BY <2>1, <2>3, <2>4 DEF ShownInv, CompletedUnlessGap
<1> QED BY <1>1, <1>2 DEF CompletedUnlessGap, view

\* Everything completed is on the page or in the gap of a new snapshot.
LEMMA TakenShown ==
  ASSUME ShownInv, NEW c \in Subscriber, SnapshotTaken(c)
  PROVE  CompletedUnlessGap'
<1>1. /\ epoch' = epoch /\ item' = item /\ ended' = ended
      /\ at' = [at EXCEPT ![c] = sequence] /\ atEpoch' = [atEpoch EXCEPT ![c] = epoch]
      /\ valid' = [valid EXCEPT ![c] = TRUE] /\ done' = [done EXCEPT ![c] = page[c]]
      /\ gap' = [gap EXCEPT ![c] = {i \in Item : item[i] = "completed"} \ page[c]]
  BY DEF SnapshotTaken, TakeSnapshot, stream, feed
<1>2. /\ at \in [Subscriber -> Nat] /\ atEpoch \in [Subscriber -> Nat]
      /\ valid \in [Subscriber -> BOOLEAN] /\ done \in [Subscriber -> SUBSET Item]
      /\ gap \in [Subscriber -> SUBSET Item]
  BY DEF ShownInv, PagesOK, ViewInv, ItemsInv, FeedInv, HubInv, HubTypeOK
<1>3. ASSUME NEW d \in Current', NEW j \in Item, item'[j] = "completed", Over(d, j)'
      PROVE  j \in done'[d] \union gap'[d]
  <2>0. d \in Subscriber
    BY DEF Current
  <2>1. CASE d = c
    BY <1>1, <1>2, <1>3, <2>1
  <2>2. CASE d # c
    <3>1. /\ d \in Current /\ at'[d] = at[d] /\ done'[d] = done[d] /\ gap'[d] = gap[d]
      BY <1>1, <1>2, <2>0, <2>2 DEF Current
    <3> QED BY <1>1, <1>3, <3>1 DEF ShownInv, CompletedUnlessGap, Over
  <2> QED BY <2>1, <2>2
<1> QED BY <1>3 DEF CompletedUnlessGap

\* What ended with an applied event was not over before it.
LEMMA AppliesShown ==
  ASSUME ShownInv, NEW c \in Subscriber, Applies(c)
  PROVE  CompletedUnlessGap'
<1> DEFINE m   == Head(wire[c])
           end == {i \in Item : m.kind = "event" /\ atEpoch[c] = epoch /\ ended[i] = m.n}
<1>1. /\ epoch' = epoch /\ item' = item /\ ended' = ended /\ valid' = valid /\ gap' = gap
      /\ at' = [at EXCEPT ![c] = m.n] /\ atEpoch' = atEpoch
      /\ done' = [done EXCEPT ![c] = @ \union {i \in end : item[i] = "completed"}]
  BY DEF Applies, Apply, stream, feed
<1>2. /\ at \in [Subscriber -> Nat] /\ done \in [Subscriber -> SUBSET Item]
      /\ ended \in [Item -> Nat]
  BY DEF ShownInv, PagesOK, ViewInv, ItemsInv, FeedInv, HubInv, HubTypeOK
<1>3. \/ m.kind = "event" /\ m.n = at[c] + 1
      \/ m.kind = "too_slow" /\ m.n = at[c]
  <2>1. wire[c] \in Seq(Message) /\ wire[c] # <<>> /\ at[c] \in Nat /\ Gapless(wire[c], at[c])
    BY HubInvAt DEF Applies, Apply, ShownInv, ViewInv, FeedInv, HubInv
  <2> QED BY <2>1, TailGapless
<1> HIDE DEF m
<1>4. ASSUME NEW d \in Current', NEW j \in Item, item'[j] = "completed", Over(d, j)'
      PROVE  j \in done'[d] \union gap'[d]
  <2>1. d \in Current /\ d \in Subscriber /\ item[j] = "completed" /\ gap'[d] = gap[d]
    BY <1>1, <1>4 DEF Current
  <2>2. ended[j] \in Nat /\ ended[j] <= at'[d]
    BY <1>1, <1>2, <1>4 DEF Over
  <2>3. Over(d, j) => j \in done[d] \union gap[d]
    BY <2>1 DEF ShownInv, CompletedUnlessGap
  <2>4. CASE d = c
    <3>1. /\ at'[c] = m.n /\ at[c] \in Nat /\ atEpoch[c] = epoch
          /\ done'[c] = done[c] \union {i \in end : item[i] = "completed"}
      BY <1>1, <1>2, <2>1, <2>4 DEF Current
    <3>2. CASE ended[j] <= at[c]
      <4>1. Over(c, j)
        BY <2>1, <3>2 DEF Over
      <4> QED BY <2>1, <2>3, <2>4, <3>1, <4>1
    <3>3. CASE ~(ended[j] <= at[c])
      <4>1. j \in end
        BY <1>3, <2>2, <2>4, <3>1, <3>3
      <4> QED BY <2>1, <2>4, <3>1, <4>1
    <3> QED BY <3>2, <3>3
  <2>5. CASE d # c
    <3>1. at'[d] = at[d] /\ done'[d] = done[d]
      BY <1>1, <1>2, <2>1, <2>5
    <3>2. Over(d, j)
      BY <2>1, <2>2, <3>1 DEF Over
    <3> QED BY <2>1, <2>3, <3>1, <3>2
  <2> QED BY <2>4, <2>5
<1> QED BY <1>4 DEF CompletedUnlessGap

LEMMA ShownNext == ASSUME ShownInv, [SnapNext]_vars PROVE ShownInv'
<1> USE DEF ShownInv
<1>1. ViewInv' /\ PagesOK'
  BY ViewNextInv, PagesStep
<1>2. CASE UNCHANGED <<item, ended, epoch, view, at, atEpoch>>
  BY <1>1, <1>2 DEF CompletedUnlessGap, Current, Over, view
<1>3. CASE UNCHANGED vars
  BY <1>2, <1>3 DEF vars, hubVars, feed
<1>4. CASE TurnEnds \/ \E i \in Item : ItemStarts(i) \/ ItemEnds(i)
  BY <1>1, <1>4, IngestShown
<1>5. ASSUME NEW i \in Item, Stored(i) PROVE ShownInv'
  BY <1>2, <1>5 DEF Stored, hubVars, feed
<1>6. CASE SnapHostRestarts
  <2>1. epoch' = epoch + 1 /\ atEpoch' = atEpoch
    BY <1>6 DEF SnapHostRestarts, HostRestarts, client
  <2>2. Current' = {}
    BY <2>1, CurrentAt DEF Current
  <2> QED BY <1>1, <2>2 DEF CompletedUnlessGap
<1>7. ASSUME NEW c \in Subscriber, AttachAsks(c) \/ PageRead(c) PROVE ShownInv'
  BY <1>2, <1>7 DEF AttachAsks, PageRead, hubVars, feed
<1>8. ASSUME NEW c \in Subscriber,
             Replays(c) \/ Leaves(c) \/ \E n \in 1..MaxSequence : Acks(c, n)
      PROVE  ShownInv'
  <2>1. UNCHANGED <<item, ended, epoch, view, at, atEpoch>>
    BY <1>8 DEF Replays, SubscribeReplay, Leaves, Unsubscribe, Acks, Ack, stream, client, feed
  <2> QED BY <1>2, <2>1
<1>9. ASSUME NEW c \in Subscriber, Resyncs(c) PROVE ShownInv'
  <2>1. /\ epoch' = epoch /\ item' = item /\ ended' = ended /\ done' = done /\ gap' = gap
        /\ at' = [at EXCEPT ![c] = sequence] /\ atEpoch' = [atEpoch EXCEPT ![c] = epoch]
        /\ valid' = [valid EXCEPT ![c] = FALSE]
    BY <1>9 DEF Resyncs, SubscribeResync, stream, feed
  <2>2. /\ at \in [Subscriber -> Nat] /\ atEpoch \in [Subscriber -> Nat]
        /\ valid \in [Subscriber -> BOOLEAN]
    BY DEF ViewInv, ItemsInv, FeedInv, HubInv, HubTypeOK
  <2>3. ASSUME NEW d \in Current' PROVE d \in Current /\ at'[d] = at[d]
    BY <2>1, <2>2 DEF Current
  <2>4. CompletedUnlessGap'
    BY <2>1, <2>3 DEF CompletedUnlessGap, Over
  <2> QED BY <1>1, <2>4
<1>10. ASSUME NEW c \in Subscriber, SnapshotTaken(c) \/ Applies(c) PROVE ShownInv'
  BY <1>1, <1>10, TakenShown, AppliesShown
<1> QED BY <1>3, <1>4, <1>5, <1>6, <1>7, <1>8, <1>9, <1>10 DEF SnapNext

\* snapshot() and ingest(): the state is well formed, and a client that is not
\* told to resynchronize sees every item completed by its cursor, but for those
\* its last snapshot had no row of: no event after the cursor is applied
\* without its item, and none tells of an item the snapshot dropped.
THEOREM ShownUnlessGap == SnapSpec => []SnapInv
<1>1. SnapInit => ShownInv
  <2>1. ASSUME SnapInit PROVE PagesOK /\ CompletedUnlessGap
    BY <2>1 DEF SnapInit, PagesOK, CompletedUnlessGap, Current
  <2> QED BY <2>1, ViewInitInv DEF ShownInv
<1>2. ShownInv => SnapInv
  <2>1. ASSUME ShownInv PROVE SnapTypeOK
    <3>1. HubTypeOK
      BY <2>1 DEF ShownInv, ViewInv, FeedInv, HubInv
    <3>2. activeItems \subseteq Item
      BY <2>1 DEF ShownInv, ViewInv, ItemsInv, Streaming
    <3> QED BY <2>1, <3>1, <3>2 DEF ShownInv, ViewInv, ItemsInv, PagesOK, SnapTypeOK
  <2> QED BY <2>1 DEF ShownInv, SnapInv
<1> QED BY <1>1, <1>2, ShownNext, PTL DEF SnapSpec

=============================================================================
