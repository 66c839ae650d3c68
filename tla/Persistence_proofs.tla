------------------------- MODULE Persistence_proofs -------------------------
(***************************************************************************)
(* Proofs about Persistence, for any number of rows, replies and sessions, *)
(* any capacity of the outbox and any number of exits, with calls that     *)
(* time out or not: the state is well formed, no part of a reply follows   *)
(* its final row, what the file has held is not lost, and a checkpoint     *)
(* goes only with a reply that has landed, or in a promotion that fails.   *)
(***************************************************************************)
EXTENDS Persistence, QueueLemmas, FiniteSetTheorems, TLAPS

Line == [row : Row, has : Content]

\* A checkpoint is kept with the session of its reply.
OwnSnaps(snaps) == \A s \in Session : snaps[s] # Nothing => SessionOf[snaps[s].row] = s

\* A row of the transcript is in the index, unless its append was torn.
Indexed ==
  \A m \in Row : /\ m \in index => Lined(m)
                 /\ Lined(m) => m \in index \cup torn

StoreTypes ==
  /\ rows \subseteq Session /\ index \subseteq Row /\ torn \subseteq Row
  /\ lines \in [Session -> Seq(Line)]
  /\ ckpt \in [Session -> Snaps]

StoreInv == StoreTypes /\ OwnSnaps(ckpt) /\ Indexed /\ FinalStays

CpInv ==
  /\ pending \in [Session -> Snaps] /\ saving \in [Session -> Snaps]
  /\ OwnSnaps(pending) /\ OwnSnaps(saving)

\* What is sent is the head of the outbox, until a session is dropped meanwhile.
OutboxInv ==
  /\ entries \in Seq(Row) /\ Len(entries) <= MaxEntries
  /\ file \in Seq(Row) /\ Len(file) <= MaxEntries
  /\ chain \in Seq({"enqueue", "flush", "drop"}) /\ paused \in BOOLEAN /\ crossed \in BOOLEAN
  /\ flush \in [at : {"idle", "sent", "shifted"}, row : Row \cup {None}]
  /\ flush.at = "sent" => flush.row \in Row
  /\ flush.at = "sent" /\ ~crossed => entries # <<>> /\ Head(entries) = flush.row

HostInv ==
  /\ stream \in [Row -> Streams]
  /\ turn \in [Reply -> {"none", "running", "completed", "aborted"}]
  /\ start \in {"down", "drain", "recover", "up"} /\ late \subseteq Row
  /\ gone \in [Session -> {"no", "host", "done"}] /\ exits \in 0..MaxExits
  /\ ~Up => flush.at # "sent" /\ late = {} /\ saving = [s \in Session |-> Nothing]

FaultInv == starter \in {"no", "boot", "loop"} /\ lost \in 0..MaxLost

\* What the file has held is in the file or in the transcript.
OnFile(m) == m \in ToSet(file) \/ Lined(m) \/ gone[SessionOf[m]] # "no"

KeptInv ==
  /\ stored \subseteq Row
  /\ ~crossed => \A m \in stored : Kept(m) /\ OnFile(m)

RowsInv == StoreInv /\ CpInv /\ OutboxInv /\ HostInv /\ FaultInv /\ KeptInv

-----------------------------------------------------------------------------
(* Sequences *)

\* The places of a finite set of numbers are counted off from below.
LEMMA Ranked ==
  ASSUME NEW k \in Nat, NEW D \in SUBSET (1..k)
  PROVE  /\ Cardinality(D) \in Nat /\ Cardinality(D) <= k
         /\ \A i \in D : Cardinality({j \in D : j <= i}) \in 1..Cardinality(D)
         /\ \A n \in 1..Cardinality(D) : \E i \in D : Cardinality({j \in D : j <= i}) = n
<1> DEFINE upto(i) == {j \in D : j <= i}
           rank    == [i \in D |-> Cardinality(upto(i))]
<1>0. \A i \in D : i \in Nat
  OBVIOUS
<1>1. IsFiniteSet(D) /\ Cardinality(D) <= k /\ Cardinality(D) \in Nat
  <2>1. IsFiniteSet(1..k) /\ Cardinality(1..k) = k
    BY FS_Interval
  <2>2. IsFiniteSet(D) /\ Cardinality(D) <= Cardinality(1..k)
    BY <2>1, FS_Subset
  <2> QED BY <2>1, <2>2, FS_CardinalityType
<1>2. ASSUME NEW i \in D PROVE IsFiniteSet(upto(i)) /\ Cardinality(upto(i)) \in 1..Cardinality(D)
  <2>1. IsFiniteSet(upto(i)) /\ Cardinality(upto(i)) <= Cardinality(D)
    BY <1>1, FS_Subset
  <2>2. Cardinality(upto(i)) \in Nat /\ Cardinality(upto(i)) # 0
    <3>1. i \in upto(i)
      OBVIOUS
    <3> QED BY <2>1, <3>1, FS_CardinalityType, FS_EmptySet
  <2> QED BY <1>1, <2>1, <2>2
<1>3. ASSUME NEW i \in D, NEW j \in D, i < j PROVE rank[i] # rank[j]
  <2>1. upto(i) \in SUBSET upto(j) /\ j \in upto(j) /\ j \notin upto(i)
    <3>1. \A h \in D : h <= i => h <= j
      BY <1>0, <1>3
    <3>2. j <= j /\ ~(j <= i)
      BY <1>0, <1>3
    <3> QED BY <3>1, <3>2
  <2> HIDE DEF upto
  <2>2. upto(i) # upto(j)
    BY <2>1
  <2> QED BY <1>2, <2>1, <2>2, FS_Subset
<1>4. rank \in [D -> 1..Cardinality(D)]
  BY <1>2
<1>5. rank \in Injection(D, 1..Cardinality(D))
  <2>1. ASSUME NEW i \in D, NEW j \in D, rank[i] = rank[j] PROVE i = j
    <3> HIDE DEF rank
    <3> QED BY <1>3, <2>1
  <2> HIDE DEF rank
  <2> QED BY <1>4, <2>1 DEF Injection, IsInjective
<1>6. rank \in Surjection(D, 1..Cardinality(D))
  <2>1. IsFiniteSet(1..Cardinality(D)) /\ Cardinality(1..Cardinality(D)) = Cardinality(D)
    BY <1>1, FS_Interval
  <2> HIDE DEF rank
  <2> QED BY <1>5, <2>1, FS_Injection
<1>7. ASSUME NEW n \in 1..Cardinality(D) PROVE \E i \in D : Cardinality(upto(i)) = n
  BY <1>6 DEF Surjection
<1> QED BY <1>1, <1>2, <1>7

\* dropSession keeps the entries of the other sessions, and their order: a head
\* that stays is the head of what stays.
LEMMA OthersStay ==
  ASSUME entries \in Seq(Row), NEW s
  PROVE  /\ Others(s) \in Seq(Row) /\ Len(Others(s)) <= Len(entries)
         /\ \A m \in ToSet(entries) : SessionOf[m] # s => m \in ToSet(Others(s))
         /\ entries # <<>> /\ SessionOf[Head(entries)] # s =>
              Others(s) # <<>> /\ Head(Others(s)) = Head(entries)
<1> DEFINE places  == {i \in DOMAIN entries : SessionOf[entries[i]] # s}
           rank(i) == Cardinality({j \in places : j <= i})
           nth(n)  == CHOOSE i \in places : rank(i) = n
           others  == [n \in 1..Cardinality(places) |-> entries[nth(n)]]
<1>1. Others(s) = others
  BY DEF Others
<1>2. /\ Len(entries) \in Nat /\ DOMAIN entries = 1..Len(entries)
      /\ \A i \in DOMAIN entries : entries[i] \in Row
  OBVIOUS
<1>3. places \in SUBSET (1..Len(entries)) /\ \A i \in places : i \in Nat /\ entries[i] \in Row
  BY <1>2
<1>4. /\ Cardinality(places) \in Nat /\ Cardinality(places) <= Len(entries)
      /\ \A i \in places : rank(i) \in 1..Cardinality(places)
      /\ \A n \in 1..Cardinality(places) : \E i \in places : rank(i) = n
  <2> HIDE DEF places
  <2> QED BY <1>2, <1>3, Ranked
<1>5. \A i, j \in places : rank(i) = rank(j) => i = j
  <2> HIDE DEF places
  <2>1. ASSUME NEW i \in places, NEW j \in places, i < j PROVE rank(i) # rank(j)
    <3>1. \A h \in places : h <= i => h <= j
      BY <1>3, <2>1
    <3>2. j <= j /\ ~(j <= i)
      BY <1>3, <2>1
    <3>3. /\ {h \in places : h <= i} \in SUBSET {h \in places : h <= j}
          /\ {h \in places : h <= i} # {h \in places : h <= j}
      BY <3>1, <3>2
    <3>4. IsFiniteSet({h \in places : h <= j})
      <4>1. IsFiniteSet(1..Len(entries))
        BY <1>2, FS_Interval
      <4>2. {h \in places : h <= j} \in SUBSET (1..Len(entries))
        BY <1>3
      <4> QED BY <4>1, <4>2, FS_Subset
    <3> QED BY <3>3, <3>4, FS_Subset
  <2> HIDE DEF rank
  <2>2. \A i, j \in places : i < j \/ j < i \/ i = j
    BY <1>3
  <2> QED BY <2>1, <2>2
<1> HIDE DEF places
<1>6. \A n \in 1..Cardinality(places) : nth(n) \in places /\ rank(nth(n)) = n
  BY <1>4
<1> HIDE DEF rank
<1>7. \A i \in places : nth(rank(i)) = i
  BY <1>4, <1>5, <1>6
<1> HIDE DEF nth
<1>8. others \in Seq(Row) /\ Len(others) = Cardinality(places) /\ DOMAIN others = 1..Cardinality(places)
  <2>1. \A n \in 1..Cardinality(places) : entries[nth(n)] \in Row
    BY <1>3, <1>6
  <2> QED BY <1>4, <2>1
<1>9. \A i \in places : rank(i) \in DOMAIN others /\ others[rank(i)] = entries[i]
  BY <1>4, <1>7, <1>8
<1>10. ASSUME NEW m \in ToSet(entries), SessionOf[m] # s PROVE m \in ToSet(others)
  <2>1. PICK i \in DOMAIN entries : entries[i] = m
    BY <1>10 DEF ToSet
  <2>2. i \in places
    BY <1>10, <2>1 DEF places
  <2> QED BY <1>9, <2>1, <2>2 DEF ToSet
<1>11. ASSUME entries # <<>>, SessionOf[Head(entries)] # s
       PROVE  others # <<>> /\ Head(others) = Head(entries)
  <2>1. 1 \in DOMAIN entries /\ Head(entries) = entries[1]
    BY <1>2, <1>11
  <2>2. 1 \in places
    BY <1>11, <2>1 DEF places
  <2>3. rank(1) = 1
    <3>1. \A j \in places : j <= 1 <=> j = 1
      BY <1>3
    <3>2. {j \in places : j <= 1} = {1}
      BY <2>2, <3>1
    <3> QED BY <3>2, FS_Singleton DEF rank
  <2>4. 1 \in DOMAIN others /\ others[1] = entries[1]
    BY <1>9, <2>2, <2>3
  <2> QED BY <1>8, <2>1, <2>4
<1> HIDE DEF others
<1> QED BY <1>1, <1>4, <1>8, <1>10, <1>11

-----------------------------------------------------------------------------
(* The transcripts *)

Ordered(t, exempt) ==
  \A i, j \in DOMAIN t : i < j /\ t[i].row = t[j].row => t[j].has = "final" \/ t[i].row \in exempt

LEMMA SnapFacts ==
  ASSUME NEW x \in Snaps
  PROVE  /\ x # Nothing => x \in Line /\ x.row \in Reply /\ x.row \in Row /\ x.row # None
         /\ x = Nothing => x.row = None /\ x.row \notin Row
BY PersistenceAssumption DEF Snaps, Nothing, Snap, Line

LEMMA MadeSnap ==
  ASSUME NEW m \in Reply, NEW has \in Content
  PROVE  /\ Snap(m, has) \in Snaps /\ Snap(m, has).row = m
         /\ m \in Row /\ SessionOf[m] \in Session /\ Nothing \in Snaps
BY PersistenceAssumption DEF Snaps, Nothing, Snap, Session

LEMMA RowSession == ASSUME NEW m \in Row PROVE SessionOf[m] \in Session /\ Snap(m, "final") \in Line
BY DEF Session, Snap, Line, Content

\* A line that is final, or of a row without a line, or of a torn row, goes to
\* the end.
LEMMA OrderedAppend ==
  ASSUME NEW t \in Seq(Line), NEW x \in Line, NEW exempt, Ordered(t, exempt),
         x.has = "final" \/ \A l \in ToSet(t) : l.row = x.row => l.row \in exempt
  PROVE  /\ Ordered(Append(t, x), exempt) /\ Append(t, x) \in Seq(Line)
         /\ ToSet(Append(t, x)) = ToSet(t) \cup {x}
<1>1. /\ Append(t, x) \in Seq(Line) /\ Len(Append(t, x)) = Len(t) + 1 /\ Len(t) \in Nat
      /\ \A i \in 1..Len(t) : Append(t, x)[i] = t[i]
      /\ Append(t, x)[Len(t) + 1] = x /\ DOMAIN t = 1..Len(t)
      /\ DOMAIN Append(t, x) = 1..(Len(t) + 1)
  BY AppendProperties
<1>2. ASSUME NEW i \in 1..(Len(t) + 1), NEW j \in 1..(Len(t) + 1), i < j,
             Append(t, x)[i].row = Append(t, x)[j].row
      PROVE  Append(t, x)[j].has = "final" \/ Append(t, x)[i].row \in exempt
  <2>1. i \in 1..Len(t) /\ Append(t, x)[i] = t[i] /\ t[i] \in ToSet(t)
    BY <1>1, <1>2 DEF ToSet
  <2>2. CASE j \in 1..Len(t)
    BY <1>1, <1>2, <2>1, <2>2 DEF Ordered
  <2>3. CASE j = Len(t) + 1
    BY <1>1, <1>2, <2>1, <2>3
  <2> QED BY <1>1, <2>2, <2>3
<1>3. Ordered(Append(t, x), exempt)
  BY <1>1, <1>2 DEF Ordered
<1> QED BY <1>1, <1>3, Appended

LEMMA FinalIsOrdered == FinalStays <=> \A s \in Session : Ordered(lines[s], torn)
BY DEF FinalStays, Ordered

\* append_message: the row is in the transcript, and nothing that was is not.
LEMMA RowAppended ==
  ASSUME StoreInv, NEW m \in Row, AppendRow(m)
  PROVE  /\ StoreInv' /\ Lined(m)' /\ \A n \in Row : Lined(n) => Lined(n)'
         /\ \A s \in Session : ckpt'[s] # ckpt[s] => ckpt[s].row = m /\ SessionOf[m] = s
<1> DEFINE s == SessionOf[m]
<1>1. s \in Session /\ Snap(m, "final") \in Line /\ Snap(m, "final").row = m
      /\ Snap(m, "final").has = "final"
  BY RowSession DEF Snap
<1>2. rows' = rows \cup {s} /\ torn' = torn
  BY DEF AppendRow
<1>3. CASE m \in index
  <2>1. UNCHANGED <<lines, index, ckpt>>
    BY <1>3 DEF AppendRow
  <2> QED BY <1>1, <1>2, <1>3, <2>1
       DEF StoreInv, StoreTypes, OwnSnaps, Indexed, FinalStays, Lined
<1>4. CASE m \notin index
  <2>1. /\ lines' = [lines EXCEPT ![s] = Append(@, Snap(m, "final"))] /\ index' = index \cup {m}
        /\ ckpt' = IF ckpt[s].row = m THEN [ckpt EXCEPT ![s] = Nothing] ELSE ckpt
    BY <1>4 DEF AppendRow, Finished
  <2>2. lines \in [Session -> Seq(Line)] /\ ckpt \in [Session -> Snaps] /\ Nothing \in Snaps
    BY DEF StoreInv, StoreTypes, Snaps
  <2>3. /\ Ordered(lines'[s], torn) /\ lines'[s] \in Seq(Line)
        /\ ToSet(lines'[s]) = ToSet(lines[s]) \cup {Snap(m, "final")}
    <3>1. lines'[s] = Append(lines[s], Snap(m, "final")) /\ lines[s] \in Seq(Line)
      BY <1>1, <2>1, <2>2
    <3> QED BY <1>1, <3>1, OrderedAppend, FinalIsOrdered DEF StoreInv
  <2>4. \A r \in Session : r # s => lines'[r] = lines[r]
    BY <1>1, <2>1, <2>2
  <2>5. FinalStays'
    BY <1>2, <2>3, <2>4, FinalIsOrdered DEF StoreInv, FinalStays, Ordered
  <2>6. ckpt' \in [Session -> Snaps] /\ \A r \in Session : ckpt'[r] = ckpt[r] \/ ckpt'[r] = Nothing
    BY <2>1, <2>2
  <2>7. OwnSnaps(ckpt)'
    BY <2>6 DEF StoreInv, OwnSnaps
  <2>8. \A n \in Row : Lined(n)' <=> Lined(n) \/ n = m
    <3> TAKE n \in Row
    <3>1. CASE SessionOf[n] = s
      BY <1>1, <2>3, <3>1 DEF Lined
    <3>2. CASE SessionOf[n] # s
      BY <2>4, <3>2, RowSession DEF Lined
    <3> QED BY <3>1, <3>2
  <2>9. Indexed'
    BY <1>2, <2>1, <2>8 DEF StoreInv, Indexed
  <2>10. StoreTypes'
    <3>1. lines' \in [Session -> Seq(Line)]
      BY <2>1, <2>2, <2>3
    <3> QED BY <1>1, <1>2, <2>1, <2>6, <3>1 DEF StoreInv, StoreTypes
  <2>11. \A r \in Session : ckpt'[r] # ckpt[r] => ckpt[r].row = m /\ s = r
    BY <2>1, <2>2
  <2> QED BY <2>5, <2>7, <2>8, <2>9, <2>10, <2>11 DEF StoreInv
<1> QED BY <1>3, <1>4

\* An append that is torn leaves its line without a row in the index.
LEMMA TornAppended ==
  ASSUME StoreInv, NEW m \in Row, AppendTorn(m)
  PROVE  StoreInv' /\ (\A n \in Row : Lined(n) => Lined(n)') /\ ckpt' = ckpt
<1> DEFINE s == SessionOf[m]
<1>1. s \in Session /\ Snap(m, "final") \in Line /\ Snap(m, "final").row = m
      /\ Snap(m, "final").has = "final"
  BY RowSession DEF Snap
<1>2. rows' = rows \cup {s} /\ index' = index /\ ckpt' = ckpt
  BY DEF AppendTorn
<1>3. CASE m \in index
  <2>1. UNCHANGED <<lines, torn>>
    BY <1>3 DEF AppendTorn
  <2> QED BY <1>1, <1>2, <1>3, <2>1
       DEF StoreInv, StoreTypes, OwnSnaps, Indexed, FinalStays, Lined
<1>4. CASE m \notin index
  <2>1. /\ lines' = [lines EXCEPT ![s] = Append(@, Snap(m, "final"))] /\ torn' = torn \cup {m}
    BY <1>4 DEF AppendTorn, Finished
  <2>2. lines \in [Session -> Seq(Line)] /\ ckpt \in [Session -> Snaps]
    BY DEF StoreInv, StoreTypes
  <2>3. /\ Ordered(lines'[s], torn) /\ lines'[s] \in Seq(Line)
        /\ ToSet(lines'[s]) = ToSet(lines[s]) \cup {Snap(m, "final")}
    <3>1. lines'[s] = Append(lines[s], Snap(m, "final")) /\ lines[s] \in Seq(Line)
      BY <1>1, <2>1, <2>2
    <3> QED BY <1>1, <3>1, OrderedAppend, FinalIsOrdered DEF StoreInv
  <2>4. \A r \in Session : r # s => lines'[r] = lines[r]
    BY <1>1, <2>1, <2>2
  <2>5. FinalStays'
    BY <2>1, <2>3, <2>4, FinalIsOrdered DEF StoreInv, FinalStays, Ordered
  <2>6. \A n \in Row : Lined(n)' <=> Lined(n) \/ n = m
    <3> TAKE n \in Row
    <3>1. CASE SessionOf[n] = s
      BY <1>1, <2>3, <3>1 DEF Lined
    <3>2. CASE SessionOf[n] # s
      BY <2>4, <3>2, RowSession DEF Lined
    <3> QED BY <3>1, <3>2
  <2>7. Indexed'
    BY <1>2, <2>1, <2>6 DEF StoreInv, Indexed
  <2>8. StoreTypes'
    <3>1. lines' \in [Session -> Seq(Line)]
      BY <2>1, <2>2, <2>3
    <3> QED BY <1>1, <1>2, <2>1, <3>1 DEF StoreInv, StoreTypes
  <2> QED BY <1>2, <2>5, <2>6, <2>7, <2>8 DEF StoreInv, OwnSnaps
<1> QED BY <1>3, <1>4

\* recover_inflight_messages: what is promoted had no line, unless its append
\* was torn, and a checkpoint that goes has a line, unless its promotion failed.
LEMMA Promoted ==
  ASSUME StoreInv, lost \in 0..MaxLost, NEW ss \in SUBSET Session, NEW withCompleted, NEW t,
         Promote(ss, withCompleted, t), rows' = rows
  PROVE  /\ StoreInv' /\ (\A n \in Row : Lined(n) => Lined(n)') /\ lost' \in 0..MaxLost
         /\ lost' = lost + 1 \/
            \A s \in Session : ckpt[s] # Nothing /\ ckpt'[s] = Nothing /\ s \in rows' =>
              \E l \in ToSet(lines'[s]) : l.row = ckpt[s].row
<1> DEFINE left == {s \in ss : ckpt[s] # Nothing}
           dead == {s \in left : s \notin rows \/ ckpt[s].row \in index}
           todo == {s \in left \ dead : withCompleted \/ t[ckpt[s].row] # "completed"}
<1>0. PICK bare \in SUBSET todo : \E cut \in SUBSET (todo \ bare) :
        /\ bare \cup cut # {} => lost < MaxLost
        /\ lost' = IF bare \cup cut = {} THEN lost ELSE lost + 1
        /\ lines' = [s \in Session |-> IF s \in todo \ bare THEN Append(lines[s], ckpt[s]) ELSE lines[s]]
        /\ index' = index \cup {ckpt[s].row : s \in todo \ (bare \cup cut)}
        /\ torn' = torn \cup {ckpt[s].row : s \in cut}
        /\ ckpt' = [s \in Session |-> IF s \in dead \cup todo THEN Nothing ELSE ckpt[s]]
  BY DEF Promote
<1>1. PICK cut \in SUBSET (todo \ bare) :
        /\ bare \cup cut # {} => lost < MaxLost
        /\ lost' = IF bare \cup cut = {} THEN lost ELSE lost + 1
        /\ lines' = [s \in Session |-> IF s \in todo \ bare THEN Append(lines[s], ckpt[s]) ELSE lines[s]]
        /\ index' = index \cup {ckpt[s].row : s \in todo \ (bare \cup cut)}
        /\ torn' = torn \cup {ckpt[s].row : s \in cut}
        /\ ckpt' = [s \in Session |-> IF s \in dead \cup todo THEN Nothing ELSE ckpt[s]]
  BY <1>0
<1> DEFINE lined == todo \ bare
<1>2. /\ lines \in [Session -> Seq(Line)] /\ ckpt \in [Session -> Snaps] /\ Nothing \in Snaps
      /\ rows \subseteq Session /\ index \subseteq Row /\ torn \subseteq Row
  BY DEF StoreInv, StoreTypes, Snaps
<1>3. ASSUME NEW s \in todo
      PROVE  /\ s \in Session /\ ckpt[s] \in Line /\ ckpt[s].row \in Row
             /\ ckpt[s].row \notin index /\ SessionOf[ckpt[s].row] = s
  BY <1>2, SnapFacts DEF StoreInv, OwnSnaps
<1>4. ASSUME NEW s \in Session, ckpt[s] # Nothing, ckpt'[s] = Nothing, s \in rows, s \notin todo
      PROVE  ckpt[s].row \in index /\ ckpt[s].row \in Row
  BY <1>1, <1>2, <1>4
<1> HIDE DEF todo, dead
<1>5. ASSUME NEW s \in lined
      PROVE  /\ Ordered(lines'[s], torn) /\ lines'[s] \in Seq(Line)
             /\ ToSet(lines'[s]) = ToSet(lines[s]) \cup {ckpt[s]}
  <2>1. lines'[s] = Append(lines[s], ckpt[s]) /\ lines[s] \in Seq(Line) /\ ckpt[s] \in Line
    BY <1>1, <1>2, <1>3
  <2>2. Ordered(lines[s], torn)
    BY <1>3, FinalIsOrdered DEF StoreInv
  <2>3. ASSUME NEW l \in ToSet(lines[s]), l.row = ckpt[s].row PROVE l.row \in torn
    <3>1. Lined(ckpt[s].row)
      BY <1>3, <2>3 DEF Lined
    <3> QED BY <1>3, <2>3, <3>1 DEF StoreInv, Indexed
  <2> QED BY <2>1, <2>2, <2>3, OrderedAppend
<1>6. \A s \in Session : s \notin lined => lines'[s] = lines[s]
  BY <1>1
<1>7. FinalStays'
  <2>1. \A s \in Session : Ordered(lines'[s], torn)
    BY <1>5, <1>6, FinalIsOrdered DEF StoreInv
  <2> QED BY <1>1, <2>1 DEF FinalStays, Ordered
<1>8. ASSUME NEW n \in Row
      PROVE  /\ Lined(n) => Lined(n)'
             /\ Lined(n)' => Lined(n) \/ n \in index' \cup torn'
             /\ n \in index' => n \in index \/ Lined(n)'
  <2>1. SessionOf[n] \in Session
    BY RowSession
  <2>2. CASE SessionOf[n] \in lined
    <3>1. ToSet(lines'[SessionOf[n]]) = ToSet(lines[SessionOf[n]]) \cup {ckpt[SessionOf[n]]}
      BY <1>5, <2>2
    <3>2. Lined(n)' <=> Lined(n) \/ n = ckpt[SessionOf[n]].row
      BY <3>1 DEF Lined
    <3>3. n \in index' => n \in index \/ n = ckpt[SessionOf[n]].row
      BY <1>1, <1>3
    <3>4. ckpt[SessionOf[n]].row \in index' \cup torn'
      BY <1>1, <2>2
    <3> QED BY <3>2, <3>3, <3>4
  <2>3. CASE SessionOf[n] \notin lined
    <3>1. Lined(n)' <=> Lined(n)
      BY <1>6, <2>1, <2>3 DEF Lined
    <3>2. n \in index' => n \in index
      BY <1>1, <1>3, <2>3
    <3> QED BY <3>1, <3>2
  <2> QED BY <2>2, <2>3
<1>9. Indexed'
  BY <1>1, <1>8 DEF StoreInv, Indexed
<1>10. StoreTypes'
  <2>1. lines' \in [Session -> Seq(Line)]
    BY <1>1, <1>2, <1>5, <1>6
  <2>2. ckpt' \in [Session -> Snaps]
    BY <1>1, <1>2
  <2>3. index' \subseteq Row /\ torn' \subseteq Row
    BY <1>1, <1>2, <1>3
  <2> QED BY <1>2, <2>1, <2>2, <2>3 DEF StoreTypes
<1>11. OwnSnaps(ckpt)'
  BY <1>1 DEF StoreInv, OwnSnaps
<1>12. ASSUME bare = {}, NEW s \in Session, ckpt[s] # Nothing, ckpt'[s] = Nothing, s \in rows
       PROVE  \E l \in ToSet(lines'[s]) : l.row = ckpt[s].row
  <2>1. CASE s \in todo
    BY <1>5, <1>12, <2>1
  <2>2. CASE s \notin todo
    <3>1. ckpt[s].row \in index /\ ckpt[s].row \in Row
      BY <1>4, <1>12, <2>2
    <3>2. Lined(ckpt[s].row)
      BY <3>1 DEF StoreInv, Indexed
    <3>3. ASSUME NEW n \in Row, Lined(n) PROVE Lined(n)'
      BY <1>8, <3>3
    <3>4. PICK n \in Row : n = ckpt[s].row
      BY <3>1
    <3>5. Lined(n)' /\ SessionOf[n] = s
      BY <1>12, <3>2, <3>3, <3>4 DEF StoreInv, OwnSnaps
    <3> QED BY <3>4, <3>5 DEF Lined
  <2> QED BY <2>1, <2>2
<1>13. lost' \in 0..MaxLost
  BY <1>1, PersistenceAssumption
<1>14. bare = {} \/ lost' = lost + 1
  BY <1>1
<1> HIDE DEF lined
<1> QED BY <1>7, <1>8, <1>9, <1>10, <1>11, <1>12, <1>13, <1>14 DEF StoreInv

-----------------------------------------------------------------------------
(* One step: the transcripts *)

Goes(s) ==
  ckpt[s] # Nothing /\ ckpt'[s] = Nothing /\ s \in rows' =>
    \/ lost' = lost + 1
    \/ \E l \in ToSet(lines'[s]) : l.row \in {ckpt[s].row, saving[s].row}

\* Lines only go with their session.
LinesStay == \A m \in Row : Lined(m) => Lined(m)' \/ gone'[SessionOf[m]] # "no"

StoreKept == StoreInv' /\ LinesStay /\ \A s \in Session : Goes(s)

LEMMA StoreQuiet == ASSUME StoreInv, UNCHANGED <<rows, lines, index, ckpt, torn>> PROVE StoreKept
<1>1. StoreInv'
  BY DEF StoreInv, StoreTypes, OwnSnaps, Indexed, Lined, FinalStays
<1>2. LinesStay
  BY DEF LinesStay, Lined
<1> QED BY <1>1, <1>2 DEF StoreKept, Goes

LEMMA StoreAppends ==
  ASSUME StoreInv, NEW m \in Row, AppendRow(m)
  PROVE  StoreKept
<1>1. /\ StoreInv' /\ Lined(m)' /\ \A n \in Row : Lined(n) => Lined(n)'
      /\ \A s \in Session : ckpt'[s] # ckpt[s] => ckpt[s].row = m /\ SessionOf[m] = s
  BY RowAppended
<1>2. ASSUME NEW s \in Session, ckpt[s] # Nothing, ckpt'[s] = Nothing
      PROVE  \E l \in ToSet(lines'[s]) : l.row = ckpt[s].row
  <2>1. ckpt[s].row = m /\ SessionOf[m] = s
    BY <1>1, <1>2
  <2> QED BY <1>1, <2>1 DEF Lined
<1> QED BY <1>1, <1>2 DEF StoreKept, Goes, LinesStay

LEMMA StorePromotes ==
  ASSUME StoreInv, FaultInv, NEW ss \in SUBSET Session, NEW withCompleted, NEW t,
         Promote(ss, withCompleted, t), rows' = rows
  PROVE  StoreKept
<1>1. /\ StoreInv' /\ (\A n \in Row : Lined(n) => Lined(n)')
      /\ lost' = lost + 1 \/
         \A s \in Session : ckpt[s] # Nothing /\ ckpt'[s] = Nothing /\ s \in rows' =>
           \E l \in ToSet(lines'[s]) : l.row = ckpt[s].row
  BY Promoted DEF FaultInv
<1> QED BY <1>1 DEF StoreKept, Goes, LinesStay

\* save_inflight_message removes the checkpoint when its reply has landed.
LEMMA StoreSaves ==
  ASSUME StoreInv, CpInv, NEW s \in Session, SaveDone(s)
  PROVE  StoreKept
<1>1. /\ UNCHANGED <<rows, lines, index, torn>> /\ saving[s] # Nothing
      /\ ckpt' = IF s \notin rows THEN ckpt
                 ELSE [ckpt EXCEPT ![s] = IF saving[s].row \in index THEN Nothing ELSE saving[s]]
  BY DEF SaveDone, SaveSnap
<1>2. /\ saving[s] \in Snaps /\ SessionOf[saving[s].row] = s /\ Nothing \in Snaps
      /\ saving[s].row \in Row /\ ckpt \in [Session -> Snaps]
  BY <1>1, SnapFacts DEF CpInv, OwnSnaps, StoreInv, StoreTypes, Snaps
<1>3. ckpt' \in [Session -> Snaps] /\ OwnSnaps(ckpt)'
  BY <1>1, <1>2 DEF StoreInv, OwnSnaps
<1>4. StoreInv'
  BY <1>1, <1>3 DEF StoreInv, StoreTypes, Indexed, Lined, FinalStays
<1>5. ASSUME NEW r \in Session, ckpt[r] # Nothing, ckpt'[r] = Nothing
      PROVE  \E l \in ToSet(lines'[r]) : l.row = saving[r].row
  <2>1. r = s /\ saving[s].row \in index
    BY <1>1, <1>2, <1>5
  <2>2. Lined(saving[s].row)
    BY <1>2, <2>1 DEF StoreInv, Indexed
  <2> QED BY <1>1, <1>2, <2>1, <2>2 DEF Lined
<1> QED BY <1>1, <1>4, <1>5 DEF StoreKept, Goes, LinesStay, Lined

\* end_turn_settling
LEMMA StoreSettles == ASSUME StoreInv, NEW m \in Reply, EndTurn(m) PROVE StoreKept
<1> DEFINE s == SessionOf[m]
<1>1. /\ UNCHANGED <<rows, lines, index, torn>>
      /\ ckpt' = IF ckpt[s].row \in index THEN [ckpt EXCEPT ![s] = Nothing] ELSE ckpt
  BY DEF EndTurn
<1>2. /\ ckpt \in [Session -> Snaps] /\ Nothing \in Snaps
  BY DEF StoreInv, StoreTypes, Snaps
<1>3. ckpt' \in [Session -> Snaps] /\ OwnSnaps(ckpt)'
  BY <1>1, <1>2 DEF StoreInv, OwnSnaps
<1>4. StoreInv'
  BY <1>1, <1>3 DEF StoreInv, StoreTypes, Indexed, Lined, FinalStays
<1>5. ASSUME NEW r \in Session, ckpt[r] # Nothing, ckpt'[r] = Nothing
      PROVE  \E l \in ToSet(lines'[r]) : l.row = ckpt[r].row
  <2>1. r = s /\ ckpt[r].row \in index
    BY <1>1, <1>2, <1>5
  <2>2. Lined(ckpt[r].row) /\ SessionOf[ckpt[r].row] = r
    BY <1>5, <2>1 DEF StoreInv, StoreTypes, Indexed, OwnSnaps
  <2> QED BY <1>1, <2>2 DEF Lined
<1> QED BY <1>1, <1>4, <1>5 DEF StoreKept, Goes, LinesStay, Lined

\* session.delete
LEMMA StoreDeletes ==
  ASSUME StoreInv, HostInv, NEW s \in Session, DeleteRow(s)
  PROVE  StoreKept
<1>1. /\ rows' = rows \ {s} /\ lines' = [lines EXCEPT ![s] = <<>>]
      /\ index' = {m \in index : SessionOf[m] # s} /\ ckpt' = [ckpt EXCEPT ![s] = Nothing]
      /\ torn' = torn /\ gone' = [gone EXCEPT ![s] = "host"]
  BY DEF DeleteRow
<1>2. /\ lines \in [Session -> Seq(Line)] /\ ckpt \in [Session -> Snaps] /\ Nothing \in Snaps
      /\ gone \in [Session -> {"no", "host", "done"}]
  BY DEF StoreInv, StoreTypes, Snaps, HostInv
<1>3. lines'[s] = <<>> /\ ToSet(lines'[s]) = {} /\ \A r \in Session : r # s => lines'[r] = lines[r]
  BY <1>1, <1>2 DEF ToSet
<1>4. StoreTypes'
  <2>1. lines' \in [Session -> Seq(Line)]
    BY <1>1, <1>2
  <2> QED BY <1>1, <1>2, <2>1 DEF StoreInv, StoreTypes
<1>5. OwnSnaps(ckpt)'
  BY <1>1, <1>2 DEF StoreInv, OwnSnaps
<1>6. \A m \in Row : Lined(m)' <=> Lined(m) /\ SessionOf[m] # s
  <2> TAKE m \in Row
  <2>1. CASE SessionOf[m] = s
    BY <1>3, <2>1 DEF Lined
  <2>2. CASE SessionOf[m] # s
    BY <1>3, <2>2, RowSession DEF Lined
  <2> QED BY <2>1, <2>2
<1>7. Indexed'
  BY <1>1, <1>6 DEF StoreInv, Indexed
<1>8. FinalStays'
  BY <1>1, <1>3 DEF StoreInv, FinalStays
<1>9. LinesStay
  BY <1>1, <1>2, <1>6 DEF LinesStay
<1>10. \A r \in Session : Goes(r)
  BY <1>1, <1>2 DEF Goes
<1> QED BY <1>4, <1>5, <1>7, <1>8, <1>9, <1>10 DEF StoreKept, StoreInv

LEMMA StoreNext == ASSUME RowsInv, [PersistenceNext]_persistenceVars PROVE StoreKept
<1>1. StoreInv /\ CpInv /\ OutboxInv /\ HostInv /\ FaultInv
  BY DEF RowsInv
<1>2. CASE UNCHANGED persistenceVars
  BY <1>1, <1>2, StoreQuiet DEF persistenceVars, storeVars
<1>3. CASE Persist \/ FlushFails \/ SidecarExit \/ MainExit \/ GiveUp \/ Restarted
  BY <1>1, <1>3, StoreQuiet
       DEF Persist, FlushFails, SidecarExit, MainExit, GiveUp, Restarted, storeVars
<1>4. ASSUME NEW m \in Row, Update(m) \/ End(m) PROVE StoreKept
  BY <1>1, <1>4, StoreQuiet DEF Update, End, storeVars
<1>5. ASSUME NEW s \in Session, SaveBegin(s) \/ Drop(s) PROVE StoreKept
  BY <1>1, <1>5, StoreQuiet DEF SaveBegin, Drop, storeVars
<1>6. CASE FlushDone
  <2>1. flush.row \in Row
    BY <1>1, <1>6 DEF FlushDone, OutboxInv
  <2> QED BY <1>1, <1>6, <2>1, StoreAppends DEF FlushDone
<1>7. CASE LateAppend
  BY <1>1, <1>7, StoreAppends DEF LateAppend, HostInv
<1>8. ASSUME NEW m \in Reply, EndTurn(m) \/ EndDeadTurn(m) PROVE StoreKept
  <2>1. CASE EndTurn(m)
    BY <1>1, <2>1, StoreSettles
  <2>2. CASE EndDeadTurn(m)
    <3>1. {SessionOf[m]} \in SUBSET Session
      BY PersistenceAssumption, RowSession
    <3>2. Promote({SessionOf[m]}, TRUE, turn') /\ rows' = rows
      BY <2>2 DEF EndDeadTurn
    <3> QED BY <1>1, <3>1, <3>2, StorePromotes
  <2> QED BY <1>8, <2>1, <2>2
<1>9. ASSUME NEW s \in Session, SaveDone(s) \/ DeleteRow(s) PROVE StoreKept
  BY <1>1, <1>9, StoreSaves, StoreDeletes
<1>10. CASE HostExit
  <2>1. \/ UNCHANGED storeVars
        \/ flush.at = "sent" /\ AppendRow(flush.row)
        \/ flush.at = "sent" /\ AppendTorn(flush.row)
    BY <1>10 DEF HostExit
  <2>2. CASE UNCHANGED storeVars
    BY <1>1, <2>2, StoreQuiet DEF storeVars
  <2>3. CASE flush.at = "sent" /\ AppendRow(flush.row)
    BY <1>1, <2>3, StoreAppends DEF OutboxInv
  <2>4. CASE flush.at = "sent" /\ AppendTorn(flush.row)
    <3>1. flush.row \in Row
      BY <1>1, <2>4 DEF OutboxInv
    <3>2. StoreInv' /\ (\A n \in Row : Lined(n) => Lined(n)') /\ ckpt' = ckpt
      BY <1>1, <2>4, <3>1, TornAppended
    <3> QED BY <3>2 DEF StoreKept, LinesStay, Goes
  <2> QED BY <2>1, <2>2, <2>3, <2>4
<1>11. CASE HostStart
  <2>1. Promote(Session, FALSE, turn') /\ rows' = rows
    BY <1>11 DEF HostStart
  <2> QED BY <1>1, <2>1, StorePromotes
<1>12. CASE StartDone
  <2>1. Promote(Session, TRUE, turn) /\ rows' = rows
    BY <1>12 DEF StartDone
  <2> QED BY <1>1, <2>1, StorePromotes
<1> QED BY <1>2, <1>3, <1>4, <1>5, <1>6, <1>7, <1>8, <1>9, <1>10, <1>11, <1>12
     DEF PersistenceNext, OutboxStep

-----------------------------------------------------------------------------
(* One step: the checkpoints, the outbox and the rest *)

LEMMA NothingSaved == CpInv /\ saving' = [s \in Session |-> Nothing] =>
                        saving' \in [Session -> Snaps] /\ OwnSnaps(saving)'
BY DEF CpInv, OwnSnaps, Snaps

LEMMA ObservedCp ==
  ASSUME CpInv, NEW m \in Reply, NEW has \in Content, Observe(m, has), saving' = saving
  PROVE  CpInv'
<1>1. /\ Snap(m, has) \in Snaps /\ Snap(m, has).row = m /\ SessionOf[m] \in Session
  BY MadeSnap
<1>2. pending' = [pending EXCEPT ![SessionOf[m]] = Snap(m, has)]
  BY DEF Observe
<1> QED BY <1>1, <1>2 DEF CpInv, OwnSnaps

LEMMA CpNext == ASSUME RowsInv, [PersistenceNext]_persistenceVars PROVE CpInv'
<1>1. CpInv
  BY DEF RowsInv
<1>2. CASE UNCHANGED cpVars
  BY <1>1, <1>2 DEF cpVars, CpInv, OwnSnaps
<1>3. CASE UNCHANGED persistenceVars
  BY <1>2, <1>3 DEF persistenceVars
<1>4. CASE Persist \/ FlushDone \/ FlushFails \/ LateAppend \/ SidecarExit \/ HostStart \/ StartDone
             \/ GiveUp \/ Restarted
  BY <1>2, <1>4 DEF Persist, FlushDone, FlushFails, LateAppend, SidecarExit, HostStart, StartDone,
                        GiveUp, Restarted
<1>5. ASSUME NEW m \in Reply, EndTurn(m) \/ EndDeadTurn(m) PROVE CpInv'
  BY <1>2, <1>5 DEF EndTurn, EndDeadTurn
<1>6. ASSUME NEW s \in Session, DeleteRow(s) \/ Drop(s) PROVE CpInv'
  BY <1>2, <1>6 DEF DeleteRow, Drop
<1>7. ASSUME NEW m \in Row, Update(m) PROVE CpInv'
  BY <1>1, <1>7, ObservedCp DEF Update, Content
<1>8. ASSUME NEW m \in Row, End(m) PROVE CpInv'
  <2>1. CASE m \in Reply
    BY <1>1, <1>8, <2>1, ObservedCp DEF End, Content
  <2>2. CASE m \notin Reply
    BY <1>2, <1>8, <2>2 DEF End, cpVars
  <2> QED BY <2>1, <2>2
<1>9. ASSUME NEW s \in Session, SaveBegin(s) PROVE CpInv'
  <2>1. /\ pending' = [pending EXCEPT ![s] = Nothing] /\ Nothing \in Snaps
        /\ saving' = IF Up THEN [saving EXCEPT ![s] = pending[s]] ELSE saving
    BY <1>9 DEF SaveBegin, Snaps
  <2> QED BY <1>1, <2>1 DEF CpInv, OwnSnaps
<1>10. ASSUME NEW s \in Session, SaveDone(s) PROVE CpInv'
  <2>1. pending' = pending /\ saving' = [saving EXCEPT ![s] = Nothing] /\ Nothing \in Snaps
    BY <1>10 DEF SaveDone, Snaps
  <2> QED BY <1>1, <2>1 DEF CpInv, OwnSnaps
<1>11. CASE HostExit
  BY <1>1, <1>11, NothingSaved DEF HostExit, CallsLost, CpInv, OwnSnaps
<1>12. CASE MainExit
  <2>1. pending' = [s \in Session |-> Nothing] /\ saving' = [s \in Session |-> Nothing]
        /\ Nothing \in Snaps
    BY <1>12 DEF MainExit, CallsLost, Snaps
  <2> QED BY <2>1 DEF CpInv, OwnSnaps
<1> QED BY <1>3, <1>4, <1>5, <1>6, <1>7, <1>8, <1>9, <1>10, <1>11, <1>12
     DEF PersistenceNext, OutboxStep

\* What flushLoop goes on with.
LEMMA SendsHead ==
  ASSUME OutboxInv, Send, entries' = entries, crossed' = crossed
  PROVE  /\ flush' \in [at : {"idle", "sent", "shifted"}, row : Row \cup {None}]
         /\ flush'.at = "sent" => flush'.row \in Row /\ entries' # <<>> /\ Head(entries') = flush'.row
         /\ flush'.at = "sent" => Up
         /\ start' = start \/ (start = "drain" /\ start' = "recover")
         /\ starter' = starter
<1>1. CASE entries = <<>> \/ ~Up
  <2>1. /\ flush' = [at |-> "idle", row |-> None]
        /\ start' = IF start = "drain" THEN "recover" ELSE start
        /\ starter' = starter
    BY <1>1 DEF Send, Rest, Resting
  <2>2. flush'.at # "sent"
    BY <2>1
  <2>3. flush' \in [at : {"idle", "sent", "shifted"}, row : Row \cup {None}]
    BY <2>1
  <2> QED BY <2>1, <2>2, <2>3
<1>2. CASE ~(entries = <<>> \/ ~Up)
  <2>1. flush' = [at |-> "sent", row |-> Head(entries)] /\ start' = start /\ starter' = starter
    BY <1>2 DEF Send, hostVars
  <2>2. Head(entries) \in Row
    BY <1>2, HeadLeaves DEF OutboxInv
  <2>3. flush' \in [at : {"idle", "sent", "shifted"}, row : Row \cup {None}]
    BY <2>1, <2>2
  <2>4. flush'.row = Head(entries) /\ Head(entries') = Head(entries) /\ entries' # <<>>
    BY <1>2, <2>1
  <2> QED BY <1>2, <2>1, <2>2, <2>3, <2>4
<1> QED BY <1>1, <1>2

LEMMA Shifted ==
  ASSUME OutboxInv
  PROVE  /\ Shift(entries) \in Seq(Row) /\ Len(Shift(entries)) <= MaxEntries
         /\ \A m \in ToSet(entries) : m # Head(entries) => m \in ToSet(Shift(entries))
<1>1. CASE entries = <<>>
  BY <1>1 DEF Shift, OutboxInv, ToSet
<1>2. CASE entries # <<>>
  <2>1. /\ Len(entries) \in Nat \ {0} /\ Head(entries) = entries[1] /\ Tail(entries) \in Seq(Row)
        /\ Len(Tail(entries)) = Len(entries) - 1
        /\ \A i \in 1..(Len(entries) - 1) : Tail(entries)[i] = entries[i + 1]
    BY <1>2, HeadTailProperties, EmptySeq DEF OutboxInv
  <2>2. DOMAIN entries = 1..Len(entries) /\ DOMAIN Tail(entries) = 1..(Len(entries) - 1)
    BY <2>1 DEF OutboxInv
  <2>3. ASSUME NEW m \in ToSet(entries), m # Head(entries) PROVE m \in ToSet(Tail(entries))
    <3>1. PICK i \in DOMAIN entries : m = entries[i]
      BY DEF ToSet
    <3>2. i - 1 \in DOMAIN Tail(entries) /\ Tail(entries)[i - 1] = m
      BY <2>1, <2>2, <2>3, <3>1
    <3> QED BY <3>2 DEF ToSet
  <2> QED BY <1>2, <2>1, <2>3, PersistenceAssumption DEF Shift, OutboxInv
<1> QED BY <1>1, <1>2

LEMMA PushedOutbox ==
  ASSUME OutboxInv, NEW m \in Row, Push(m), UNCHANGED <<file, flush, paused, crossed>>
  PROVE  OutboxInv' /\ \A n \in ToSet(entries) : n \in ToSet(entries')
<1>1. chain \in Seq({"enqueue", "flush", "drop"})
  BY DEF OutboxInv
<1>2. Append(chain, "enqueue") \in Seq({"enqueue", "flush", "drop"})
  BY <1>1, AppendProperties
<1>3. CASE m \in ToSet(entries)
  BY <1>2, <1>3 DEF Push, OutboxInv
<1>4. CASE m \notin ToSet(entries) /\ Len(entries) < MaxEntries
  <2>1. /\ entries' = Append(entries, m) /\ chain' = Append(chain, "enqueue")
        /\ Len(entries) \in Nat /\ MaxEntries \in Nat /\ entries \in Seq(Row)
    BY <1>4, PersistenceAssumption DEF Push, OutboxInv
  <2>2. /\ entries' \in Seq(Row) /\ ToSet(entries') = ToSet(entries) \cup {m}
        /\ Len(entries') = Len(entries) + 1
        /\ entries # <<>> => entries' # <<>> /\ Head(entries') = Head(entries)
    BY <2>1, Appended
  <2> QED BY <1>2, <1>4, <2>1, <2>2 DEF OutboxInv
<1>5. CASE m \notin ToSet(entries) /\ ~(Len(entries) < MaxEntries)
  BY <1>5 DEF Push, OutboxInv
<1> QED BY <1>3, <1>4, <1>5

LEMMA OutboxNext == ASSUME RowsInv, [PersistenceNext]_persistenceVars PROVE OutboxInv'
<1>1. OutboxInv /\ HostInv
  BY DEF RowsInv
<1>2. CASE UNCHANGED <<entries, file, chain, flush, paused, crossed>>
  BY <1>1, <1>2 DEF OutboxInv
<1>3. CASE UNCHANGED persistenceVars
  BY <1>2, <1>3 DEF persistenceVars, outboxVars
<1>4. CASE LateAppend \/ SidecarExit \/ StartDone \/ GiveUp \/ Restarted
  BY <1>2, <1>4 DEF LateAppend, SidecarExit, StartDone, GiveUp, Restarted, outboxVars
<1>5. ASSUME NEW m \in Reply, EndTurn(m) \/ EndDeadTurn(m) PROVE OutboxInv'
  BY <1>2, <1>5 DEF EndTurn, EndDeadTurn, outboxVars
<1>6. ASSUME NEW s \in Session, SaveBegin(s) \/ SaveDone(s) \/ DeleteRow(s) PROVE OutboxInv'
  BY <1>2, <1>6 DEF SaveBegin, SaveDone, DeleteRow, outboxVars
<1>7. ASSUME NEW m \in Row, Update(m) \/ End(m) PROVE OutboxInv'
  <2>1. CASE Update(m)
    BY <1>2, <2>1 DEF Update, outboxVars
  <2>2. CASE End(m)
    BY <1>1, <2>2, PushedOutbox DEF End
  <2> QED BY <1>7, <2>1, <2>2
<1>8. CASE Persist
  <2>1. /\ chain # <<>> /\ chain' = Tail(chain) /\ file' = entries /\ entries' = entries
        /\ crossed' = crossed
        /\ paused' = (paused /\ ~(Head(chain) = "enqueue" /\ flush.at = "idle"))
        /\ Send \/ flush' = flush
    BY <1>8 DEF Persist
  <2>2. chain' \in Seq({"enqueue", "flush", "drop"})
    BY <1>1, <2>1, HeadLeaves DEF OutboxInv
  <2>3. CASE Send
    BY <1>1, <2>1, <2>2, <2>3, SendsHead DEF OutboxInv
  <2>4. CASE flush' = flush
    BY <1>1, <2>1, <2>2, <2>4 DEF OutboxInv
  <2> QED BY <2>1, <2>3, <2>4
<1>9. CASE FlushDone
  <2>1. /\ entries' = Shift(entries) /\ chain' = Append(chain, "flush")
        /\ flush' = [at |-> "shifted", row |-> None]
        /\ UNCHANGED <<file, paused, crossed>>
    BY <1>9 DEF FlushDone
  <2>2. chain' \in Seq({"enqueue", "flush", "drop"})
    BY <1>1, <2>1 DEF OutboxInv
  <2> QED BY <1>1, <2>1, <2>2, Shifted DEF OutboxInv
<1>10. CASE FlushFails
  BY <1>1, <1>10 DEF FlushFails, Rest, Resting, OutboxInv
<1>11. ASSUME NEW s \in Session, Drop(s) PROVE OutboxInv'
  <2>1. /\ entries' = Others(s) /\ UNCHANGED <<file, flush, paused>>
        /\ chain' = chain \/ chain' = Append(chain, "drop")
        /\ crossed' = (crossed \/ (flush.at = "sent" /\ SessionOf[flush.row] = s))
    BY <1>11 DEF Drop
  <2>2. /\ Others(s) \in Seq(Row) /\ Len(Others(s)) <= Len(entries)
        /\ entries # <<>> /\ SessionOf[Head(entries)] # s =>
             Others(s) # <<>> /\ Head(Others(s)) = Head(entries)
    BY <1>1, OthersStay DEF OutboxInv
  <2>3. chain' \in Seq({"enqueue", "flush", "drop"})
    <3>1. chain \in Seq({"enqueue", "flush", "drop"})
      BY <1>1 DEF OutboxInv
    <3>2. Append(chain, "drop") \in Seq({"enqueue", "flush", "drop"})
      BY <3>1, AppendProperties
    <3> QED BY <2>1, <3>1, <3>2
  <2>4. Len(entries') <= MaxEntries
    BY <1>1, <2>1, <2>2, PersistenceAssumption DEF OutboxInv
  <2>5. flush'.at = "sent" /\ ~crossed' => entries' # <<>> /\ Head(entries') = flush'.row
    BY <1>1, <2>1, <2>2 DEF OutboxInv
  <2>6. crossed' \in BOOLEAN
    <3>1. (crossed \/ (flush.at = "sent" /\ SessionOf[flush.row] = s)) \in BOOLEAN
      OBVIOUS
    <3> QED BY <2>1, <3>1
  <2> QED BY <1>1, <2>1, <2>2, <2>3, <2>4, <2>5, <2>6 DEF OutboxInv
<1>12. CASE HostExit
  BY <1>1, <1>12 DEF HostExit, Resting, OutboxInv
<1>13. CASE MainExit
  BY <1>1, <1>13 DEF MainExit, Resting, OutboxInv
<1>14. CASE HostStart
  <2>1. /\ UNCHANGED <<entries, file, chain, crossed>>
        /\ paused' = (paused /\ ~(flush.at = "idle"))
        /\ \/ flush' = flush
           \/ entries # <<>> /\ flush' = [at |-> "sent", row |-> Head(entries)]
    BY <1>14 DEF HostStart
  <2>2. entries # <<>> => Head(entries) \in Row
    BY <1>1, HeadLeaves DEF OutboxInv
  <2> QED BY <1>1, <2>1, <2>2 DEF OutboxInv
<1> QED BY <1>3, <1>4, <1>5, <1>6, <1>7, <1>8, <1>9, <1>10, <1>11, <1>12, <1>13, <1>14
     DEF PersistenceNext, OutboxStep

\* No call outlives the host, in every step that ends one.
LEMMA HostNext == ASSUME RowsInv, [PersistenceNext]_persistenceVars PROVE HostInv'
<1>1. StoreInv /\ OutboxInv /\ HostInv /\ MaxExits \in Nat /\ Reply \subseteq Row
  BY PersistenceAssumption DEF RowsInv
<1>2. CASE UNCHANGED <<stream, turn, start, late, gone, exits, flush, saving>>
  BY <1>1, <1>2 DEF HostInv, Up
<1>3. CASE UNCHANGED persistenceVars
  BY <1>2, <1>3 DEF persistenceVars, outboxVars, cpVars, storeVars, hostVars
<1>4. CASE Persist
  <2>1. /\ UNCHANGED <<stream, turn, late, gone, exits, saving>>
        /\ entries' = entries /\ crossed' = crossed
        /\ Send \/ UNCHANGED <<flush, start>>
    BY <1>4 DEF Persist, cpVars, storeVars, hostVars
  <2>2. CASE Send
    BY <1>1, <2>1, <2>2, SendsHead DEF HostInv, Up
  <2>3. CASE UNCHANGED <<flush, start>>
    BY <1>2, <2>1, <2>3
  <2> QED BY <2>1, <2>2, <2>3
<1>5. CASE FlushDone
  BY <1>1, <1>5 DEF FlushDone, AppendRow, cpVars, hostVars, HostInv, Up
<1>6. CASE FlushFails
  <2>1. /\ UNCHANGED <<stream, turn, gone, exits, saving>> /\ late' = late \cup {flush.row}
        /\ flush' = Resting /\ flush.row \in Row /\ start # "down"
        /\ start' = IF start = "drain" THEN "recover" ELSE start
    BY <1>1, <1>6 DEF FlushFails, Rest, cpVars, storeVars, OutboxInv, Up
  <2> QED BY <1>1, <2>1 DEF HostInv, Up
<1>7. CASE LateAppend
  <2>1. /\ UNCHANGED <<stream, turn, start, gone, exits, flush, saving>> /\ late' \subseteq late
        /\ start # "down"
    BY <1>7 DEF LateAppend, AppendRow, outboxVars, cpVars, hostVars, Up
  <2> QED BY <1>1, <2>1 DEF HostInv, Up
<1>8. ASSUME NEW m \in Row, Update(m) \/ End(m) PROVE HostInv'
  <2>1. CASE Update(m)
    <3>1. /\ UNCHANGED <<start, late, gone, exits, flush, saving>> /\ m \in Reply
          /\ stream' = [stream EXCEPT ![m] = "part"] /\ turn' = [turn EXCEPT ![m] = "running"]
      BY <2>1 DEF Update, outboxVars, hostVars
    <3> QED BY <1>1, <3>1 DEF HostInv, Up, Streams
  <2>2. CASE End(m)
    <3>1. /\ UNCHANGED <<turn, start, late, gone, exits, flush, saving>>
          /\ \/ stream' = [stream EXCEPT ![m] = "final"]
             \/ stream' = [stream EXCEPT ![m] = "again"]
      BY <2>2 DEF End, storeVars, hostVars
    <3> QED BY <1>1, <3>1 DEF HostInv, Up, Streams
  <2> QED BY <1>8, <2>1, <2>2
<1>9. ASSUME NEW m \in Reply, EndTurn(m) \/ EndDeadTurn(m) PROVE HostInv'
  <2>1. /\ UNCHANGED <<stream, start, late, gone, exits, flush, saving>>
        /\ turn' = [turn EXCEPT ![m] = "completed"] \/ turn' = [turn EXCEPT ![m] = "aborted"]
    BY <1>9 DEF EndTurn, EndDeadTurn, outboxVars, cpVars, hostVars
  <2> QED BY <1>1, <2>1 DEF HostInv, Up
<1>10. ASSUME NEW s \in Session, SaveBegin(s) \/ SaveDone(s) PROVE HostInv'
  <2>1. /\ UNCHANGED <<stream, turn, start, late, gone, exits, flush>>
        /\ start = "down" => saving' = saving
    BY <1>10 DEF SaveBegin, SaveDone, outboxVars, storeVars, hostVars, Up
  <2> QED BY <1>1, <2>1 DEF HostInv, Up
<1>11. ASSUME NEW s \in Session, DeleteRow(s) \/ Drop(s) PROVE HostInv'
  <2>1. /\ UNCHANGED <<stream, turn, start, late, exits, flush, saving>>
        /\ gone' = [gone EXCEPT ![s] = "host"] \/ gone' = [gone EXCEPT ![s] = "done"]
    BY <1>11 DEF DeleteRow, Drop, outboxVars, cpVars, storeVars, hostVars
  <2> QED BY <1>1, <2>1 DEF HostInv, Up
<1>12. CASE SidecarExit
  <2>1. /\ UNCHANGED <<turn, start, late, gone, flush, saving>>
        /\ exits < MaxExits /\ exits' = exits + 1
        /\ stream' = [m \in Row |-> IF stream[m] = "part" THEN "dead" ELSE Ended(m)]
    BY <1>12 DEF SidecarExit, outboxVars, cpVars, storeVars, hostVars
  <2>2. stream' \in [Row -> Streams]
    BY <1>1, <2>1 DEF HostInv, Ended, Streams
  <2>3. exits' \in 0..MaxExits
    BY <1>1, <2>1 DEF HostInv
  <2> QED BY <1>1, <2>1, <2>2, <2>3 DEF HostInv, Up
<1>13. CASE HostExit
  <2>1. /\ UNCHANGED <<stream, turn, gone>> /\ exits < MaxExits /\ exits' = exits + 1
        /\ saving' = [s \in Session |-> Nothing] /\ late' = {} /\ start' = "down"
        /\ flush' = IF flush.at = "sent" THEN Resting ELSE flush
    BY <1>13 DEF HostExit, CallsLost, AppendRow, AppendTorn, storeVars
  <2>2. exits' \in 0..MaxExits
    BY <1>1, <2>1 DEF HostInv
  <2>3. flush'.at # "sent"
    BY <2>1 DEF Resting
  <2> QED BY <1>1, <2>1, <2>2, <2>3 DEF HostInv, Up
<1>14. CASE MainExit
  <2>1. /\ turn' = turn /\ exits < MaxExits /\ exits' = exits + 1
        /\ saving' = [s \in Session |-> Nothing] /\ late' = {} /\ start' = "down"
        /\ flush' = Resting
        /\ stream' = [m \in Row |-> IF stream[m] \in {"no", "part"} THEN "dead" ELSE Ended(m)]
        /\ gone' = [s \in Session |-> IF gone[s] = "host" THEN "done" ELSE gone[s]]
    BY <1>14 DEF MainExit, CallsLost, storeVars
  <2>2. exits' \in 0..MaxExits
    BY <1>1, <2>1 DEF HostInv
  <2>3. flush'.at # "sent"
    BY <2>1 DEF Resting
  <2>4. stream' \in [Row -> Streams]
    BY <1>1, <2>1 DEF HostInv, Ended, Streams
  <2>5. gone' \in [Session -> {"no", "host", "done"}]
    BY <1>1, <2>1 DEF HostInv
  <2> QED BY <1>1, <2>1, <2>2, <2>3, <2>4, <2>5 DEF HostInv, Up
<1>15. CASE HostStart
  <2>1. /\ UNCHANGED <<stream, late, gone, exits, saving>> /\ start' \in {"drain", "recover"}
        /\ turn' = [m \in Reply |-> IF turn[m] = "running" THEN "aborted" ELSE turn[m]]
    BY <1>15 DEF HostStart, cpVars
  <2> QED BY <1>1, <2>1 DEF HostInv, Up
<1>16. CASE StartDone
  <2>1. UNCHANGED <<stream, turn, late, gone, exits, saving>> /\ start' = "up"
    BY <1>16 DEF StartDone, cpVars
  <2> QED BY <1>1, <2>1 DEF HostInv, Up
<1>17. CASE GiveUp
  <2>1. /\ UNCHANGED <<stream, turn, start, late, gone, flush, saving>>
        /\ exits < MaxExits /\ exits' = exits + 1
    BY <1>17 DEF GiveUp, outboxVars, cpVars, storeVars
  <2>2. exits' \in 0..MaxExits
    BY <1>1, <2>1 DEF HostInv
  <2> QED BY <1>1, <2>1, <2>2 DEF HostInv, Up
<1>18. CASE Restarted
  BY <1>2, <1>18 DEF Restarted, outboxVars, cpVars, storeVars
<1> QED BY <1>3, <1>4, <1>5, <1>6, <1>7, <1>8, <1>9, <1>10, <1>11, <1>12, <1>13, <1>14,
           <1>15, <1>16, <1>17, <1>18
     DEF PersistenceNext, OutboxStep

\* Who starts the host, and how many promotions have failed.
LEMMA FaultNext == ASSUME RowsInv, [PersistenceNext]_persistenceVars PROVE FaultInv'
<1>1. StoreInv /\ OutboxInv /\ FaultInv
  BY DEF RowsInv
<1>2. CASE UNCHANGED <<starter, lost>>
  BY <1>1, <1>2 DEF FaultInv
<1>3. CASE UNCHANGED persistenceVars
  BY <1>2, <1>3 DEF persistenceVars, hostVars, storeVars
<1>4. CASE Persist
  BY <1>2, <1>4 DEF Persist, Send, Rest, hostVars, storeVars
<1>5. CASE FlushDone \/ FlushFails \/ LateAppend
  BY <1>2, <1>5 DEF FlushDone, FlushFails, LateAppend, AppendRow, Rest, hostVars, storeVars
<1>6. ASSUME NEW m \in Row, Update(m) \/ End(m) PROVE FaultInv'
  BY <1>2, <1>6 DEF Update, End, hostVars, storeVars
<1>7. ASSUME NEW m \in Reply, EndTurn(m) PROVE FaultInv'
  BY <1>2, <1>7 DEF EndTurn, hostVars
<1>8. ASSUME NEW m \in Reply, EndDeadTurn(m) PROVE FaultInv'
  <2>1. {SessionOf[m]} \in SUBSET Session
    BY PersistenceAssumption, RowSession
  <2>2. Promote({SessionOf[m]}, TRUE, turn') /\ rows' = rows /\ starter' = starter
    BY <1>8 DEF EndDeadTurn, hostVars
  <2> QED BY <1>1, <2>1, <2>2, Promoted DEF FaultInv
<1>9. ASSUME NEW s \in Session, SaveBegin(s) \/ SaveDone(s) \/ DeleteRow(s) \/ Drop(s)
      PROVE  FaultInv'
  BY <1>2, <1>9 DEF SaveBegin, SaveDone, DeleteRow, Drop, hostVars, storeVars
<1>10. CASE SidecarExit \/ Restarted \/ GiveUp \/ MainExit
  BY <1>1, <1>10 DEF SidecarExit, Restarted, GiveUp, MainExit, hostVars, storeVars, FaultInv
<1>11. CASE HostExit
  BY <1>1, <1>11 DEF HostExit, Supervise, AppendRow, AppendTorn, storeVars, FaultInv
<1>12. CASE HostStart
  <2>1. Promote(Session, FALSE, turn') /\ rows' = rows /\ starter' = starter
    BY <1>12 DEF HostStart
  <2> QED BY <1>1, <2>1, Promoted DEF FaultInv
<1>13. CASE StartDone
  <2>1. /\ Promote(Session, TRUE, turn) /\ rows' = rows
        /\ starter' = IF starter = "boot" THEN "no" ELSE starter
    BY <1>13 DEF StartDone
  <2> QED BY <1>1, <2>1, Promoted DEF FaultInv
<1> QED BY <1>3, <1>4, <1>5, <1>6, <1>7, <1>8, <1>9, <1>10, <1>11, <1>12, <1>13
     DEF PersistenceNext, OutboxStep

-----------------------------------------------------------------------------
(* One step: what the file has held *)

\* A deleted session stays deleted, a crossing is not forgotten, and the file
\* takes the outbox or is left alone.
LEMMA Lasting ==
  ASSUME RowsInv, [PersistenceNext]_persistenceVars
  PROVE  /\ \A s \in Session : gone[s] # "no" => gone'[s] # "no"
         /\ crossed => crossed'
         /\ \/ file' = file /\ stored' = stored
            \/ file' = entries /\ entries' = entries /\ stored' = stored \cup ToSet(entries)
<1>1. gone \in [Session -> {"no", "host", "done"}]
  BY DEF RowsInv, HostInv
<1>2. CASE gone' = gone /\ crossed' = crossed /\ file' = file /\ stored' = stored
  BY <1>2
<1>3. CASE UNCHANGED persistenceVars
  BY <1>2, <1>3 DEF persistenceVars, outboxVars
<1>4. CASE FlushDone \/ FlushFails \/ LateAppend \/ SidecarExit \/ HostExit \/ HostStart \/ StartDone
             \/ GiveUp \/ Restarted
  BY <1>2, <1>4 DEF FlushDone, FlushFails, LateAppend, SidecarExit, HostExit, HostStart, StartDone,
                    GiveUp, Restarted, outboxVars
<1>5. CASE Persist
  BY <1>5 DEF Persist
<1>6. ASSUME NEW m \in Row, Update(m) \/ End(m)
      PROVE  gone' = gone /\ crossed' = crossed /\ file' = file /\ stored' = stored
  BY <1>6 DEF Update, End, outboxVars
<1>7. ASSUME NEW m \in Reply, EndTurn(m) \/ EndDeadTurn(m)
      PROVE  gone' = gone /\ crossed' = crossed /\ file' = file /\ stored' = stored
  BY <1>7 DEF EndTurn, EndDeadTurn, outboxVars
<1>8. ASSUME NEW s \in Session, SaveBegin(s) \/ SaveDone(s)
      PROVE  gone' = gone /\ crossed' = crossed /\ file' = file /\ stored' = stored
  BY <1>8 DEF SaveBegin, SaveDone, outboxVars
<1>9. ASSUME NEW s \in Session, DeleteRow(s) \/ Drop(s)
      PROVE  /\ \A r \in Session : gone[r] # "no" => gone'[r] # "no"
             /\ (crossed => crossed') /\ file' = file /\ stored' = stored
  <2>1. /\ gone' = [gone EXCEPT ![s] = "host"] \/ gone' = [gone EXCEPT ![s] = "done"]
        /\ (crossed => crossed') /\ file' = file /\ stored' = stored
    <3>1. CASE DeleteRow(s)
      BY <3>1 DEF DeleteRow, outboxVars
    <3>2. CASE Drop(s)
      <4>1. crossed' = (crossed \/ (flush.at = "sent" /\ SessionOf[flush.row] = s))
        BY <3>2 DEF Drop
      <4>2. gone' = [gone EXCEPT ![s] = "done"] /\ file' = file /\ stored' = stored
        BY <3>2 DEF Drop
      <4> QED BY <4>1, <4>2
    <3> QED BY <1>9, <3>1, <3>2
  <2> QED BY <1>1, <2>1
<1>10. CASE MainExit
  <2>1. /\ gone' = [s \in Session |-> IF gone[s] = "host" THEN "done" ELSE gone[s]]
        /\ crossed' = crossed /\ file' = file /\ stored' = stored
    BY <1>10 DEF MainExit
  <2> QED BY <2>1
<1> QED BY <1>2, <1>3, <1>4, <1>5, <1>6, <1>7, <1>8, <1>9, <1>10 DEF PersistenceNext, OutboxStep

\* The loop removes the row that has been appended, and dropSession only rows of
\* the deleted session.
LEMMA EntriesStay ==
  ASSUME RowsInv, [PersistenceNext]_persistenceVars, ~crossed', ~MainExit,
         NEW m \in ToSet(entries)
  PROVE  m \in ToSet(entries') \/ Lined(m)' \/ gone'[SessionOf[m]] # "no"
<1>1. /\ StoreInv /\ OutboxInv /\ HostInv /\ ~crossed /\ entries \in Seq(Row) /\ m \in Row
  <2>1. OutboxInv /\ ~crossed
    BY Lasting DEF RowsInv
  <2>2. entries \in Seq(Row)
    BY <2>1 DEF OutboxInv
  <2> QED BY <2>1, <2>2 DEF RowsInv, ToSet
<1>2. CASE entries' = entries
  BY <1>2
<1>3. CASE UNCHANGED persistenceVars
  BY <1>2, <1>3 DEF persistenceVars, outboxVars
<1>4. CASE Persist \/ FlushFails \/ LateAppend \/ SidecarExit \/ HostExit \/ HostStart \/ StartDone
             \/ GiveUp \/ Restarted
  BY <1>2, <1>4 DEF Persist, FlushFails, LateAppend, SidecarExit, HostExit, HostStart, StartDone,
                    GiveUp, Restarted, outboxVars
<1>5. CASE FlushDone
  <2>1. /\ flush.at = "sent" /\ AppendRow(flush.row) /\ entries' = Shift(entries)
        /\ Head(entries) = flush.row /\ flush.row \in Row
    BY <1>1, <1>5 DEF FlushDone, OutboxInv
  <2>2. CASE m = flush.row
    <3>1. AppendRow(m)
      BY <2>1, <2>2
    <3> QED BY <1>1, <2>1, <3>1, RowAppended
  <2>3. CASE m # flush.row
    BY <1>1, <2>1, <2>3, Shifted
  <2> QED BY <2>2, <2>3
<1>6. ASSUME NEW n \in Row, Update(n) PROVE entries' = entries
  BY <1>6 DEF Update, outboxVars
<1>7. ASSUME NEW n \in Row, End(n) PROVE m \in ToSet(entries')
  BY <1>1, <1>7, PushedOutbox DEF End
<1>8. ASSUME NEW n \in Reply, EndTurn(n) \/ EndDeadTurn(n) PROVE entries' = entries
  BY <1>8 DEF EndTurn, EndDeadTurn, outboxVars
<1>9. ASSUME NEW s \in Session, SaveBegin(s) \/ SaveDone(s) \/ DeleteRow(s) PROVE entries' = entries
  BY <1>9 DEF SaveBegin, SaveDone, DeleteRow, outboxVars
<1>10. ASSUME NEW s \in Session, Drop(s)
       PROVE  m \in ToSet(entries') \/ gone'[SessionOf[m]] # "no"
  <2>1. entries' = Others(s) /\ gone' = [gone EXCEPT ![s] = "done"]
    BY <1>10 DEF Drop
  <2>2. CASE SessionOf[m] = s
    BY <1>1, <2>1, <2>2 DEF HostInv
  <2>3. CASE SessionOf[m] # s
    BY <1>1, <2>1, <2>3, OthersStay
  <2> QED BY <2>2, <2>3
<1> QED BY <1>2, <1>3, <1>4, <1>5, <1>6, <1>7, <1>8, <1>9, <1>10 DEF PersistenceNext, OutboxStep

LEMMA KeptNext == ASSUME RowsInv, [PersistenceNext]_persistenceVars PROVE KeptInv'
<1>1. LinesStay
  BY StoreNext DEF StoreKept
<1>2. /\ \A s \in Session : gone[s] # "no" => gone'[s] # "no"
      /\ crossed => crossed'
      /\ \/ file' = file /\ stored' = stored
         \/ file' = entries /\ entries' = entries /\ stored' = stored \cup ToSet(entries)
  BY Lasting
<1>3. /\ stored \subseteq Row /\ ToSet(entries) \subseteq Row
      /\ ~crossed => \A m \in stored : Kept(m) /\ OnFile(m)
  BY DEF RowsInv, KeptInv, OutboxInv, ToSet
<1>4. stored' \subseteq Row
  BY <1>2, <1>3
<1>5. ASSUME ~crossed', NEW m \in stored' PROVE Kept(m)' /\ OnFile(m)'
  <2>1. ~crossed /\ m \in Row /\ SessionOf[m] \in Session
    BY <1>2, <1>4, <1>5, RowSession
  <2>2. m \in stored => Kept(m) /\ OnFile(m)
    BY <1>3, <2>1
  <2>3. Lined(m) \/ gone[SessionOf[m]] # "no" => Lined(m)' \/ gone'[SessionOf[m]] # "no"
    BY <1>1, <1>2, <2>1 DEF LinesStay
  <2>4. CASE MainExit
    <3>1. entries' = file /\ file' = file /\ stored' = stored
      BY <2>4 DEF MainExit
    <3> QED BY <1>5, <2>2, <2>3, <3>1 DEF Kept, OnFile
  <2>5. CASE ~MainExit
    <3>1. m \in ToSet(entries) => m \in ToSet(entries') \/ Lined(m)' \/ gone'[SessionOf[m]] # "no"
      BY <1>5, <2>5, EntriesStay
    <3>2. Kept(m)'
      BY <1>2, <1>5, <2>2, <2>3, <3>1 DEF Kept
    <3>3. OnFile(m)'
      BY <1>2, <1>5, <2>2, <2>3, <3>2 DEF Kept, OnFile
    <3> QED BY <3>2, <3>3
  <2> QED BY <2>4, <2>5
<1> QED BY <1>4, <1>5 DEF KeptInv

-----------------------------------------------------------------------------

LEMMA RowsInitInv == ASSUME PersistenceInit PROVE RowsInv
<1>1. StoreInv
  <2>1. /\ lines = [s \in Session |-> <<>>] /\ ckpt = [s \in Session |-> Nothing]
        /\ rows = Session /\ index = {} /\ torn = {}
    BY DEF PersistenceInit
  <2>2. StoreTypes
    <3>1. <<>> \in Seq(Line) /\ Nothing \in Snaps
      BY DEF Snaps
    <3> QED BY <2>1, <3>1 DEF StoreTypes
  <2>3. Indexed
    <3>1. \A m \in Row : lines[SessionOf[m]] = <<>>
      BY <2>1, RowSession
    <3>2. \A m \in Row : ~Lined(m)
      BY <3>1 DEF Lined, ToSet
    <3> QED BY <2>1, <3>2 DEF Indexed
  <2>4. OwnSnaps(ckpt) /\ FinalStays
    BY <2>1 DEF OwnSnaps, FinalStays
  <2> QED BY <2>2, <2>3, <2>4 DEF StoreInv
<1>2. CpInv
  BY DEF PersistenceInit, CpInv, OwnSnaps, Snaps
<1>3. OutboxInv
  <2>1. /\ entries = <<>> /\ file = <<>> /\ chain = <<>> /\ paused = FALSE /\ crossed = FALSE
        /\ flush = [at |-> "idle", row |-> None] /\ MaxEntries \in Nat
    BY PersistenceAssumption DEF PersistenceInit, Resting
  <2>2. flush \in [at : {"idle", "sent", "shifted"}, row : Row \cup {None}] /\ flush.at # "sent"
    BY <2>1
  <2>3. Len(entries) <= MaxEntries /\ Len(file) <= MaxEntries
    BY <2>1
  <2>4. /\ entries \in Seq(Row) /\ file \in Seq(Row) /\ chain \in Seq({"enqueue", "flush", "drop"})
    BY <2>1
  <2> QED BY <2>1, <2>2, <2>3, <2>4 DEF OutboxInv
<1>4. HostInv
  BY PersistenceAssumption DEF PersistenceInit, HostInv, Up, Streams
<1>5. KeptInv
  BY DEF PersistenceInit, KeptInv
<1>6. FaultInv
  BY PersistenceAssumption DEF PersistenceInit, FaultInv
<1> QED BY <1>1, <1>2, <1>3, <1>4, <1>5, <1>6 DEF RowsInv

LEMMA RowsNext == ASSUME RowsInv, [PersistenceNext]_persistenceVars PROVE RowsInv'
BY StoreNext, CpNext, OutboxNext, HostNext, FaultNext, KeptNext DEF RowsInv, StoreKept

LEMMA AlwaysRowsInv == PersistenceSpec => []RowsInv
BY RowsInitInv, RowsNext, PTL DEF PersistenceSpec

\* append_message, save_inflight_message and recover_inflight_messages: whatever
\* exits, times out or is deleted, the state is well formed and no part of a
\* reply comes after its final row, except after an append that was torn.
THEOREM FinalRowStays == PersistenceSpec => []PersistenceInv
<1>1. ASSUME RowsInv PROVE PersistenceInv
  <2>1. StoreInv /\ CpInv /\ OutboxInv /\ HostInv /\ FaultInv /\ KeptInv
    BY <1>1 DEF RowsInv
  <2>2. PersistenceTypeOK
    BY <2>1 DEF StoreInv, StoreTypes, CpInv, OutboxInv, HostInv, FaultInv, KeptInv, PersistenceTypeOK, Line
  <2> QED BY <2>1, <2>2 DEF StoreInv, PersistenceInv
<1> QED BY <1>1, AlwaysRowsInv, PTL

\* PersistenceOutbox: a row the file has held is in the outbox or in the
\* transcript through every exit, timeout and drop of another session, unless its
\* session was deleted or a session was dropped while its row was being sent.
THEOREM WrittenIsKept == PersistenceSpec => []NothingDropped
<1>1. RowsInv => NothingDropped
  BY DEF RowsInv, KeptInv, NothingDropped
<1> QED BY <1>1, AlwaysRowsInv, PTL

\* end_turn_settling, save_inflight_message and recover_inflight_message: a
\* checkpoint goes only when its reply, or the one that was to replace it, is in
\* the transcript, with its session, or in a promotion whose append fails after
\* the remove: no end of a turn, late snapshot, final row or exit elsewhere does it.
THEOREM CheckpointsStay == PersistenceSpec => SavedStays
<1>1. RowsInv /\ [PersistenceNext]_persistenceVars =>
        [\A s \in Session : Goes(s)]_persistenceVars
  BY StoreNext DEF StoreKept
<1>2. [\A s \in Session : Goes(s)]_persistenceVars =>
        [\A s \in Session :
           ckpt[s] # Nothing /\ ckpt'[s] = Nothing /\ s \in rows' =>
             \/ lost' = lost + 1
             \/ \E l \in ToSet(lines'[s]) : l.row \in {ckpt[s].row, saving[s].row}]_persistenceVars
  BY DEF Goes
<1> QED BY <1>1, <1>2, AlwaysRowsInv, PTL DEF PersistenceSpec, SavedStays

=============================================================================
