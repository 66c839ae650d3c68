---------------------------- MODULE QueueLemmas ----------------------------
(***************************************************************************)
(* What the operations on a queue do to the elements it holds.  The proofs *)
(* about AgentHost and ToolBudget cite these lemmas.                       *)
(***************************************************************************)
EXTENDS Integers, Sequences, SequencesExt, SequenceTheorems, TLAPS

NoTwice(s) == \A i, j \in DOMAIN s : s[i] = s[j] => i = j

\* A record is appended.
LEMMA Appended ==
  ASSUME NEW S, NEW s \in Seq(S), NEW x \in S
  PROVE  /\ Append(s, x) \in Seq(S)
         /\ ToSet(Append(s, x)) = ToSet(s) \cup {x}
         /\ NoTwice(s) /\ x \notin ToSet(s) => NoTwice(Append(s, x))
<1>1. /\ Append(s, x) \in Seq(S) /\ Len(Append(s, x)) = Len(s) + 1
      /\ \A i \in 1..Len(s) : Append(s, x)[i] = s[i]
      /\ Append(s, x)[Len(s) + 1] = x
  BY AppendProperties
<1>2. ToSet(Append(s, x)) = ToSet(s) \cup {x}
  BY <1>1 DEF ToSet
<1> QED BY <1>1, <1>2 DEF NoTwice, ToSet

\* What is left when the i-th place is cut out.
LEMMA Cut ==
  ASSUME NEW S, NEW s \in Seq(S), NEW i \in DOMAIN s
  PROVE  /\ RemoveAt(s, i) \in Seq(S) /\ Len(RemoveAt(s, i)) = Len(s) - 1
         /\ \A k \in 1..(Len(s) - 1) : RemoveAt(s, i)[k] = IF k < i THEN s[k] ELSE s[k + 1]
<1> DEFINE r == RemoveAt(s, i)
<1>1. i \in 1..Len(s) /\ Len(s) \in Nat
  OBVIOUS
<1>2. /\ SubSeq(s, 1, i - 1) \in Seq(S) /\ Len(SubSeq(s, 1, i - 1)) = i - 1
      /\ \A k \in 1..(i - 1) : SubSeq(s, 1, i - 1)[k] = s[k]
  BY <1>1
<1>3. /\ SubSeq(s, i + 1, Len(s)) \in Seq(S)
      /\ Len(SubSeq(s, i + 1, Len(s))) = Len(s) - i
      /\ \A k \in 1..(Len(s) - i) : SubSeq(s, i + 1, Len(s))[k] = s[i + k]
  BY <1>1
<1> QED
  <2> DEFINE a == SubSeq(s, 1, i - 1)
             b == SubSeq(s, i + 1, Len(s))
  <2>1. /\ a \o b \in Seq(S) /\ Len(a \o b) = Len(a) + Len(b)
        /\ \A k \in 1..Len(a) + Len(b) :
             (a \o b)[k] = IF k <= Len(a) THEN a[k] ELSE b[k - Len(a)]
    BY <1>2, <1>3, ConcatProperties
  <2>2. r = a \o b
    BY DEF RemoveAt
  <2> HIDE DEF a, b, r
  <2>3. Len(a) = i - 1 /\ Len(b) = Len(s) - i
    BY <1>2, <1>3 DEF a, b
  <2>4. ASSUME NEW k \in 1..(Len(s) - 1) PROVE r[k] = IF k < i THEN s[k] ELSE s[k + 1]
    <3>1. CASE k < i
      <4>1. r[k] = a[k]
        BY <1>1, <2>1, <2>2, <2>3, <3>1
      <4>2. a[k] = s[k]
        BY <1>1, <1>2, <3>1 DEF a
      <4> QED BY <4>1, <4>2, <3>1
    <3>2. CASE ~(k < i)
      <4>1. PICK m \in 1..(Len(s) - i) : k = m + (i - 1)
        <5>1. k - (i - 1) \in 1..(Len(s) - i) /\ k = (k - (i - 1)) + (i - 1)
          BY <1>1, <3>2
        <5> QED BY <5>1
      <4>2. r[k] = b[m]
        <5>1. k \in 1..(Len(a) + Len(b)) /\ ~(k <= Len(a)) /\ k - Len(a) = m
          <6>1. i \in Int /\ m \in Int /\ k \in Int /\ Len(s) \in Int
            BY <1>1
          <6>2. Len(a) + Len(b) = Len(s) - 1
            BY <2>3, <6>1
          <6>3. ~(k <= i - 1) /\ k - (i - 1) = m
            BY <3>2, <4>1, <6>1
          <6> QED BY <6>2, <6>3, <2>3
        <5> QED BY <5>1, <2>1, <2>2
      <4>3. b[m] = s[i + m] /\ i + m = k + 1
        BY <1>1, <1>3, <4>1, SMTT(40) DEF b
      <4> QED BY <4>2, <4>3, <3>2
    <3> QED BY <3>1, <3>2
  <2>5. Len(r) = Len(s) - 1
    BY <1>1, <2>1, <2>2, <2>3, SMTT(40)
  <2> QED BY <2>1, <2>2, <2>4, <2>5 DEF r

\* A record is taken out of the i-th place.
LEMMA TakenOut ==
  ASSUME NEW S, NEW s \in Seq(S), NEW i \in DOMAIN s
  PROVE  /\ RemoveAt(s, i) \in Seq(S)
         /\ ToSet(RemoveAt(s, i)) \subseteq ToSet(s)
         /\ NoTwice(s) => /\ NoTwice(RemoveAt(s, i))
                          /\ ToSet(RemoveAt(s, i)) = ToSet(s) \ {s[i]}
<1> DEFINE r == RemoveAt(s, i)
<1>1. i \in 1..Len(s) /\ Len(s) \in Nat
  OBVIOUS
<1>4. /\ r \in Seq(S) /\ Len(r) = Len(s) - 1
      /\ \A k \in 1..(Len(s) - 1) : r[k] = IF k < i THEN s[k] ELSE s[k + 1]
  BY Cut
<1>5. ToSet(r) \subseteq ToSet(s)
  BY <1>1, <1>4 DEF ToSet
<1>9. DOMAIN s = 1..Len(s) /\ DOMAIN r = 1..(Len(s) - 1)
  BY <1>1, <1>4
<1> HIDE DEF r
<1>6. ASSUME NoTwice(s) PROVE NoTwice(r)
  <2> DEFINE from(k) == IF k < i THEN k ELSE k + 1
  <2>1. \A k \in 1..(Len(s) - 1) : from(k) \in DOMAIN s /\ r[k] = s[from(k)]
    BY <1>1, <1>4, <1>9
  <2>2. \A k, l \in 1..(Len(s) - 1) : from(k) = from(l) => k = l
    BY <1>1
  <2> HIDE DEF from
  <2> QED BY <2>1, <2>2, <1>6, <1>9 DEF NoTwice
<1>7. ASSUME NoTwice(s) PROVE ToSet(r) = ToSet(s) \ {s[i]}
  <2>1. s[i] \notin ToSet(r)
    BY <1>1, <1>4, <1>7 DEF NoTwice, ToSet
  <2>2. ASSUME NEW k \in DOMAIN s, k # i PROVE s[k] \in ToSet(r)
    <3>1. CASE k < i
      BY <1>1, <1>4, <3>1 DEF ToSet
    <3>2. CASE k > i
      <4>1. k - 1 \in 1..(Len(s) - 1) /\ r[k - 1] = s[k]
        BY <1>1, <1>4, <3>2
      <4> QED BY <4>1, <1>4 DEF ToSet
    <3> QED BY <2>2, <3>1, <3>2, <1>1
  <2> QED BY <2>1, <2>2, <1>5 DEF ToSet
<1> QED BY <1>4, <1>5, <1>6, <1>7 DEF r

\* A record is put in front.
LEMMA PutFirst ==
  ASSUME NEW S, NEW s \in Seq(S), NEW x \in S
  PROVE  /\ <<x>> \o s \in Seq(S)
         /\ ToSet(<<x>> \o s) = ToSet(s) \cup {x}
         /\ NoTwice(s) /\ x \notin ToSet(s) => NoTwice(<<x>> \o s)
<1> DEFINE r == <<x>> \o s
<1>1. /\ r \in Seq(S) /\ Len(r) = Len(s) + 1 /\ Len(s) \in Nat
      /\ r[1] = x /\ \A k \in 2..(Len(s) + 1) : r[k] = s[k - 1]
  OBVIOUS
<1>2. ToSet(r) = ToSet(s) \cup {x}
  <2>1. ASSUME NEW k \in DOMAIN s PROVE s[k] \in ToSet(r)
    <3>1. k + 1 \in 2..(Len(s) + 1) /\ r[k + 1] = s[k]
      BY <1>1
    <3> QED BY <3>1, <1>1 DEF ToSet
  <2>2. x \in ToSet(r)
    BY <1>1 DEF ToSet
  <2>3. ToSet(r) \subseteq ToSet(s) \cup {x}
    BY <1>1 DEF ToSet
  <2> QED BY <2>1, <2>2, <2>3 DEF ToSet
<1>3. ASSUME NoTwice(s), x \notin ToSet(s) PROVE NoTwice(r)
  BY <1>1, <1>3 DEF NoTwice, ToSet
<1> QED BY <1>1, <1>2, <1>3

\* The first element leaves.
LEMMA HeadLeaves ==
  ASSUME NEW S, NEW s \in Seq(S), s # <<>>
  PROVE  /\ Head(s) \in ToSet(s) /\ Head(s) \in S /\ Tail(s) \in Seq(S)
         /\ ToSet(Tail(s)) \subseteq ToSet(s)
         /\ NoTwice(s) => NoTwice(Tail(s)) /\ Head(s) \notin ToSet(Tail(s))
<1>1. /\ Len(s) \in Nat \ {0} /\ Head(s) = s[1] /\ Tail(s) \in Seq(S)
      /\ Len(Tail(s)) = Len(s) - 1 /\ \A i \in 1..(Len(s) - 1) : Tail(s)[i] = s[i + 1]
  BY HeadTailProperties, EmptySeq
<1>2. DOMAIN s = 1..Len(s) /\ DOMAIN Tail(s) = 1..(Len(s) - 1)
  BY <1>1
<1>3. \A i \in DOMAIN Tail(s) : i + 1 \in DOMAIN s /\ i + 1 # 1 /\ Tail(s)[i] = s[i + 1]
  BY <1>1, <1>2
<1>4. Head(s) \in ToSet(s) /\ Head(s) \in S
  BY <1>1, <1>2 DEF ToSet
<1>5. ToSet(Tail(s)) \subseteq ToSet(s)
  BY <1>3 DEF ToSet
<1>6. ASSUME NoTwice(s) PROVE NoTwice(Tail(s)) /\ Head(s) \notin ToSet(Tail(s))
  <2>1. Head(s) \notin ToSet(Tail(s))
    BY <1>1, <1>2, <1>3, <1>6 DEF NoTwice, ToSet
  <2>2. ASSUME NEW i \in DOMAIN Tail(s), NEW j \in DOMAIN Tail(s), Tail(s)[i] = Tail(s)[j]
        PROVE  i = j
    <3>1. i + 1 = j + 1
      BY <2>2, <1>3, <1>6 DEF NoTwice
    <3> QED BY <3>1, <1>2
  <2> QED BY <2>1, <2>2 DEF NoTwice
<1> QED BY <1>1, <1>4, <1>5, <1>6

\* The element x leaves, wherever it is.
LEMMA Leaves ==
  ASSUME NEW S, NEW s \in Seq(S), NEW x, NoTwice(s)
  PROVE  /\ RemoveFirst(s, x) \in Seq(S) /\ NoTwice(RemoveFirst(s, x))
         /\ ToSet(RemoveFirst(s, x)) = ToSet(s) \ {x}
<1>1. CASE \E i \in 1..Len(s) : s[i] = x
  <2>1. PICK i \in 1..Len(s) : s[i] = x
    BY <1>1
  <2>2. {j \in 1..Len(s) : s[j] = x} = {i}
    BY <2>1 DEF NoTwice
  <2>3. Min({i}) = i
    BY DEF Min
  <2>4. RemoveFirst(s, x) = RemoveAt(s, i)
    BY <1>1, <2>2, <2>3 DEF RemoveFirst, SelectInSeq
  <2> QED BY <2>1, <2>4, TakenOut
<1>2. CASE ~\E i \in 1..Len(s) : s[i] = x
  BY <1>2 DEF RemoveFirst, ToSet
<1> QED BY <1>1, <1>2

=============================================================================
