-------------------------- MODULE AgentHost_proofs --------------------------
(***************************************************************************)
(* Proofs about the queue (TurnQueue), the calls that overlap on it        *)
(* (QueueOverlap), the host that makes them (AgentHost) and the order of   *)
(* its turns (HostOrder), for every set of prompts, callers and keys and   *)
(* every value of the bounds.                                              *)
(***************************************************************************)
EXTENDS HostOrder, QueueOverlap, QueueLemmas, FiniteSetTheorems

-----------------------------------------------------------------------------
(* Sequences *)

\* The record t is taken out, wherever it is.
LEMMA TakenOutByName ==
  ASSUME NEW S, NEW s \in Seq(S), NEW t, NoTwice(s)
  PROVE  /\ Without(s, t) \in Seq(S) /\ NoTwice(Without(s, t))
         /\ ToSet(Without(s, t)) = ToSet(s) \ {t}
<1>1. CASE t \in ToSet(s)
  <2>1. At(s, t) \in DOMAIN s /\ s[At(s, t)] = t
    BY <1>1 DEF At, ToSet
  <2> QED BY <1>1, <2>1, TakenOut DEF Without
<1>2. CASE t \notin ToSet(s)
  BY <1>2 DEF Without
<1> QED BY <1>1, <1>2

\* Two cells are swapped; past the end there are holes.
LEMMA Swapped ==
  ASSUME NEW S, NEW s \in Seq(S), NEW i \in Nat \ {0}, NEW j \in Nat \ {0}
  PROVE  /\ Swap(s, i, j) \in Seq(S \cup {Hole})
         /\ ToSet(Swap(s, i, j)) \subseteq ToSet(s) \cup {Hole}
<1> DEFINE last == IF i > j THEN i ELSE j
           n    == IF Len(s) > last THEN Len(s) ELSE last
           cell(k) == IF k = i THEN Cell(s, j) ELSE IF k = j THEN Cell(s, i) ELSE Cell(s, k)
<1>1. n \in Nat /\ Swap(s, i, j) = [k \in 1..n |-> cell(k)]
  BY DEF Swap
<1>2. \A k \in Nat \ {0} : Cell(s, k) \in S \cup {Hole} /\ Cell(s, k) \in ToSet(s) \cup {Hole}
  BY DEF Cell, ToSet
<1>3. \A k \in 1..n : cell(k) \in S \cup {Hole} /\ cell(k) \in ToSet(s) \cup {Hole}
  BY <1>2
<1> HIDE DEF cell, n
<1>4. Swap(s, i, j) \in Seq(S \cup {Hole})
  BY <1>1, <1>3, IsASeq
<1>5. ToSet(Swap(s, i, j)) \subseteq ToSet(s) \cup {Hole}
  BY <1>1, <1>3 DEF ToSet
<1> QED BY <1>4, <1>5

\* Inside the sequence a swap only reorders it.
LEMMA SwappedInside ==
  ASSUME NEW S, NEW s \in Seq(S), NEW i \in DOMAIN s, NEW j \in DOMAIN s
  PROVE  /\ Swap(s, i, j) \in Seq(S)
         /\ ToSet(Swap(s, i, j)) = ToSet(s)
         /\ NoTwice(s) => NoTwice(Swap(s, i, j))
<1> DEFINE r == [k \in 1..Len(s) |-> IF k = i THEN s[j] ELSE IF k = j THEN s[i] ELSE s[k]]
<1>1. i \in 1..Len(s) /\ j \in 1..Len(s) /\ Len(s) \in Nat
  OBVIOUS
<1>2. Swap(s, i, j) = r
  BY <1>1 DEF Swap, Cell
<1>3. \A k \in 1..Len(s) : s[k] \in S /\ r[k] \in S
  BY <1>1
<1>4. r \in Seq(S)
  BY <1>1, <1>3, IsASeq
<1>5. DOMAIN r = 1..Len(s) /\ DOMAIN s = 1..Len(s)
  OBVIOUS
<1>6. r[i] = s[j] /\ r[j] = s[i] /\ \A k \in 1..Len(s) \ {i, j} : r[k] = s[k]
  BY <1>1
<1> HIDE DEF r
<1>7. ToSet(r) = ToSet(s)
  BY <1>1, <1>5, <1>6 DEF ToSet
<1>8. NoTwice(s) => NoTwice(r)
  BY <1>1, <1>5, <1>6 DEF NoTwice
<1> QED BY <1>2, <1>4, <1>7, <1>8
-----------------------------------------------------------------------------
(* The inductive invariant *)

\* Every record anywhere has been pushed, and a call works on a mirrored array.
Issued ==
  /\ ToSet(rows) \subseteq issued /\ ToSet(listed) \subseteq issued
  /\ \A a \in ArrayRef : ToSet(heap[a]) \subseteq issued \cup {Hole}
  /\ \A t \in Turn : claims[t] > 0 => t \in issued
  /\ \A c \in Caller :
       op[c].kind # "idle" => op[c].id \in issued /\ op[c].arr \in ArrayRef

\* A record whose push is on its way to host-core is nowhere else.
Nowhere(t) ==
  /\ t \notin ToSet(rows) /\ t \notin ToSet(listed) /\ claims[t] = 0
  /\ \A a \in ArrayRef : t \notin ToSet(heap[a])

Pushing(c) == op[c].kind = "push" /\ op[c].phase = "sent"
PushedAfresh ==
  \A c \in Caller : Pushing(c) =>
    /\ Nowhere(op[c].id)
    /\ \A d \in Caller : op[d].kind # "idle" /\ op[d].id = op[c].id => d = c

\* A record whose row host-core has deleted is not in the table.
Deleted ==
  \A c \in Caller :
    op[c].kind = "remove" /\ op[c].phase = "ok" => op[c].id \notin ToSet(rows)

\* A free slot waits for nothing, and the indices a call carries over its
\* await are places of an array.
Placed ==
  \A c \in Caller :
    /\ op[c].kind = "idle" => op[c].phase = "none"
    /\ op[c].kind \in {"prioritize", "reorder"} => op[c].at # 0
    /\ op[c].kind = "reorder" => op[c].to # 0

QueueInv ==
  /\ QueueTypeOK /\ NoTwice(rows)
  /\ Issued /\ PushedAfresh /\ Deleted /\ Placed /\ ClaimedLeftStore

-----------------------------------------------------------------------------
(* The synchronous part of a call *)

\* What a call may do before its await: it takes a free slot, issues a record
\* nobody has seen or works on one that is mirrored, and takes records out of
\* the mirror only.
Begins(c, t, kind, a, at, to) ==
  /\ op' = [op EXCEPT ![c] = Sent(kind, t, a, at, to)]
  /\ kind \in {"prioritize", "reorder"} => at # 0
  /\ kind = "reorder" => to # 0
  /\ kind = "push" => t \notin issued /\ issued' = issued \cup {t}
  /\ kind # "push" => issued' = issued /\ t \in ToSet(heap[a])
  /\ heap' \in [ArrayRef -> Seq(Turn \cup {Hole})]
  /\ \A b \in ArrayRef : ToSet(heap'[b]) \subseteq ToSet(heap[b])
  /\ cur' \in ArrayRef \cup {NoArray}
  /\ taken' \subseteq taken \cup (IF kind = "remove" THEN {t} ELSE {})
  /\ UNCHANGED <<rows, held, boot, listed, accepted, claims, restarts>>

\* No call breaks the invariant before its await.
LEMMA BeginKeeps ==
  ASSUME QueueInv, NEW c \in Caller, NEW t \in Turn, NEW kind \in Kind \ {"idle"},
         NEW a \in ArrayRef, NEW at \in Nat, NEW to \in Nat,
         Begins(c, t, kind, a, at, to)
  PROVE  QueueInv'
<1> USE DEF QueueInv, Begins
<1>1. t \in issued' /\ issued \subseteq issued' /\ issued' \subseteq Turn
  BY QueueAssumption DEF Issued, QueueTypeOK
<1>2. op' \in [Caller -> Call] /\ op'[c] = Sent(kind, t, a, at, to)
      /\ \A d \in Caller \ {c} : op'[d] = op[d]
  BY DEF QueueTypeOK, Call, Sent, Phase
<1>3. QueueTypeOK'
  BY <1>1, <1>2 DEF QueueTypeOK, Issued
<1>4. NoTwice(rows)'
  BY DEF NoTwice
<1>5. Issued'
  BY <1>1, <1>2 DEF Issued, Sent
<1>6. PushedAfresh'
  <2>1. \A u \in Turn : Nowhere(u) => Nowhere(u)'
    BY DEF Nowhere
  <2>2. SUFFICES ASSUME NEW e \in Caller, Pushing(e)'
                 PROVE  /\ Nowhere(op[e].id)'
                        /\ \A d \in Caller :
                             op'[d].kind # "idle" /\ op'[d].id = op'[e].id => d = e
    BY DEF PushedAfresh
  <2>3. CASE e = c
    <3>1. kind = "push" /\ op'[e].id = t
      BY <1>2, <2>2, <2>3 DEF Pushing, Sent
    <3>2. Nowhere(t)
      <4>1. t \notin issued /\ t # Hole
        BY <3>1, QueueAssumption
      <4>2. claims[t] \in 0..2 /\ ~(claims[t] > 0)
        BY <4>1 DEF Issued, QueueTypeOK
      <4> QED BY <4>1, <4>2 DEF Nowhere, Issued
    <3>3. \A d \in Caller \ {c} : op[d].kind # "idle" => op[d].id # t
      BY <3>1 DEF Issued
    <3>4. Nowhere(op[e].id)'
      BY <2>1, <3>1, <3>2 DEF Nowhere
    <3> QED BY <1>2, <2>3, <3>1, <3>3, <3>4
  <2>4. CASE e # c
    <3>1. op'[e] = op[e] /\ Pushing(e)
      BY <1>2, <2>2, <2>4 DEF Pushing
    <3>2. op[e].id \in Turn /\ op[e].id \in issued /\ Nowhere(op[e].id)
      BY <3>1 DEF Pushing, PushedAfresh, Issued, QueueTypeOK
    <3>3. op[e].id # t
      BY <3>2 DEF Nowhere
    <3>4. Nowhere(op[e].id)'
      BY <2>1, <3>1, <3>2 DEF Nowhere
    <3> QED BY <1>2, <3>1, <3>3, <3>4 DEF PushedAfresh, Sent
  <2> QED BY <2>3, <2>4
<1>7. Deleted'
  BY <1>2 DEF Deleted, Sent
<1>8. ClaimedLeftStore'
  BY DEF ClaimedLeftStore
<1>9. Placed'
  BY <1>2 DEF Placed, Sent
<1> QED BY <1>3, <1>4, <1>5, <1>6, <1>7, <1>8, <1>9

LEMMA PushBeginStep ==
  ASSUME QueueInv, NEW c \in Caller, NEW t \in Turn, PushBegin(c, t)
  PROVE  QueueInv'
<1> DEFINE a == IF cur = NoArray THEN t ELSE cur
<1>1. /\ t \notin issued /\ issued' = issued \cup {t}
      /\ op' = [op EXCEPT ![c] = Sent("push", t, a, 0, 0)]
      /\ UNCHANGED <<rows, heap, cur, held, boot, listed, accepted, taken, claims, restarts>>
  BY DEF PushBegin
<1>2. a \in ArrayRef
  BY DEF QueueInv, QueueTypeOK, ArrayRef
<1>3. heap \in [ArrayRef -> Seq(Turn \cup {Hole})] /\ cur \in ArrayRef \cup {NoArray}
  BY DEF QueueInv, QueueTypeOK
<1> HIDE DEF a
<1>4. Begins(c, t, "push", a, 0, 0)
  BY <1>1, <1>2, <1>3 DEF Begins
<1>5. "push" \in Kind \ {"idle"}
  BY DEF Kind
<1> QED BY <1>2, <1>4, <1>5, BeginKeeps

LEMMA RemoveBeginStep ==
  ASSUME QueueInv, NEW c \in Caller, NEW t \in Turn, RemoveBegin(c, t)
  PROVE  QueueInv'
<1>1. PICK i \in DOMAIN Mem :
        /\ FoundAt(Mem, t, i)
        /\ heap' = [heap EXCEPT ![cur] = RemoveAt(@, i)]
        /\ cur' = IF Len(Mem) = 1 THEN NoArray ELSE cur
  BY DEF RemoveBegin
<1>2. /\ op' = [op EXCEPT ![c] = Sent("remove", t, cur, 0, 0)] /\ taken' = taken \cup {t}
      /\ UNCHANGED <<rows, held, boot, listed, issued, accepted, claims, restarts>>
  BY DEF RemoveBegin
<1>3. heap \in [ArrayRef -> Seq(Turn \cup {Hole})] /\ cur \in ArrayRef \cup {NoArray}
  BY DEF QueueInv, QueueTypeOK
<1>4. cur \in ArrayRef /\ i \in DOMAIN heap[cur] /\ heap[cur][i] = t
  BY <1>1, <1>3 DEF Mem, FoundAt
<1>5. /\ RemoveAt(heap[cur], i) \in Seq(Turn \cup {Hole})
      /\ ToSet(RemoveAt(heap[cur], i)) \subseteq ToSet(heap[cur])
  BY <1>3, <1>4, TakenOut
<1>6. /\ heap' \in [ArrayRef -> Seq(Turn \cup {Hole})]
      /\ \A b \in ArrayRef : ToSet(heap'[b]) \subseteq ToSet(heap[b])
  BY <1>1, <1>3, <1>4, <1>5
<1>7. t \in ToSet(heap[cur]) /\ cur' \in ArrayRef \cup {NoArray}
  BY <1>1, <1>4 DEF ToSet
<1>8. Begins(c, t, "remove", cur, 0, 0)
  BY <1>2, <1>6, <1>7 DEF Begins
<1>9. "remove" \in Kind \ {"idle"}
  BY DEF Kind
<1> QED BY <1>4, <1>8, <1>9, BeginKeeps

\* An index is read and the mirror left alone.
LEMMA IndexBeginStep ==
  ASSUME QueueInv, NEW c \in Caller, NEW t \in Turn,
         PrioritizeBegin(c, t) \/ \E up \in BOOLEAN : ReorderBegin(c, t, up)
  PROVE  QueueInv'
<1>1. PICK kind \in {"prioritize", "reorder"}, i \in DOMAIN Mem, at \in Nat \ {0}, to \in Nat :
        /\ FoundAt(Mem, t, i) /\ op' = [op EXCEPT ![c] = Sent(kind, t, cur, at, to)]
        /\ kind = "reorder" => to # 0
  <2>1. heap \in [ArrayRef -> Seq(Turn \cup {Hole})] /\ cur \in ArrayRef \cup {NoArray}
    BY DEF QueueInv, QueueTypeOK
  <2>2. Mem \in Seq(Turn \cup {Hole})
    BY <2>1 DEF Mem
  <2>3. DOMAIN Mem \subseteq Nat \ {0}
    BY <2>2
  <2>4. CASE PrioritizeBegin(c, t)
    BY <2>3, <2>4 DEF PrioritizeBegin
  <2>5. ASSUME NEW up \in BOOLEAN, ReorderBegin(c, t, up)
        PROVE  \E i \in DOMAIN Mem, at \in Nat \ {0}, to \in Nat \ {0} :
                 FoundAt(Mem, t, i) /\ op' = [op EXCEPT ![c] = Sent("reorder", t, cur, at, to)]
    BY <2>3, <2>5 DEF ReorderBegin
  <2> QED BY <2>4, <2>5
<1>2. UNCHANGED <<rows, heap, cur, held, boot, listed, issued, accepted, taken, claims, restarts>>
  BY DEF PrioritizeBegin, ReorderBegin
<1>3. heap \in [ArrayRef -> Seq(Turn \cup {Hole})] /\ cur \in ArrayRef \cup {NoArray}
  BY DEF QueueInv, QueueTypeOK
<1>4. cur \in ArrayRef /\ t \in ToSet(heap[cur])
  BY <1>1, <1>3 DEF Mem, FoundAt, ToSet
<1>5. Begins(c, t, kind, cur, at, to)
  BY <1>1, <1>2, <1>3, <1>4 DEF Begins
<1>6. kind \in Kind \ {"idle"}
  BY DEF Kind
<1> QED BY <1>4, <1>5, <1>6, BeginKeeps

-----------------------------------------------------------------------------
(* host-core *)

\* What host-core may do with a request: the table gains the record of a push
\* only, and has lost the record of a remove that succeeds.
LEMMA StoreKeeps ==
  ASSUME QueueInv, NEW c \in Caller, NEW ph \in {"ok", "refused"},
         op[c].kind # "idle", op' = [op EXCEPT ![c].phase = ph],
         rows' \in Seq(Turn), NoTwice(rows'),
         ToSet(rows') \subseteq ToSet(rows) \cup (IF Pushing(c) THEN {op[c].id} ELSE {}),
         op[c].kind = "remove" => op[c].id \notin ToSet(rows'),
         UNCHANGED <<heap, cur, held, boot, listed, issued, accepted, taken, claims, restarts>>
  PROVE  QueueInv'
<1> USE DEF QueueInv
<1>1. /\ op \in [Caller -> Call] /\ op' \in [Caller -> Call]
      /\ op'[c].kind = op[c].kind /\ op'[c].id = op[c].id /\ op'[c].arr = op[c].arr
      /\ op'[c].phase = ph /\ \A d \in Caller \ {c} : op'[d] = op[d]
  BY DEF QueueTypeOK, Call, Phase
<1>2. QueueTypeOK'
  BY <1>1 DEF QueueTypeOK
<1>3. op[c].id \in issued
  BY DEF Issued
<1>4. Issued'
  BY <1>1, <1>3 DEF Issued
<1>5. PushedAfresh'
  <2>1. SUFFICES ASSUME NEW e \in Caller, Pushing(e)'
                 PROVE  /\ Nowhere(op[e].id)'
                        /\ \A d \in Caller :
                             op'[d].kind # "idle" /\ op'[d].id = op'[e].id => d = e
    BY DEF PushedAfresh
  <2>2. e # c /\ op'[e] = op[e] /\ Pushing(e)
    BY <1>1, <2>1 DEF Pushing
  <2>3. Nowhere(op[e].id) /\ op[c].id # op[e].id
    BY <2>2 DEF PushedAfresh
  <2>4. Nowhere(op[e].id)'
    BY <2>2, <2>3 DEF Nowhere
  <2> QED BY <1>1, <2>2, <2>4 DEF PushedAfresh
<1>6. Deleted'
  <2>1. SUFFICES ASSUME NEW d \in Caller, op'[d].kind = "remove", op'[d].phase = "ok"
                 PROVE  op'[d].id \notin ToSet(rows')
    BY DEF Deleted
  <2>2. CASE d = c
    BY <1>1, <2>1, <2>2
  <2>3. CASE d # c
    BY <1>1, <2>1, <2>3 DEF Deleted, PushedAfresh
  <2> QED BY <2>2, <2>3
<1>7. ClaimedLeftStore'
  BY DEF ClaimedLeftStore, PushedAfresh, Nowhere
<1>8. Placed'
  <2>1. op'[c].at = op[c].at /\ op'[c].to = op[c].to
    BY <1>1 DEF Call
  <2> QED BY <1>1, <2>1 DEF Placed
<1> QED BY <1>2, <1>4, <1>5, <1>6, <1>7, <1>8

LEMMA StoreSteps ==
  ASSUME QueueInv, NEW c \in Caller, StoreStep(c)
  PROVE  QueueInv'
<1> DEFINE t == op[c].id
<1>1. rows \in Seq(Turn) /\ NoTwice(rows) /\ op[c] \in Call
  BY DEF QueueInv, QueueTypeOK
<1>2. op[c].kind # "idle" => t \in Turn
  BY DEF QueueInv, QueueTypeOK, Issued
<1>3. CASE StorePush(c)
  <2>1. PICK ph \in {"ok", "refused"} :
          /\ op' = [op EXCEPT ![c].phase = ph]
          /\ rows' \in {rows, Append(rows, t)}
    BY <1>3 DEF StorePush
  <2>2. Pushing(c) /\ t \in Turn /\ t \notin ToSet(rows)
    BY <1>2, <1>3 DEF StorePush, Pushing, QueueInv, PushedAfresh, Nowhere
  <2>3. /\ Append(rows, t) \in Seq(Turn) /\ NoTwice(Append(rows, t))
        /\ ToSet(Append(rows, t)) = ToSet(rows) \cup {t}
    BY <1>1, <2>2, Appended
  <2>4. /\ rows' \in Seq(Turn) /\ NoTwice(rows')
        /\ ToSet(rows') \subseteq ToSet(rows) \cup {t}
    <3>1. CASE rows' = rows
      BY <1>1, <3>1
    <3>2. CASE rows' = Append(rows, t)
      BY <2>3, <3>2
    <3> QED BY <2>1, <3>1, <3>2
  <2> QED BY <1>3, <2>1, <2>2, <2>4, StoreKeeps DEF StorePush, Pushing
<1>4. CASE StoreRemove(c)
  <2>1. /\ rows' \in Seq(Turn) /\ NoTwice(rows') /\ ToSet(rows') = ToSet(rows) \ {t}
    BY <1>1, <1>4, TakenOutByName DEF StoreRemove
  <2> QED BY <1>4, <2>1, StoreKeeps DEF StoreRemove
<1>5. CASE StorePrioritize(c)
  <2>1. PICK ph \in {"ok", "refused"} : op' = [op EXCEPT ![c].phase = ph]
    BY <1>5 DEF StorePrioritize
  <2>2. t \in Turn /\ rows' = IF t \in ToSet(rows) THEN <<t>> \o Without(rows, t) ELSE rows
    BY <1>2, <1>5 DEF StorePrioritize
  <2>3. /\ Without(rows, t) \in Seq(Turn) /\ NoTwice(Without(rows, t))
        /\ ToSet(Without(rows, t)) = ToSet(rows) \ {t}
    BY <1>1, TakenOutByName
  <2>4. /\ rows' \in Seq(Turn) /\ NoTwice(rows') /\ ToSet(rows') \subseteq ToSet(rows)
    BY <1>1, <2>2, <2>3, PutFirst
  <2> QED BY <1>5, <2>1, <2>4, StoreKeeps DEF StorePrioritize
<1>6. CASE StoreReorder(c)
  <2>1. rows' = rows \/ \E i, j \in DOMAIN rows : rows' = Swap(rows, i, j)
    BY <1>6 DEF StoreReorder, At, ToSet
  <2>2. /\ rows' \in Seq(Turn) /\ NoTwice(rows') /\ ToSet(rows') \subseteq ToSet(rows)
    BY <1>1, <2>1, SwappedInside
  <2> QED BY <1>6, <2>2, StoreKeeps DEF StoreReorder
<1> QED BY <1>3, <1>4, <1>5, <1>6 DEF StoreStep

-----------------------------------------------------------------------------
(* The continuation of a call *)

\* What a call may do after its await: it frees its slot, puts no record in an
\* array but its own, and claims only a record whose row is gone.
LEMMA ReturnKeeps ==
  ASSUME QueueInv, NEW c \in Caller, op[c].kind # "idle", ~Pushing(c) \/ UNCHANGED <<heap, accepted>>,
         op' = [op EXCEPT ![c] = Idle],
         heap' \in [ArrayRef -> Seq(Turn \cup {Hole})],
         \A a \in ArrayRef : ToSet(heap'[a]) \subseteq ToSet(heap[a]) \cup {Hole, op[c].id},
         cur' \in ArrayRef \cup {NoArray},
         accepted' \in {accepted, accepted \cup {op[c].id}},
         claims' \in [Turn -> 0..2],
         \A t \in Turn : claims'[t] > 0 =>
           claims[t] > 0 \/ (t = op[c].id /\ op[c].kind = "remove" /\ op[c].phase = "ok"),
         UNCHANGED <<rows, held, boot, listed, issued, taken, restarts>>
  PROVE  QueueInv'
<1> USE DEF QueueInv
<1>1. /\ op \in [Caller -> Call] /\ op' \in [Caller -> Call] /\ op'[c].kind = "idle"
      /\ op'[c].phase = "none" /\ \A d \in Caller \ {c} : op'[d] = op[d]
  BY DEF QueueTypeOK, Call, Idle, Kind, Phase
<1>2. op[c].id \in issued /\ op[c].id \in Turn
  BY DEF Issued, QueueTypeOK
<1>3. QueueTypeOK'
  BY <1>1, <1>2 DEF QueueTypeOK
<1>4. NoTwice(rows)'
  BY DEF NoTwice
<1>5. Issued'
  BY <1>1, <1>2 DEF Issued
<1>6. PushedAfresh'
  <2>1. SUFFICES ASSUME NEW e \in Caller, Pushing(e)'
                 PROVE  /\ Nowhere(op[e].id)'
                        /\ \A d \in Caller :
                             op'[d].kind # "idle" /\ op'[d].id = op'[e].id => d = e
    BY DEF PushedAfresh
  <2>2. e # c /\ op'[e] = op[e] /\ Pushing(e)
    BY <1>1, <2>1 DEF Pushing
  <2>3. Nowhere(op[e].id) /\ op[c].id # op[e].id
    BY <2>2 DEF PushedAfresh
  <2>4. op[e].id \in Turn /\ op[e].id # Hole
    BY <2>2, QueueAssumption DEF Issued, QueueTypeOK, Pushing
  <2>5. Nowhere(op[e].id)'
    <3>1. claims[op[e].id] \in 0..2 /\ claims'[op[e].id] \in 0..2
      BY <2>4 DEF QueueTypeOK
    <3>2. claims'[op[e].id] = 0
      BY <2>3, <2>4, <3>1 DEF Nowhere
    <3> QED BY <2>2, <2>3, <2>4, <3>2 DEF Nowhere
  <2> QED BY <1>1, <2>2, <2>5 DEF PushedAfresh
<1>7. Deleted'
  BY <1>1 DEF Deleted
<1>8. Placed'
  BY <1>1 DEF Placed
<1>9. ClaimedLeftStore'
  BY DEF ClaimedLeftStore, Deleted
<1> QED BY <1>3, <1>4, <1>5, <1>6, <1>7, <1>8, <1>9

\* The mirror changes in one array.
LEMMA ArrayWritten ==
  ASSUME QueueInv, NEW a \in ArrayRef, NEW x, NEW s \in Seq(Turn \cup {Hole}),
         heap' = [heap EXCEPT ![a] = s], ToSet(s) \subseteq ToSet(heap[a]) \cup {Hole, x}
  PROVE  /\ heap' \in [ArrayRef -> Seq(Turn \cup {Hole})]
         /\ \A b \in ArrayRef : ToSet(heap'[b]) \subseteq ToSet(heap[b]) \cup {Hole, x}
BY DEF QueueInv, QueueTypeOK

LEMMA ReturnSteps ==
  ASSUME QueueInv, NEW c \in Caller, ReturnStep(c) \/ CallRejects(c)
  PROVE  QueueInv'
<1> DEFINE t == op[c].id
           a == op[c].arr
           H == Turn \cup {Hole}
<1>1. /\ op[c] \in Call /\ heap \in [ArrayRef -> Seq(H)] /\ claims \in [Turn -> 0..2]
      /\ cur \in ArrayRef \cup {NoArray}
  BY DEF QueueInv, QueueTypeOK
<1>2. op[c].kind # "idle" => t \in Turn /\ a \in ArrayRef
  BY DEF QueueInv, QueueTypeOK, Issued
<1>3. CASE PushReturn(c)
  <2>1. op[c].kind = "push" /\ op[c].phase = "ok" /\ t \in Turn /\ a \in ArrayRef
    BY <1>2, <1>3 DEF PushReturn
  <2>2. Append(heap[a], t) \in Seq(H) /\ ToSet(Append(heap[a], t)) = ToSet(heap[a]) \cup {t}
    BY <1>1, <2>1, Appended
  <2>3. /\ heap' = [heap EXCEPT ![a] = Append(heap[a], t)] /\ cur' = a
        /\ accepted' = accepted \cup {t} /\ op' = [op EXCEPT ![c] = Idle]
        /\ UNCHANGED <<rows, held, boot, listed, issued, taken, claims, restarts>>
    BY <1>3 DEF PushReturn
  <2>4. /\ heap' \in [ArrayRef -> Seq(Turn \cup {Hole})]
        /\ \A b \in ArrayRef : ToSet(heap'[b]) \subseteq ToSet(heap[b]) \cup {Hole, t}
    <3>1. ToSet(Append(heap[a], t)) \subseteq ToSet(heap[a]) \cup {Hole, t}
      BY <2>2
    <3> HIDE DEF t, a
    <3> QED BY <2>1, <2>2, <2>3, <3>1, ArrayWritten
  <2> QED BY <1>1, <2>1, <2>3, <2>4, ReturnKeeps DEF Pushing
<1>4. CASE RemoveReturn(c)
  <2>1. op[c].kind = "remove" /\ op[c].phase = "ok" /\ t \in Turn
    BY <1>2, <1>4 DEF RemoveReturn
  <2>2. claims' = [claims EXCEPT ![t] = @ + 1] /\ claims[t] < 2
    BY <1>4 DEF RemoveReturn
  <2>3. /\ claims' \in [Turn -> 0..2]
        /\ \A u \in Turn : claims'[u] > 0 => claims[u] > 0 \/ u = t
    BY <1>1, <2>1, <2>2
  <2>4. /\ op' = [op EXCEPT ![c] = Idle]
        /\ UNCHANGED <<rows, heap, cur, held, boot, listed, issued, accepted, taken, restarts>>
    BY <1>4 DEF RemoveReturn
  <2> QED BY <1>1, <2>1, <2>3, <2>4, ReturnKeeps DEF Pushing
<1>5. CASE PrioritizeReturn(c)
  <2> DEFINE i == op[c].at
             cell == Cell(heap[a], i)
             rest == Splice(heap[a], i)
  <2>1. /\ op[c].kind = "prioritize" /\ op[c].phase = "ok" /\ t \in Turn /\ a \in ArrayRef
        /\ i \in Nat \ {0}
    BY <1>1, <1>2, <1>5 DEF PrioritizeReturn, QueueInv, Placed, Call
  <2>2. heap[a] \in Seq(H)
    BY <1>1, <2>1
  <2>3. cell \in H /\ cell \in ToSet(heap[a]) \cup {Hole}
    BY <2>1, <2>2 DEF Cell, ToSet
  <2>4. rest \in Seq(H) /\ ToSet(rest) \subseteq ToSet(heap[a])
    BY <2>1, <2>2, TakenOut DEF Splice
  <2>5. /\ heap' = [heap EXCEPT ![a] = <<cell>> \o rest] /\ op' = [op EXCEPT ![c] = Idle]
        /\ UNCHANGED <<rows, cur, held, boot, listed, issued, accepted, taken, claims, restarts>>
    BY <1>5 DEF PrioritizeReturn
  <2> HIDE DEF cell, rest
  <2>6. <<cell>> \o rest \in Seq(H) /\ ToSet(<<cell>> \o rest) = ToSet(rest) \cup {cell}
    BY <2>3, <2>4, PutFirst
  <2>7. /\ heap' \in [ArrayRef -> Seq(Turn \cup {Hole})]
        /\ \A b \in ArrayRef : ToSet(heap'[b]) \subseteq ToSet(heap[b]) \cup {Hole, t}
    <3>1. ToSet(<<cell>> \o rest) \subseteq ToSet(heap[a]) \cup {Hole, t}
      BY <2>3, <2>4, <2>6
    <3> HIDE DEF t, a
    <3> QED BY <2>1, <2>5, <2>6, <3>1, ArrayWritten
  <2> QED BY <1>1, <2>1, <2>5, <2>7, ReturnKeeps DEF Pushing
<1>6. CASE ReorderReturn(c)
  <2> DEFINE swapped == Swap(heap[a], op[c].at, op[c].to)
  <2>1. /\ op[c].kind = "reorder" /\ op[c].phase = "ok" /\ t \in Turn /\ a \in ArrayRef
        /\ op[c].at \in Nat \ {0} /\ op[c].to \in Nat \ {0}
    BY <1>1, <1>2, <1>6 DEF ReorderReturn, QueueInv, Placed, Call
  <2>2. heap[a] \in Seq(H) /\ H \cup {Hole} = H
    BY <1>1, <2>1
  <2>3. swapped \in Seq(H) /\ ToSet(swapped) \subseteq ToSet(heap[a]) \cup {Hole}
    BY <2>1, <2>2, Swapped
  <2>4. /\ heap' = [heap EXCEPT ![a] = swapped] /\ op' = [op EXCEPT ![c] = Idle]
        /\ UNCHANGED <<rows, cur, held, boot, listed, issued, accepted, taken, claims, restarts>>
    BY <1>6 DEF ReorderReturn
  <2> HIDE DEF swapped
  <2>5. /\ heap' \in [ArrayRef -> Seq(Turn \cup {Hole})]
        /\ \A b \in ArrayRef : ToSet(heap'[b]) \subseteq ToSet(heap[b]) \cup {Hole, t}
    BY <2>1, <2>3, <2>4, ArrayWritten
  <2> QED BY <1>1, <2>1, <2>4, <2>5, ReturnKeeps DEF Pushing
<1>7. CASE CallRejects(c) /\ op[c].kind # "idle"
  <2>1. /\ op' = [op EXCEPT ![c] = Idle]
        /\ UNCHANGED <<rows, heap, cur, held, boot, listed, issued, accepted, taken, claims,
                       restarts>>
    BY <1>7 DEF CallRejects
  <2> QED BY <1>1, <1>7, <2>1, ReturnKeeps
<1>8. CallRejects(c) => op[c].kind # "idle"
  BY DEF CallRejects, QueueInv, Placed
<1> QED BY <1>3, <1>4, <1>5, <1>6, <1>7, <1>8 DEF ReturnStep

-----------------------------------------------------------------------------
(* Restart and restore *)

LEMMA QueueRestartStep ==
  ASSUME QueueInv, QueueRestart
  PROVE  QueueInv'
<1>1. /\ restarts < MaxRestarts /\ restarts' = restarts + 1
      /\ heap' = [a \in ArrayRef |-> <<>>] /\ cur' = NoArray
      /\ held' = FALSE /\ boot' = "listing" /\ listed' = <<>>
      /\ op' = [c \in Caller |-> Idle]
      /\ UNCHANGED <<rows, issued, accepted, taken, claims>>
  BY DEF QueueRestart
<1>2. Idle \in Call /\ Idle.kind = "idle" /\ Idle.phase = "none"
  BY DEF Idle, Call, Kind, Phase
<1>3. <<>> \in Seq(Turn) /\ <<>> \in Seq(Turn \cup {Hole}) /\ ToSet(<<>>) = {}
  BY DEF ToSet
<1>4. QueueTypeOK'
  <2>1. restarts' \in 0..MaxRestarts
    BY <1>1, QueueAssumption DEF QueueInv, QueueTypeOK
  <2>2. heap' \in [ArrayRef -> Seq(Turn \cup {Hole})] /\ op' \in [Caller -> Call]
    BY <1>1, <1>2, <1>3
  <2> QED BY <1>1, <1>3, <2>1, <2>2 DEF QueueInv, QueueTypeOK
<1>5. NoTwice(rows)' /\ ClaimedLeftStore'
  BY <1>1 DEF QueueInv, NoTwice, ClaimedLeftStore
<1>6. Issued'
  BY <1>1, <1>2, <1>3 DEF QueueInv, Issued
<1>7. PushedAfresh' /\ Deleted' /\ Placed'
  BY <1>1, <1>2 DEF PushedAfresh, Pushing, Deleted, Placed
<1> QED BY <1>4, <1>5, <1>6, <1>7 DEF QueueInv

\* Reading the table and rebuilding the mirror bring back only what the table
\* holds, so no record whose push is on its way.
LEMMA RestoreSteps ==
  ASSUME QueueInv, StoreList \/ RestoreReturn \/ Resume
  PROVE  QueueInv'
<1>1. /\ listed' \in {listed, rows, <<>>}
      /\ heap' \in {heap, [heap EXCEPT ![Boot] = listed]}
      /\ cur' \in {cur, NoArray, Boot} /\ held' \in BOOLEAN
      /\ boot' \in {boot, "listed", "ready"}
      /\ UNCHANGED <<rows, op, issued, accepted, taken, claims, restarts>>
  BY DEF StoreList, RestoreReturn, Resume, QueueInv, QueueTypeOK
<1>2. <<>> \in Seq(Turn) /\ ToSet(<<>>) = {}
  BY DEF ToSet
<1>3. listed' \in Seq(Turn) /\ ToSet(listed') \subseteq ToSet(listed) \cup ToSet(rows)
  <2>1. rows \in Seq(Turn) /\ listed \in Seq(Turn)
    BY DEF QueueInv, QueueTypeOK
  <2> QED BY <1>1, <1>2, <2>1
<1>4. /\ heap' \in [ArrayRef -> Seq(Turn \cup {Hole})]
      /\ \A a \in ArrayRef : ToSet(heap'[a]) \subseteq ToSet(heap[a]) \cup ToSet(listed)
  <2>1. heap \in [ArrayRef -> Seq(Turn \cup {Hole})] /\ listed \in Seq(Turn)
    BY DEF QueueInv, QueueTypeOK
  <2>2. listed \in Seq(Turn \cup {Hole})
    BY <2>1
  <2> QED BY <1>1, <2>1, <2>2 DEF ArrayRef
<1>5. QueueTypeOK'
  BY <1>1, <1>3, <1>4 DEF QueueInv, QueueTypeOK, ArrayRef
<1>6. NoTwice(rows)' /\ ClaimedLeftStore' /\ Deleted' /\ Placed'
  BY <1>1 DEF QueueInv, NoTwice, ClaimedLeftStore, Deleted, Placed
<1>7. Issued'
  BY <1>1, <1>3, <1>4 DEF QueueInv, Issued
<1>8. PushedAfresh'
  BY <1>1, <1>3, <1>4 DEF QueueInv, PushedAfresh, Pushing, Nowhere
<1> QED BY <1>5, <1>6, <1>7, <1>8 DEF QueueInv

-----------------------------------------------------------------------------
(* The theorems *)

LEMMA QueueInvInit == QueueInit => QueueInv
<1> SUFFICES ASSUME QueueInit PROVE QueueInv
  OBVIOUS
<1>1. Idle \in Call /\ Idle.kind = "idle" /\ Idle.phase = "none"
  BY DEF Idle, Call, Kind, Phase
<1>2. <<>> \in Seq(Turn) /\ <<>> \in Seq(Turn \cup {Hole}) /\ ToSet(<<>>) = {} /\ NoTwice(<<>>)
  BY DEF ToSet, NoTwice
<1>3. QueueTypeOK
  <2>1. restarts \in 0..MaxRestarts /\ claims \in [Turn -> 0..2]
    BY QueueAssumption DEF QueueInit
  <2>2. heap \in [ArrayRef -> Seq(Turn \cup {Hole})] /\ op \in [Caller -> Call]
    BY <1>1, <1>2 DEF QueueInit
  <2> QED BY <1>2, <2>1, <2>2 DEF QueueInit, QueueTypeOK
<1>4. Issued
  BY <1>1, <1>2 DEF QueueInit, Issued
<1> QED BY <1>1, <1>2, <1>3, <1>4
        DEF QueueInit, QueueInv, PushedAfresh, Pushing, Deleted, Placed, ClaimedLeftStore

LEMMA QueueInvStep == QueueInv /\ [QueueNext]_queueVars => QueueInv'
<1> SUFFICES ASSUME QueueInv, [QueueNext]_queueVars PROVE QueueInv'
  OBVIOUS
<1>1. CASE QueueNext
  <2>1. ASSUME NEW c \in Caller, NEW t \in Turn, PushBegin(c, t) PROVE QueueInv'
    BY <2>1, PushBeginStep
  <2>2. ASSUME NEW c \in Caller, NEW t \in Turn, RemoveBegin(c, t) PROVE QueueInv'
    BY <2>2, RemoveBeginStep
  <2>3. ASSUME NEW c \in Caller, NEW t \in Turn,
               PrioritizeBegin(c, t) \/ \E up \in BOOLEAN : ReorderBegin(c, t, up)
        PROVE  QueueInv'
    BY <2>3, IndexBeginStep
  <2>4. ASSUME NEW c \in Caller, ShiftBegin(c) PROVE QueueInv'
    <3>1. Mem \in Seq(Turn \cup {Hole})
      BY DEF QueueInv, QueueTypeOK, Mem
    <3>2. Head(Mem) \in Turn /\ RemoveBegin(c, Head(Mem))
      BY <2>4, <3>1 DEF ShiftBegin
    <3> QED BY <3>2, RemoveBeginStep
  <2>5. ASSUME NEW c \in Caller, StoreStep(c) PROVE QueueInv'
    BY <2>5, StoreSteps
  <2>6. ASSUME NEW c \in Caller, ReturnStep(c) \/ CallRejects(c) PROVE QueueInv'
    BY <2>6, ReturnSteps
  <2> QED BY <1>1, <2>1, <2>2, <2>3, <2>4, <2>5, <2>6, QueueRestartStep, RestoreSteps
          DEF QueueNext
<1>2. CASE UNCHANGED queueVars
  BY <1>2 DEF queueVars, QueueInv, QueueTypeOK, NoTwice, Issued, PushedAfresh, Pushing,
              Nowhere, Deleted, Placed, ClaimedLeftStore
<1> QED BY <1>1, <1>2

LEMMA QueueInvHolds == QueueSpec => []QueueInv
BY QueueInvInit, QueueInvStep, PTL DEF QueueSpec

\* Whatever the interleaving of calls, restarts and lost answers, the table
\* holds records, the mirror records and the holes stale indices leave, and a
\* prompt reported as queued or taken has been pushed.
THEOREM QueueTypes == QueueSpec => []QueueTypeOK
<1>1. QueueInv => QueueTypeOK
  BY DEF QueueInv
<1> QED BY <1>1, QueueInvHolds, PTL

\* A prompt that a remove or a shift has handed to its caller is not in the
\* table, so no later restore can queue it again.
THEOREM ClaimedRecordsAreGone == QueueSpec => []ClaimedLeftStore
<1>1. QueueInv => ClaimedLeftStore
  BY DEF QueueInv
<1> QED BY <1>1, QueueInvHolds, PTL

-----------------------------------------------------------------------------
(***************************************************************************)
(* A prompt is handed out once.  The proof needs what QueueInv does not    *)
(* say: which record is where, so that none is in two places.  It holds    *)
(* when no call comes before the queue is restored.                        *)
(***************************************************************************)

\* An array has a record once; it may have several holes.
Distinct(s) == \A i, j \in DOMAIN s : s[i] = s[j] /\ s[i] # Hole => i = j

\* The record of a push or of a remove is with its call only.
Carries(c) == op[c].kind \in {"push", "remove"}
Carried ==
  \A c \in Caller : Carries(c) =>
    /\ claims[op[c].id] = 0 /\ \A a \in ArrayRef : op[c].id \notin ToSet(heap[a])
    /\ \A d \in Caller \ {c} : Carries(d) => op[d].id # op[c].id

\* A record is in one array, in one place of it, or claimed.
Mirrored ==
  /\ \A a \in ArrayRef : Distinct(heap[a])
  /\ \A a, b \in ArrayRef : a # b => ToSet(heap[a]) \cap ToSet(heap[b]) \subseteq {Hole}
  /\ \A t \in Turn : claims[t] > 0 => \A a \in ArrayRef : t \notin ToSet(heap[a])

\* Until it is restored, the queue is empty and nobody calls it.
Restoring ==
  /\ boot # "listed" => listed = <<>>
  /\ boot # "ready" => (\A c \in Caller : op[c] = Idle) /\ \A a \in ArrayRef : heap[a] = <<>>
  /\ NoTwice(listed) /\ \A t \in Turn : claims[t] > 0 => t \notin ToSet(listed)

OnceInv == Carried /\ Mirrored /\ Restoring /\ ClaimedOnce

-----------------------------------------------------------------------------
(* Arrays *)

\* Cutting a record out leaves the others where they were.
LEMMA DistinctCut ==
  ASSUME NEW S, NEW s \in Seq(S), NEW i \in DOMAIN s, Distinct(s)
  PROVE  /\ Distinct(RemoveAt(s, i))
         /\ s[i] # Hole => s[i] \notin ToSet(RemoveAt(s, i))
<1> DEFINE r == RemoveAt(s, i)
           from(k) == IF k < i THEN k ELSE k + 1
<1>1. /\ i \in 1..Len(s) /\ Len(s) \in Nat /\ DOMAIN s = 1..Len(s)
      /\ r \in Seq(S) /\ Len(r) = Len(s) - 1
      /\ \A k \in 1..(Len(s) - 1) : r[k] = IF k < i THEN s[k] ELSE s[k + 1]
  BY Cut
<1>2. DOMAIN r = 1..(Len(s) - 1)
  BY <1>1
<1> HIDE DEF r
<1>3. \A k \in DOMAIN r : from(k) \in DOMAIN s /\ r[k] = s[from(k)] /\ from(k) # i
  BY <1>1, <1>2
<1>4. \A k, l \in DOMAIN r : from(k) = from(l) => k = l
  BY <1>1, <1>2
<1> HIDE DEF from
<1>5. Distinct(r)
  BY <1>3, <1>4 DEF Distinct
<1>6. s[i] # Hole => s[i] \notin ToSet(r)
  BY <1>1, <1>3 DEF Distinct, ToSet
<1> QED BY <1>5, <1>6 DEF r

\* So does putting one at an end.
LEMMA DistinctPut ==
  ASSUME NEW S, NEW s \in Seq(S), NEW x \in S, Distinct(s), x = Hole \/ x \notin ToSet(s)
  PROVE  Distinct(Append(s, x)) /\ Distinct(<<x>> \o s)
<1>1. Distinct(Append(s, x))
  <2>1. /\ DOMAIN Append(s, x) = 1..(Len(s) + 1) /\ DOMAIN s = 1..Len(s) /\ Len(s) \in Nat
        /\ \A i \in 1..Len(s) : Append(s, x)[i] = s[i]
        /\ Append(s, x)[Len(s) + 1] = x
    BY AppendProperties
  <2> DEFINE r == Append(s, x)
  <2> HIDE DEF r
  <2>2. \A i \in DOMAIN r : (i \in DOMAIN s /\ r[i] = s[i]) \/ (i = Len(s) + 1 /\ r[i] = x)
    BY <2>1 DEF r
  <2> QED BY <2>2 DEF Distinct, ToSet, r
<1>2. Distinct(<<x>> \o s)
  <2> DEFINE r == <<x>> \o s
  <2>1. /\ Len(r) = Len(s) + 1 /\ Len(s) \in Nat /\ r \in Seq(S) /\ DOMAIN s = 1..Len(s)
        /\ r[1] = x /\ \A k \in 2..(Len(s) + 1) : r[k] = s[k - 1]
    OBVIOUS
  <2>2. DOMAIN r = 1..(Len(s) + 1)
    BY <2>1
  <2> HIDE DEF r
  <2>3. \A k \in DOMAIN r : k = 1 \/ (k - 1 \in DOMAIN s /\ r[k] = s[k - 1])
    BY <2>1, <2>2
  <2>4. \A k, l \in DOMAIN r : k - 1 = l - 1 => k = l
    BY <2>2
  <2> QED BY <2>1, <2>3, <2>4 DEF Distinct, ToSet, r
<1> QED BY <1>1, <1>2

\* A swap moves records, and past the end it moves holes.
LEMMA DistinctSwap ==
  ASSUME NEW S, NEW s \in Seq(S), NEW i \in Nat \ {0}, NEW j \in Nat \ {0}, Distinct(s)
  PROVE  Distinct(Swap(s, i, j))
<1> DEFINE last == IF i > j THEN i ELSE j
           n    == IF Len(s) > last THEN Len(s) ELSE last
           from(k) == IF k = i THEN j ELSE IF k = j THEN i ELSE k
           r    == Swap(s, i, j)
<1>1. n \in Nat /\ i \in 1..n /\ j \in 1..n /\ DOMAIN s = 1..Len(s) /\ Len(s) \in Nat
  OBVIOUS
<1>2. DOMAIN r = 1..n /\ \A k \in 1..n : r[k] = Cell(s, from(k))
  BY DEF Swap
<1>3. \A k \in 1..n : from(k) \in Nat \ {0}
  BY <1>1
<1>4. \A k, l \in 1..n : from(k) = from(l) => k = l
  OBVIOUS
<1> HIDE DEF from, r, n
<1>5. \A k \in 1..n : r[k] # Hole => from(k) \in DOMAIN s /\ r[k] = s[from(k)]
  BY <1>1, <1>2, <1>3 DEF Cell
<1> QED BY <1>2, <1>4, <1>5 DEF Distinct, r

\* moveToHead after its await, with whatever is then in the place it read.
LEMMA DistinctMoved ==
  ASSUME NEW S, NEW s \in Seq(S), NEW i \in Nat \ {0}, Hole \in S, Distinct(s)
  PROVE  /\ Distinct(<<Cell(s, i)>> \o Splice(s, i))
         /\ <<Cell(s, i)>> \o Splice(s, i) \in Seq(S)
         /\ ToSet(<<Cell(s, i)>> \o Splice(s, i)) \subseteq ToSet(s) \cup {Hole}
<1>1. CASE i \in DOMAIN s
  <2>1. Cell(s, i) = s[i] /\ Splice(s, i) = RemoveAt(s, i) /\ s[i] \in S /\ s[i] \in ToSet(s)
    BY <1>1 DEF Cell, Splice, ToSet
  <2>2. /\ RemoveAt(s, i) \in Seq(S) /\ ToSet(RemoveAt(s, i)) \subseteq ToSet(s)
        /\ Distinct(RemoveAt(s, i)) /\ (s[i] = Hole \/ s[i] \notin ToSet(RemoveAt(s, i)))
    BY <1>1, TakenOut, DistinctCut
  <2>3. Distinct(<<s[i]>> \o RemoveAt(s, i))
    <3> DEFINE x == s[i]
               q == RemoveAt(s, i)
    <3>1. x \in S /\ q \in Seq(S) /\ Distinct(q) /\ (x = Hole \/ x \notin ToSet(q))
      BY <2>1, <2>2
    <3> HIDE DEF x, q
    <3>2. Distinct(<<x>> \o q)
      BY <3>1, DistinctPut
    <3> QED BY <3>2 DEF x, q
  <2>4. /\ <<s[i]>> \o RemoveAt(s, i) \in Seq(S)
        /\ ToSet(<<s[i]>> \o RemoveAt(s, i)) \subseteq ToSet(s) \cup {Hole}
    BY <2>1, <2>2, PutFirst
  <2> QED BY <2>1, <2>3, <2>4
<1>2. CASE i \notin DOMAIN s
  <2>1. Cell(s, i) = Hole /\ Splice(s, i) = s
    BY <1>2 DEF Cell, Splice
  <2> QED BY <2>1, DistinctPut, PutFirst
<1> QED BY <1>1, <1>2

-----------------------------------------------------------------------------
(* Steps *)

\* Records are rearranged in the arrays, and none comes in.
LEMMA Rearranged ==
  ASSUME QueueTypeOK, OnceInv, NEW a \in ArrayRef, NEW s \in Seq(Turn \cup {Hole}), Distinct(s),
         ToSet(s) \subseteq ToSet(heap[a]) \cup {Hole}, heap' = [heap EXCEPT ![a] = s],
         claims' = claims
  PROVE  /\ Mirrored'
         /\ \A b \in ArrayRef : ToSet(heap'[b]) \subseteq ToSet(heap[b]) \cup {Hole}
<1>1. /\ heap'[a] = s /\ \A b \in ArrayRef \ {a} : heap'[b] = heap[b]
  BY DEF QueueTypeOK
<1>2. \A b \in ArrayRef : ToSet(heap'[b]) \subseteq ToSet(heap[b]) \cup {Hole}
  BY <1>1
<1>3. \A b \in ArrayRef : Distinct(heap'[b])
  BY <1>1 DEF OnceInv, Mirrored
<1>4. \A b, d \in ArrayRef : b # d => ToSet(heap'[b]) \cap ToSet(heap'[d]) \subseteq {Hole}
  BY <1>2 DEF OnceInv, Mirrored
<1>5. ASSUME NEW t \in Turn, claims[t] > 0, NEW b \in ArrayRef PROVE t \notin ToSet(heap'[b])
  BY <1>2, <1>5, QueueAssumption DEF OnceInv, Mirrored
<1> QED BY <1>2, <1>3, <1>4, <1>5 DEF Mirrored, Distinct

\* No call begins to carry a record, none is claimed, and arrays get none.
LEMMA CarriersKept ==
  ASSUME QueueTypeOK, Issued, OnceInv, claims' = claims,
         \A a \in ArrayRef : ToSet(heap'[a]) \subseteq ToSet(heap[a]) \cup {Hole},
         \A c \in Caller : Carries(c)' => Carries(c) /\ op'[c].id = op[c].id
  PROVE  Carried'
<1>1. ASSUME NEW c \in Caller, Carries(c)'
      PROVE  /\ claims'[op'[c].id] = 0 /\ \A a \in ArrayRef : op'[c].id \notin ToSet(heap'[a])
             /\ \A d \in Caller \ {c} : Carries(d)' => op'[d].id # op'[c].id
  <2>1. Carries(c) /\ op'[c].id = op[c].id
    BY <1>1
  <2>2. op[c].id \in Turn /\ op[c].id # Hole
    BY <2>1, QueueAssumption DEF Carries, Issued, QueueTypeOK
  <2> QED BY <2>1, <2>2 DEF OnceInv, Carried
<1> QED BY <1>1 DEF Carried

\* A call that begins, or goes on, finds the queue restored.
LEMMA CallsAreLate ==
  ASSUME ~EarlyCalls, OnceInv, NEW c \in Caller, CanCall(c) \/ op[c].kind # "idle"
  PROVE  boot = "ready" /\ listed = <<>>
BY DEF OnceInv, Restoring, CanCall, Idle

LEMMA StillRestored ==
  ASSUME OnceInv, boot = "ready", UNCHANGED <<boot, listed>>
  PROVE  Restoring'
<1>1. listed' = <<>> /\ boot' = "ready"
  BY DEF OnceInv, Restoring
<1> QED BY <1>1 DEF Restoring, NoTwice, ToSet

LEMMA PushBeginOnce ==
  ASSUME QueueInv, OnceInv, ~EarlyCalls, NEW c \in Caller, NEW t \in Turn, PushBegin(c, t)
  PROVE  OnceInv'
<1>1. /\ t \notin issued /\ \E a : op' = [op EXCEPT ![c] = Sent("push", t, a, 0, 0)]
      /\ UNCHANGED <<heap, boot, listed, claims>> /\ CanCall(c)
  BY DEF PushBegin
<1>2. /\ op'[c].kind = "push" /\ op'[c].id = t /\ \A d \in Caller \ {c} : op'[d] = op[d]
  BY <1>1 DEF QueueInv, QueueTypeOK, Sent
<1>3. /\ claims[t] = 0 /\ \A a \in ArrayRef : t \notin ToSet(heap[a])
      /\ \A d \in Caller : Carries(d) => op[d].id # t
  <2>1. claims[t] \in 0..2 /\ ~(claims[t] > 0)
    BY <1>1 DEF QueueInv, Issued, QueueTypeOK
  <2> QED BY <1>1, <2>1, QueueAssumption DEF QueueInv, Issued, Carries
<1>4. ASSUME NEW d \in Caller, Carries(d)'
      PROVE  /\ claims'[op'[d].id] = 0 /\ \A a \in ArrayRef : op'[d].id \notin ToSet(heap'[a])
             /\ \A e \in Caller \ {d} : Carries(e)' => op'[e].id # op'[d].id
  <2>1. CASE d = c
    BY <1>1, <1>2, <1>3, <2>1 DEF Carries
  <2>2. CASE d # c
    <3>1. Carries(d) /\ op'[d] = op[d]
      BY <1>2, <1>4, <2>2 DEF Carries
    <3>2. ASSUME NEW e \in Caller \ {d}, Carries(e)' PROVE op'[e].id # op'[d].id
      <4>1. CASE e = c
        BY <1>2, <1>3, <3>1, <4>1
      <4>2. CASE e # c
        BY <1>2, <3>1, <3>2, <4>2 DEF OnceInv, Carried, Carries
      <4> QED BY <4>1, <4>2
    <3> QED BY <1>1, <3>1, <3>2 DEF OnceInv, Carried
  <2> QED BY <2>1, <2>2
<1>5. Carried'
  BY <1>4 DEF Carried
<1>6. Mirrored' /\ ClaimedOnce'
  BY <1>1 DEF OnceInv, Mirrored, ClaimedOnce, Distinct
<1>7. Restoring'
  BY <1>1, CallsAreLate, StillRestored
<1> QED BY <1>5, <1>6, <1>7 DEF OnceInv

LEMMA RemoveBeginOnce ==
  ASSUME QueueInv, OnceInv, ~EarlyCalls, NEW c \in Caller, NEW t \in Turn, RemoveBegin(c, t)
  PROVE  OnceInv'
<1> DEFINE H == Turn \cup {Hole}
<1>1. PICK i \in DOMAIN Mem :
        /\ FoundAt(Mem, t, i)
        /\ heap' = [heap EXCEPT ![cur] = RemoveAt(@, i)]
  BY DEF RemoveBegin
<1>2. /\ op' = [op EXCEPT ![c] = Sent("remove", t, cur, 0, 0)] /\ CanCall(c)
      /\ UNCHANGED <<boot, listed, claims>>
  BY DEF RemoveBegin
<1>3. heap \in [ArrayRef -> Seq(H)] /\ cur \in ArrayRef \cup {NoArray} /\ QueueTypeOK
  BY DEF QueueInv, QueueTypeOK
<1>4. cur \in ArrayRef /\ i \in DOMAIN heap[cur] /\ heap[cur][i] = t /\ t # Hole
  BY <1>1, <1>3, QueueAssumption DEF Mem, FoundAt
<1> DEFINE s == RemoveAt(heap[cur], i)
<1>5. /\ s \in Seq(H) /\ ToSet(s) \subseteq ToSet(heap[cur]) /\ Distinct(s) /\ t \notin ToSet(s)
  <2>1. heap[cur] \in Seq(H) /\ Distinct(heap[cur])
    BY <1>3, <1>4 DEF OnceInv, Mirrored
  <2> QED BY <1>4, <2>1, TakenOut, DistinctCut
<1>6. heap' = [heap EXCEPT ![cur] = s]
  BY <1>1
<1> HIDE DEF s
<1>7. /\ Mirrored'
      /\ \A b \in ArrayRef : ToSet(heap'[b]) \subseteq ToSet(heap[b]) \cup {Hole}
  <2>1. ToSet(s) \subseteq ToSet(heap[cur]) \cup {Hole}
    BY <1>5
  <2> QED BY <1>2, <1>3, <1>4, <1>5, <1>6, <2>1, Rearranged
<1>8. t \in ToSet(heap[cur])
  BY <1>4 DEF ToSet
<1>9. \A b \in ArrayRef : t \notin ToSet(heap'[b])
  <2>1. t \notin ToSet(heap'[cur])
    BY <1>3, <1>4, <1>5, <1>6
  <2>2. \A b \in ArrayRef \ {cur} : t \notin ToSet(heap[b])
    BY <1>4, <1>8 DEF OnceInv, Mirrored
  <2> QED BY <1>4, <1>7, <2>1, <2>2
<1>10. claims[t] = 0 /\ \A d \in Caller : Carries(d) => op[d].id # t
  <2>1. claims[t] \in 0..2 /\ ~(claims[t] > 0)
    BY <1>3, <1>4, <1>8 DEF OnceInv, Mirrored, QueueTypeOK
  <2> QED BY <1>4, <1>8, <2>1 DEF OnceInv, Carried
<1>11. op'[c].kind = "remove" /\ op'[c].id = t /\ \A d \in Caller \ {c} : op'[d] = op[d]
  BY <1>2, <1>3 DEF QueueTypeOK, Sent
<1>12. ASSUME NEW d \in Caller, Carries(d)'
       PROVE  /\ claims'[op'[d].id] = 0 /\ \A a \in ArrayRef : op'[d].id \notin ToSet(heap'[a])
              /\ \A e \in Caller \ {d} : Carries(e)' => op'[e].id # op'[d].id
  <2>1. CASE d = c
    BY <1>2, <1>9, <1>10, <1>11, <2>1 DEF Carries
  <2>2. CASE d # c
    <3>1. Carries(d) /\ op'[d] = op[d]
      BY <1>11, <1>12, <2>2 DEF Carries
    <3>2. op[d].id # Hole /\ op[d].id # t
      BY <1>3, <1>10, <3>1, QueueAssumption DEF QueueInv, Issued, Carries, QueueTypeOK
    <3>3. ASSUME NEW e \in Caller \ {d}, Carries(e)' PROVE op'[e].id # op'[d].id
      <4>1. CASE e = c
        BY <1>11, <3>1, <3>2, <4>1
      <4>2. CASE e # c
        BY <1>11, <3>1, <3>3, <4>2 DEF OnceInv, Carried, Carries
      <4> QED BY <4>1, <4>2
    <3> QED BY <1>2, <1>7, <3>1, <3>2, <3>3 DEF OnceInv, Carried
  <2> QED BY <2>1, <2>2
<1>13. Carried'
  BY <1>12 DEF Carried
<1>14. Restoring' /\ ClaimedOnce'
  BY <1>2, CallsAreLate, StillRestored DEF OnceInv, ClaimedOnce
<1> QED BY <1>7, <1>13, <1>14 DEF OnceInv

\* A call that neither hands a record out nor brings one in.
LEMMA OthersOnce ==
  ASSUME QueueInv, OnceInv, boot = "ready", UNCHANGED <<boot, listed, claims>>,
         \/ heap' = heap
         \/ \E a \in ArrayRef : \E s \in Seq(Turn \cup {Hole}) :
              /\ Distinct(s) /\ ToSet(s) \subseteq ToSet(heap[a]) \cup {Hole}
              /\ heap' = [heap EXCEPT ![a] = s],
         \A c \in Caller : Carries(c)' => Carries(c) /\ op'[c].id = op[c].id
  PROVE  OnceInv'
<1>1. /\ Mirrored'
      /\ \A b \in ArrayRef : ToSet(heap'[b]) \subseteq ToSet(heap[b]) \cup {Hole}
  <2>1. CASE heap' = heap
    BY <2>1 DEF OnceInv, Mirrored, Distinct
  <2>2. CASE heap' # heap
    <3>1. PICK a \in ArrayRef, s \in Seq(Turn \cup {Hole}) :
            /\ Distinct(s) /\ ToSet(s) \subseteq ToSet(heap[a]) \cup {Hole}
            /\ heap' = [heap EXCEPT ![a] = s]
      BY <2>2
    <3> QED BY <3>1, Rearranged DEF QueueInv
  <2> QED BY <2>1, <2>2
<1>2. Carried'
  BY <1>1, CarriersKept DEF QueueInv
<1>3. Restoring' /\ ClaimedOnce'
  BY StillRestored DEF OnceInv, ClaimedOnce
<1> QED BY <1>1, <1>2, <1>3 DEF OnceInv

LEMMA IndexBeginOnce ==
  ASSUME QueueInv, OnceInv, ~EarlyCalls, NEW c \in Caller, NEW t \in Turn,
         PrioritizeBegin(c, t) \/ \E up \in BOOLEAN : ReorderBegin(c, t, up)
  PROVE  OnceInv'
<1>1. /\ CanCall(c) /\ UNCHANGED <<heap, boot, listed, claims>>
      /\ \E kind \in {"prioritize", "reorder"} : \E at, to :
           op' = [op EXCEPT ![c] = Sent(kind, t, cur, at, to)]
  BY DEF PrioritizeBegin, ReorderBegin
<1>2. op'[c].kind \in {"prioritize", "reorder"} /\ \A d \in Caller \ {c} : op'[d] = op[d]
  BY <1>1 DEF QueueInv, QueueTypeOK, Sent
<1>3. \A d \in Caller : Carries(d)' => Carries(d) /\ op'[d].id = op[d].id
  BY <1>2 DEF Carries
<1> QED BY <1>1, <1>3, CallsAreLate, OthersOnce

LEMMA StoreOnce ==
  ASSUME QueueInv, OnceInv, ~EarlyCalls, NEW c \in Caller, StoreStep(c)
  PROVE  OnceInv'
<1>1. /\ op[c].kind # "idle" /\ UNCHANGED <<heap, boot, listed, claims>>
      /\ \E ph : op' = [op EXCEPT ![c].phase = ph]
  BY DEF StoreStep, StorePush, StoreRemove, StorePrioritize, StoreReorder
<1>2. \A d \in Caller : op'[d].kind = op[d].kind /\ op'[d].id = op[d].id
  BY <1>1 DEF QueueInv, QueueTypeOK, Call
<1> QED BY <1>1, <1>2, CallsAreLate, OthersOnce DEF Carries

LEMMA PushReturnOnce ==
  ASSUME QueueInv, OnceInv, ~EarlyCalls, NEW c \in Caller, PushReturn(c)
  PROVE  OnceInv'
<1> DEFINE t == op[c].id
           a == op[c].arr
           s == Append(heap[a], t)
<1>1. /\ op[c].kind = "push" /\ heap' = [heap EXCEPT ![a] = s]
      /\ op' = [op EXCEPT ![c] = Idle] /\ UNCHANGED <<boot, listed, claims>>
  BY DEF PushReturn
<1>2. /\ t \in Turn /\ a \in ArrayRef /\ t # Hole /\ op'[c].kind = "idle"
      /\ \A d \in Caller \ {c} : op'[d] = op[d]
  BY <1>1, QueueAssumption DEF QueueInv, QueueTypeOK, Issued, Idle
<1>3. /\ claims[t] = 0 /\ \A b \in ArrayRef : t \notin ToSet(heap[b])
      /\ \A d \in Caller \ {c} : Carries(d) => op[d].id # t
  BY <1>1 DEF OnceInv, Carried, Carries
<1>4. heap[a] \in Seq(Turn \cup {Hole}) /\ Distinct(heap[a])
  BY <1>2 DEF QueueInv, QueueTypeOK, OnceInv, Mirrored
<1>5. ToSet(s) = ToSet(heap[a]) \cup {t} /\ Distinct(s)
  <2> DEFINE q == heap[a]
             H == Turn \cup {Hole}
  <2>1. t \in H /\ t \notin ToSet(q) /\ q \in Seq(H) /\ Distinct(q)
    BY <1>2, <1>3, <1>4
  <2> HIDE DEF t, q, H
  <2>2. ToSet(Append(q, t)) = ToSet(q) \cup {t}
    BY <2>1, Appended
  <2>3. Distinct(Append(q, t))
    BY <2>1, DistinctPut
  <2> QED BY <2>2, <2>3 DEF q
<1>6. heap'[a] = s /\ \A b \in ArrayRef \ {a} : heap'[b] = heap[b]
  BY <1>1, <1>2 DEF QueueInv, QueueTypeOK
<1> HIDE DEF s, t, a
<1>7. \A b \in ArrayRef : Distinct(heap'[b])
  BY <1>5, <1>6 DEF OnceInv, Mirrored
<1>8. \A b, d \in ArrayRef : b # d => ToSet(heap'[b]) \cap ToSet(heap'[d]) \subseteq {Hole}
  <2>1. ASSUME NEW b \in ArrayRef, NEW d \in ArrayRef, b # d, NEW x,
               x \in ToSet(heap'[b]), x \in ToSet(heap'[d])
        PROVE  x = Hole
    <3>1. CASE x = t
      <4>1. b = a /\ d = a
        BY <1>3, <1>6, <2>1, <3>1
      <4> QED BY <2>1, <4>1
    <3>2. CASE x # t
      <4>1. x \in ToSet(heap[b]) /\ x \in ToSet(heap[d])
        BY <1>5, <1>6, <2>1, <3>2
      <4> QED BY <2>1, <4>1 DEF OnceInv, Mirrored
    <3> QED BY <3>1, <3>2
  <2> QED BY <2>1
<1>9. ASSUME NEW u \in Turn, claims[u] > 0, NEW b \in ArrayRef PROVE u \notin ToSet(heap'[b])
  <2>1. u # t /\ u \notin ToSet(heap[b])
    BY <1>3, <1>9 DEF OnceInv, Mirrored
  <2> QED BY <1>5, <1>6, <2>1
<1>10. Mirrored'
  BY <1>1, <1>7, <1>8, <1>9 DEF Mirrored, Distinct
<1>11. ASSUME NEW d \in Caller, Carries(d)'
       PROVE  /\ claims'[op'[d].id] = 0 /\ \A b \in ArrayRef : op'[d].id \notin ToSet(heap'[b])
              /\ \A e \in Caller \ {d} : Carries(e)' => op'[e].id # op'[d].id
  <2>1. d # c /\ op'[d] = op[d] /\ Carries(d)
    BY <1>2, <1>11 DEF Carries
  <2>2. op[d].id # t
    BY <1>3, <2>1
  <2>3. \A b \in ArrayRef : op[d].id \notin ToSet(heap'[b])
    BY <1>5, <1>6, <2>1, <2>2 DEF OnceInv, Carried
  <2>4. \A e \in Caller \ {d} : Carries(e)' => op'[e].id # op'[d].id
    BY <1>2, <2>1 DEF OnceInv, Carried, Carries
  <2> QED BY <1>1, <2>1, <2>3, <2>4 DEF OnceInv, Carried
<1>12. Carried'
  BY <1>11 DEF Carried
<1>13. Restoring' /\ ClaimedOnce'
  BY <1>1, CallsAreLate, StillRestored DEF OnceInv, ClaimedOnce
<1> QED BY <1>10, <1>12, <1>13 DEF OnceInv

LEMMA RemoveReturnOnce ==
  ASSUME QueueInv, OnceInv, ~EarlyCalls, NEW c \in Caller, RemoveReturn(c)
  PROVE  OnceInv'
<1> DEFINE t == op[c].id
<1>1. /\ op[c].kind = "remove" /\ claims' = [claims EXCEPT ![t] = claims[t] + 1]
      /\ op' = [op EXCEPT ![c] = Idle] /\ UNCHANGED <<heap, boot, listed>>
  BY DEF RemoveReturn
<1>2. /\ t \in Turn /\ op'[c].kind = "idle" /\ \A d \in Caller \ {c} : op'[d] = op[d]
  BY <1>1 DEF QueueInv, QueueTypeOK, Issued, Idle
<1>3. /\ claims[t] = 0 /\ \A b \in ArrayRef : t \notin ToSet(heap[b])
      /\ \A d \in Caller \ {c} : Carries(d) => op[d].id # t
  BY <1>1 DEF OnceInv, Carried, Carries
<1>4. claims'[t] = 1 /\ \A u \in Turn \ {t} : claims'[u] = claims[u]
  BY <1>1, <1>2, <1>3 DEF QueueInv, QueueTypeOK
<1> HIDE DEF t
<1>5. ClaimedOnce'
  BY <1>4 DEF OnceInv, ClaimedOnce
<1>6. Mirrored'
  BY <1>1, <1>3, <1>4 DEF OnceInv, Mirrored, Distinct
<1>7. ASSUME NEW d \in Caller, Carries(d)'
      PROVE  /\ claims'[op'[d].id] = 0 /\ \A b \in ArrayRef : op'[d].id \notin ToSet(heap'[b])
             /\ \A e \in Caller \ {d} : Carries(e)' => op'[e].id # op'[d].id
  <2>1. d # c /\ op'[d] = op[d] /\ Carries(d) /\ op[d].id \in Turn
    BY <1>2, <1>7 DEF Carries, QueueInv, QueueTypeOK, Issued
  <2>2. claims'[op[d].id] = 0
    BY <1>3, <1>4, <2>1 DEF OnceInv, Carried
  <2>3. \A e \in Caller \ {d} : Carries(e)' => op'[e].id # op'[d].id
    BY <1>2, <2>1 DEF OnceInv, Carried, Carries
  <2> QED BY <1>1, <2>1, <2>2, <2>3 DEF OnceInv, Carried
<1>8. Carried'
  BY <1>7 DEF Carried
<1>9. Restoring'
  BY <1>1, CallsAreLate, StillRestored
<1> QED BY <1>5, <1>6, <1>8, <1>9 DEF OnceInv

LEMMA WriteBackOnce ==
  ASSUME QueueInv, OnceInv, ~EarlyCalls, NEW c \in Caller,
         PrioritizeReturn(c) \/ ReorderReturn(c) \/ CallRejects(c)
  PROVE  OnceInv'
<1> DEFINE a == op[c].arr
           H == Turn \cup {Hole}
<1>1. /\ op[c].kind # "idle" /\ op' = [op EXCEPT ![c] = Idle] /\ UNCHANGED <<boot, listed, claims>>
  BY DEF PrioritizeReturn, ReorderReturn, CallRejects, QueueInv, Placed
<1>2. /\ a \in ArrayRef /\ op'[c].kind = "idle" /\ \A d \in Caller \ {c} : op'[d] = op[d]
  BY <1>1 DEF QueueInv, QueueTypeOK, Issued, Idle
<1>3. heap[a] \in Seq(H) /\ Distinct(heap[a]) /\ H \cup {Hole} = H /\ Hole \in H
  BY <1>2 DEF QueueInv, QueueTypeOK, OnceInv, Mirrored
<1>4. \A d \in Caller : Carries(d)' => Carries(d) /\ op'[d].id = op[d].id
  BY <1>2 DEF Carries
<1>5. boot = "ready"
  BY <1>1, CallsAreLate
<1>6. CASE PrioritizeReturn(c)
  <2> DEFINE i == op[c].at
             s == <<Cell(heap[a], i)>> \o Splice(heap[a], i)
  <2>1. i \in Nat \ {0} /\ heap' = [heap EXCEPT ![a] = s]
    BY <1>6 DEF PrioritizeReturn, QueueInv, QueueTypeOK, Placed, Call
  <2>2. s \in Seq(H) /\ ToSet(s) \subseteq ToSet(heap[a]) \cup {Hole} /\ Distinct(s)
    <3> HIDE DEF a, i, H
    <3> QED BY <1>3, <2>1, DistinctMoved
  <2> HIDE DEF s, a
  <2> QED BY <1>1, <1>2, <1>4, <1>5, <2>1, <2>2, OthersOnce
<1>7. CASE ReorderReturn(c)
  <2> DEFINE s == Swap(heap[a], op[c].at, op[c].to)
  <2>1. op[c].at \in Nat \ {0} /\ op[c].to \in Nat \ {0} /\ heap' = [heap EXCEPT ![a] = s]
    BY <1>7 DEF ReorderReturn, QueueInv, QueueTypeOK, Placed, Call
  <2>2. s \in Seq(H) /\ ToSet(s) \subseteq ToSet(heap[a]) \cup {Hole}
    BY <1>3, <2>1, Swapped
  <2>3. Distinct(s)
    BY <1>3, <2>1, DistinctSwap
  <2> HIDE DEF s, a
  <2> QED BY <1>1, <1>2, <1>4, <1>5, <2>1, <2>2, <2>3, OthersOnce
<1>8. CASE CallRejects(c)
  <2>1. heap' = heap
    BY <1>8 DEF CallRejects
  <2> QED BY <1>1, <1>4, <1>5, <2>1, OthersOnce
<1> QED BY <1>6, <1>7, <1>8

\* A restart forgets the mirror and the calls, so nothing is in two places.
LEMMA RestartOnce ==
  ASSUME QueueInv, OnceInv, QueueRestart
  PROVE  OnceInv'
<1>1. /\ heap' = [a \in ArrayRef |-> <<>>] /\ boot' = "listing" /\ listed' = <<>>
      /\ op' = [c \in Caller |-> Idle] /\ claims' = claims
  BY DEF QueueRestart
<1>2. ToSet(<<>>) = {} /\ NoTwice(<<>>) /\ Distinct(<<>>) /\ Idle.kind = "idle"
  BY DEF ToSet, NoTwice, Distinct, Idle
<1>3. Carried'
  BY <1>1, <1>2 DEF Carried, Carries
<1>4. Mirrored'
  <2>1. \A a \in ArrayRef : heap'[a] = <<>>
    BY <1>1
  <2>2. \A a \in ArrayRef : Distinct(heap'[a]) /\ ToSet(heap'[a]) = {}
    BY <1>2, <2>1
  <2> QED BY <2>2 DEF Mirrored, Distinct
<1>5. Restoring' /\ ClaimedOnce'
  BY <1>1, <1>2 DEF Restoring, OnceInv, ClaimedOnce
<1> QED BY <1>3, <1>4, <1>5 DEF OnceInv

\* What is restored is in the table, so nobody has claimed it, and it comes
\* into an empty mirror.
LEMMA RestoreOnce ==
  ASSUME QueueInv, OnceInv, StoreList \/ RestoreReturn \/ Resume
  PROVE  OnceInv'
<1>1. UNCHANGED <<op, claims>>
  BY DEF StoreList, RestoreReturn, Resume
<1>2. ClaimedOnce'
  BY <1>1 DEF OnceInv, ClaimedOnce
<1>3. CASE StoreList
  <2>1. boot = "listing" /\ listed' = rows /\ boot' = "listed" /\ heap' = heap
    BY <1>3 DEF StoreList
  <2>2. Restoring'
    BY <1>1, <2>1 DEF QueueInv, OnceInv, Restoring, ClaimedLeftStore
  <2>3. Carried' /\ Mirrored'
    BY <1>1, <2>1 DEF OnceInv, Carried, Carries, Mirrored, Distinct
  <2> QED BY <1>2, <2>2, <2>3 DEF OnceInv
<1>4. CASE RestoreReturn
  <2>1. /\ boot = "listed" /\ heap' = [heap EXCEPT ![Boot] = listed]
        /\ boot' = "ready" /\ listed' = <<>>
    BY <1>4 DEF RestoreReturn
  <2>2. /\ \A c \in Caller : op[c] = Idle /\ \A a \in ArrayRef : heap[a] = <<>>
        /\ NoTwice(listed) /\ \A t \in Turn : claims[t] > 0 => t \notin ToSet(listed)
    BY <2>1 DEF OnceInv, Restoring
  <2>3. ToSet(<<>>) = {} /\ NoTwice(<<>>) /\ Distinct(<<>>) /\ Distinct(listed)
    BY <2>2 DEF ToSet, NoTwice, Distinct
  <2>4. heap'[Boot] = listed /\ \A a \in ArrayRef \ {Boot} : heap'[a] = <<>>
    <3>1. \A a \in ArrayRef : heap[a] = <<>>
      BY <2>1 DEF OnceInv, Restoring
    <3> QED BY <2>1, <3>1 DEF QueueInv, QueueTypeOK, ArrayRef
  <2>5. Mirrored'
    <3>1. \A a \in ArrayRef : Distinct(heap'[a])
      BY <2>3, <2>4
    <3>2. \A a, b \in ArrayRef : a # b => ToSet(heap'[a]) \cap ToSet(heap'[b]) \subseteq {Hole}
      BY <2>3, <2>4
    <3>3. \A t \in Turn : claims[t] > 0 => \A a \in ArrayRef : t \notin ToSet(heap'[a])
      BY <2>2, <2>3, <2>4
    <3> QED BY <1>1, <3>1, <3>2, <3>3 DEF Mirrored, Distinct
  <2>6. Carried'
    BY <1>1, <2>2 DEF Carried, Carries, Idle
  <2>7. Restoring'
    BY <2>1, <2>3 DEF Restoring
  <2> QED BY <1>2, <2>5, <2>6, <2>7 DEF OnceInv
<1>5. CASE Resume
  <2>1. UNCHANGED <<heap, boot, listed>>
    BY <1>5 DEF Resume
  <2>2. Carried' /\ Mirrored' /\ Restoring'
    BY <1>1, <2>1 DEF OnceInv, Carried, Carries, Mirrored, Distinct, Restoring, NoTwice
  <2> QED BY <1>2, <2>2 DEF OnceInv
<1> QED BY <1>3, <1>4, <1>5

-----------------------------------------------------------------------------
(* The theorem *)

LEMMA OnceInit == ASSUME QueueInit PROVE OnceInv
<1>1. ToSet(<<>>) = {} /\ NoTwice(<<>>) /\ Distinct(<<>>) /\ Idle.kind = "idle"
  BY DEF ToSet, NoTwice, Distinct, Idle
<1>2. \A a \in ArrayRef : heap[a] = <<>>
  BY DEF QueueInit
<1> QED BY <1>1, <1>2
        DEF QueueInit, OnceInv, Carried, Carries, Mirrored, Restoring, ClaimedOnce

LEMMA OnceStep ==
  ASSUME QueueInv, OnceInv, ~EarlyCalls, [QueueNext]_queueVars
  PROVE  OnceInv'
<1>1. ASSUME NEW c \in Caller, ShiftBegin(c) PROVE OnceInv'
  <2>1. Mem \in Seq(Turn \cup {Hole})
    BY DEF QueueInv, QueueTypeOK, Mem
  <2>2. Head(Mem) \in Turn /\ RemoveBegin(c, Head(Mem))
    BY <1>1, <2>1 DEF ShiftBegin
  <2> QED BY <2>2, RemoveBeginOnce
<1>2. ASSUME NEW c \in Caller, ReturnStep(c) \/ CallRejects(c) PROVE OnceInv'
  BY <1>2, PushReturnOnce, RemoveReturnOnce, WriteBackOnce DEF ReturnStep
<1>3. CASE UNCHANGED queueVars
  BY <1>3 DEF queueVars, OnceInv, Carried, Carries, Mirrored, Distinct, Restoring, NoTwice, ClaimedOnce
<1> QED BY <1>1, <1>2, <1>3, PushBeginOnce, RemoveBeginOnce, IndexBeginOnce, StoreOnce,
           RestartOnce, RestoreOnce DEF QueueNext

\* A remove or a shift hands a record to one caller, whatever other calls do to
\* the arrays it was in meanwhile, and restarts and lost answers do not hand it
\* out again: a prompt is not both run and steered, canceled or run twice.
THEOREM EachClaimedOnce ==
  ASSUME ~EarlyCalls PROVE QueueSpec => []ClaimedOnce
<1>1. QueueInit => OnceInv
  BY OnceInit
<1>2. QueueInv /\ OnceInv /\ [QueueNext]_queueVars => OnceInv'
  BY OnceStep
<1>3. OnceInv => ClaimedOnce
  BY DEF OnceInv
<1> QED BY <1>1, <1>2, <1>3, QueueInvHolds, PTL DEF QueueSpec

-----------------------------------------------------------------------------
(***************************************************************************)
(* Calls that do not overlap.  As long as one call at a time is in flight  *)
(* and none fails or repeats a key, the mirror is what the table was       *)
(* before that call, or is after it.                                       *)
(***************************************************************************)

Alone == \A c, d \in Caller : op[c] # Idle /\ op[d] # Idle => c = d

\* An array nobody has written is empty, and a call or the map has no such array.
Arrays ==
  /\ \A t \in Turn : t \notin issued => heap[t] = <<>>
  /\ cur \in issued \cup {Boot, NoArray}
  /\ \A c \in Caller : /\ op[c].kind = "idle" => op[c] = Idle
                       /\ op[c].kind # "idle" => op[c].arr \in issued \cup {Boot}

\* What the table and the mirror are during the one call.
PushSound(c) ==
  op[c].kind = "push" =>
    /\ rows = IF op[c].phase = "ok" THEN Append(Mem, op[c].id) ELSE Mem
    /\ IF cur = NoArray THEN op[c].arr = op[c].id /\ heap[op[c].id] = <<>> ELSE op[c].arr = cur

RemoveSound(c) ==
  op[c].kind = "remove" =>
    IF op[c].phase = "sent" THEN \E i \in DOMAIN rows : rows[i] = op[c].id /\ Mem = RemoveAt(rows, i)
    ELSE Mem = rows

MoveSound(c) ==
  op[c].kind \in {"prioritize", "reorder"} =>
    /\ op[c].arr = cur /\ cur # NoArray /\ op[c].phase \in {"sent", "ok"}
    /\ op[c].at \in DOMAIN Mem /\ Mem[op[c].at] = op[c].id
    /\ op[c].phase = "sent" => rows = Mem
    /\ op[c].kind = "reorder" =>
         /\ op[c].to \in DOMAIN Mem
         /\ op[c].to = (IF op[c].to < op[c].at THEN op[c].at - 1 ELSE op[c].at + 1)
         /\ op[c].phase = "ok" => rows = Swap(Mem, op[c].at, op[c].to)
    /\ op[c].kind = "prioritize" /\ op[c].phase = "ok" =>
         rows = <<op[c].id>> \o RemoveAt(Mem, op[c].at)

Sound ==
  /\ Alone
  /\ boot = "ready" => /\ MirrorsStore
                       /\ \A c \in Caller : PushSound(c) /\ RemoveSound(c) /\ MoveSound(c)
  /\ boot # "ready" => cur = NoArray
  /\ boot = "listed" => listed = rows
  /\ NothingLost

OverlapInv == QueueInv /\ Arrays /\ OnceInv /\ (~disturbed => Sound)

-----------------------------------------------------------------------------
(* What every step keeps of the arrays, overlapping or not *)

LEMMA ArraysStep ==
  ASSUME QueueInv, Arrays, [QueueNext]_queueVars
  PROVE  Arrays'
<1>1. /\ heap \in [ArrayRef -> Seq(Turn \cup {Hole})] /\ op \in [Caller -> Call]
      /\ Boot \notin Turn /\ NoArray \notin Turn /\ NoArray # Boot /\ issued \subseteq Turn
      /\ Turn \subseteq ArrayRef
  BY QueueAssumption DEF QueueInv, QueueTypeOK, ArrayRef, Boot, NoArray
<1>2. Idle.kind = "idle"
  BY DEF Idle
<1>3. ASSUME NEW c \in Caller, NEW t \in Turn, PushBegin(c, t) PROVE Arrays'
  <2> DEFINE x == Sent("push", t, IF cur = NoArray THEN t ELSE cur, 0, 0)
  <2>1. /\ op' = [op EXCEPT ![c] = x] /\ issued' = issued \cup {t} /\ heap' = heap /\ cur' = cur
    BY <1>3 DEF PushBegin
  <2>2. x.kind = "push" /\ x.arr \in issued \cup {t, Boot}
    BY DEF Sent, Arrays
  <2> HIDE DEF x
  <2>3. op'[c] = x /\ \A d \in Caller \ {c} : op'[d] = op[d]
    BY <1>1, <2>1
  <2> QED BY <2>1, <2>2, <2>3 DEF Arrays
<1>4. ASSUME NEW c \in Caller, NEW t \in Turn, RemoveBegin(c, t) PROVE Arrays'
  <2> DEFINE x == Sent("remove", t, cur, 0, 0)
  <2>1. PICK i \in DOMAIN Mem :
          /\ heap' = [heap EXCEPT ![cur] = RemoveAt(@, i)]
          /\ cur' = IF Len(Mem) = 1 THEN NoArray ELSE cur
    BY <1>4 DEF RemoveBegin
  <2>2. op' = [op EXCEPT ![c] = x] /\ issued' = issued
    BY <1>4 DEF RemoveBegin
  <2>3. cur \in issued \cup {Boot}
    BY <2>1 DEF Mem, Arrays
  <2>4. x.kind = "remove" /\ x.arr \in issued \cup {Boot}
    BY <2>3 DEF Sent
  <2> HIDE DEF x
  <2>5. op'[c] = x /\ \A d \in Caller \ {c} : op'[d] = op[d]
    BY <1>1, <2>2
  <2>6. \A t2 \in Turn : t2 \notin issued => heap'[t2] = <<>>
    BY <1>1, <2>1, <2>3 DEF Arrays
  <2> QED BY <2>1, <2>2, <2>3, <2>4, <2>5, <2>6 DEF Arrays
<1>5. ASSUME NEW c \in Caller, NEW t \in Turn,
             PrioritizeBegin(c, t) \/ \E up \in BOOLEAN : ReorderBegin(c, t, up)
      PROVE  Arrays'
  <2>1. PICK x \in {Sent(k, t, cur, i, j) : k \in {"prioritize", "reorder"}, i \in DOMAIN Mem, j \in Int} :
          op' = [op EXCEPT ![c] = x]
    <3>0. Mem \in Seq(Turn \cup {Hole})
      BY DEF Mem, QueueInv, QueueTypeOK
    <3>1. DOMAIN Mem \subseteq Int
      BY <3>0
    <3>2. ASSUME PrioritizeBegin(c, t)
          PROVE  \E i \in DOMAIN Mem : op' = [op EXCEPT ![c] = Sent("prioritize", t, cur, i, 0)]
      BY <3>2 DEF PrioritizeBegin
    <3>3. ASSUME NEW up \in BOOLEAN, ReorderBegin(c, t, up)
          PROVE  \E i \in DOMAIN Mem, j \in Int : op' = [op EXCEPT ![c] = Sent("reorder", t, cur, i, j)]
      BY <3>1, <3>3 DEF ReorderBegin
    <3>4. "prioritize" \in {"prioritize", "reorder"} /\ 0 \in Int
      OBVIOUS
    <3> QED BY <3>2, <3>3, <3>4, <1>5
  <2>2. x.kind # "idle" /\ x.arr = cur /\ cur # NoArray
    BY DEF Sent, Mem
  <2>3. op'[c] = x /\ \A d \in Caller \ {c} : op'[d] = op[d]
    BY <1>1, <2>1
  <2>4. UNCHANGED <<heap, cur, issued>>
    BY <1>5 DEF PrioritizeBegin, ReorderBegin
  <2> QED BY <2>2, <2>3, <2>4 DEF Arrays
<1>6. ASSUME NEW c \in Caller, StoreStep(c) PROVE Arrays'
  <2>1. PICK p \in Phase : op' = [op EXCEPT ![c].phase = p]
    <3>1. CASE StorePush(c)
      BY <3>1 DEF StorePush, Phase
    <3>2. CASE StoreRemove(c)
      BY <3>2 DEF StoreRemove, Phase
    <3>3. CASE StorePrioritize(c)
      BY <3>3 DEF StorePrioritize, Phase
    <3>4. CASE StoreReorder(c)
      BY <3>4 DEF StoreReorder, Phase
    <3> QED BY <1>6, <3>1, <3>2, <3>3, <3>4 DEF StoreStep
  <2>2. UNCHANGED <<heap, cur, issued>> /\ op[c].kind # "idle"
    BY <1>6 DEF StoreStep, StorePush, StoreRemove, StorePrioritize, StoreReorder
  <2>3. op'[c].kind = op[c].kind /\ op'[c].arr = op[c].arr
        /\ \A d \in Caller \ {c} : op'[d] = op[d]
    BY <1>1, <2>1 DEF Call
  <2> QED BY <2>2, <2>3 DEF Arrays
<1>7. ASSUME NEW c \in Caller, ReturnStep(c) \/ CallRejects(c) PROVE Arrays'
  <2>1. op' = [op EXCEPT ![c] = Idle] /\ issued' = issued
    BY <1>7 DEF ReturnStep, PushReturn, RemoveReturn, PrioritizeReturn, ReorderReturn, CallRejects
  <2>2. op'[c] = Idle /\ \A d \in Caller \ {c} : op'[d] = op[d]
    BY <1>1, <2>1
  <2>3. CASE heap' = heap /\ cur' = cur
    BY <1>2, <2>1, <2>2, <2>3 DEF Arrays
  <2>4. CASE ~(heap' = heap /\ cur' = cur)
    <3>1. op[c].kind # "idle"
      BY <1>7, <2>4 DEF ReturnStep, PushReturn, RemoveReturn, PrioritizeReturn, ReorderReturn, CallRejects
    <3>2. op[c].arr \in issued \cup {Boot}
      BY <3>1 DEF Arrays
    <3>3. \E s : heap' = [heap EXCEPT ![op[c].arr] = s]
      BY <1>7, <2>4 DEF ReturnStep, PushReturn, RemoveReturn, PrioritizeReturn, ReorderReturn, CallRejects
    <3>4. cur' \in {cur, op[c].arr}
      BY <1>7 DEF ReturnStep, PushReturn, RemoveReturn, PrioritizeReturn, ReorderReturn, CallRejects
    <3>5. \A t \in Turn : t \notin issued => heap'[t] = <<>>
      BY <1>1, <3>2, <3>3 DEF Arrays
    <3> QED BY <1>2, <2>1, <2>2, <3>2, <3>4, <3>5 DEF Arrays
  <2> QED BY <2>3, <2>4
<1>8. CASE QueueRestart
  BY <1>1, <1>2, <1>8 DEF QueueRestart, Arrays
<1>9. CASE StoreList \/ Resume \/ UNCHANGED queueVars
  BY <1>9 DEF StoreList, Resume, queueVars, Arrays
<1>10. CASE RestoreReturn
  <2>1. heap' = [heap EXCEPT ![Boot] = listed] /\ cur' \in {NoArray, Boot} /\ UNCHANGED <<op, issued>>
    BY <1>10 DEF RestoreReturn
  <2>2. \A t \in Turn : heap'[t] = heap[t]
    BY <1>1, <2>1
  <2> QED BY <2>1, <2>2 DEF Arrays
<1>11. ASSUME NEW c \in Caller, ShiftBegin(c) PROVE Arrays'
  <2>1. Mem \in Seq(Turn \cup {Hole})
    BY DEF QueueInv, QueueTypeOK, Mem
  <2>2. Head(Mem) \in Turn /\ RemoveBegin(c, Head(Mem))
    BY <1>11, <2>1 DEF ShiftBegin
  <2> QED BY <2>2, <1>4
<1> QED BY <1>3, <1>4, <1>5, <1>6, <1>7, <1>8, <1>9, <1>10, <1>11 DEF QueueNext

-----------------------------------------------------------------------------
(* One call at a time *)

\* While two calls do not meet, nothing but c is in flight after c has begun.
LEMMA StaysAlone ==
  ASSUME QueueInv, Arrays, Alone, NEW c \in Caller, NEW x \in Call, x # Idle,
         op[c] = Idle, op' = [op EXCEPT ![c] = x], ~(Cardinality(InFlight(op')) > 1)
  PROVE  \A d \in Caller : op[d] = Idle
<1>1. op \in [Caller -> Call]
  BY DEF QueueInv, QueueTypeOK
<1>2. SUFFICES ASSUME NEW d \in Caller, op[d] # Idle PROVE FALSE
  OBVIOUS
<1>3. c # d
  BY <1>2
<1>4. InFlight(op') = {c, d}
  BY <1>1, <1>2, <1>3 DEF InFlight, Alone
<1>5. IsFiniteSet({c}) /\ Cardinality({c}) = 1
  BY FS_Singleton
<1>6. Cardinality({c} \cup {d}) = Cardinality({c}) + 1
  <2>1. d \notin {c}
    BY <1>3
  <2> QED BY <1>5, <2>1, FS_AddElement, Zenon
<1> DEFINE two == {c} \cup {d}
           flying == InFlight(op')
<1>7. two = flying
  BY <1>4
<1>8. Cardinality(two) = 2 /\ ~(Cardinality(flying) > 1)
  BY <1>5, <1>6
<1> HIDE DEF two, flying
<1> QED BY <1>7, <1>8

\* Nobody is in flight and the mirror is the table.
LEMMA SoundAtRest ==
  ASSUME boot' = "ready", \A c \in Caller : op'[c] = Idle, Mem' = rows', NothingLost'
  PROVE  Sound'
<1>1. Idle.kind = "idle"
  BY DEF Idle
<1>2. Alone'
  BY DEF Alone
<1>3. \A c \in Caller : PushSound(c)' /\ RemoveSound(c)' /\ MoveSound(c)'
  BY <1>1 DEF PushSound, RemoveSound, MoveSound
<1>4. MirrorsStore'
  BY DEF MirrorsStore
<1> QED BY <1>2, <1>3, <1>4 DEF Sound

\* The call c alone is in flight.
LEMMA SoundInCall ==
  ASSUME NEW c \in Caller, boot' = "ready", op'[c] # Idle,
         \A d \in Caller \ {c} : op'[d] = Idle,
         PushSound(c)', RemoveSound(c)', MoveSound(c)', NothingLost'
  PROVE  Sound'
<1>1. Idle.kind = "idle"
  BY DEF Idle
<1>2. Alone'
  BY DEF Alone
<1>3. ASSUME NEW d \in Caller PROVE PushSound(d)' /\ RemoveSound(d)' /\ MoveSound(d)'
  <2>1. CASE d = c
    BY <2>1
  <2>2. CASE d # c
    <3>1. op'[d].kind = "idle"
      BY <1>1, <2>2
    <3> QED BY <3>1 DEF PushSound, RemoveSound, MoveSound
  <2> QED BY <2>1, <2>2
<1>4. MirrorsStore'
  BY DEF MirrorsStore, Quiet
<1> QED BY <1>2, <1>3, <1>4 DEF Sound

\* In a NoTwice sequence a record is at one place.
LEMMA AtItsPlace ==
  ASSUME NEW S, NEW s \in Seq(S), NoTwice(s), NEW i \in DOMAIN s
  PROVE  At(s, s[i]) = i /\ Without(s, s[i]) = RemoveAt(s, i)
<1>1. At(s, s[i]) = i
  BY DEF At, NoTwice
<1> QED BY <1>1 DEF Without, ToSet

\* What the table and the mirror are when a call begins: the same.
LEMMA BeginsAtRest ==
  ASSUME QueueInv, OnceInv, Arrays, Sound, ~EarlyCalls, NEW c \in Caller, CanCall(c),
         NEW x \in Call, x.kind # "idle", op' = [op EXCEPT ![c] = x],
         ~(Cardinality(InFlight(op')) > 1)
  PROVE  /\ boot = "ready" /\ Mem = rows /\ Mem \in Seq(Turn) /\ NoTwice(Mem)
         /\ op'[c] = x /\ x # Idle /\ \A d \in Caller \ {c} : op'[d] = Idle
<1>1. boot = "ready" /\ op[c] = Idle
  BY CallsAreLate DEF CanCall
<1>2. x # Idle
  BY DEF Idle
<1>3. \A d \in Caller : op[d] = Idle
  BY <1>1, <1>2, StaysAlone DEF Sound
<1>4. op \in [Caller -> Call] /\ rows \in Seq(Turn) /\ NoTwice(rows)
  BY DEF QueueInv, QueueTypeOK
<1>5. Mem = rows
  BY <1>1, <1>3 DEF Sound, MirrorsStore, Quiet
<1> QED BY <1>1, <1>2, <1>3, <1>4, <1>5

LEMMA PushBeginSound ==
  ASSUME QueueInv, OnceInv, Arrays, Sound, ~EarlyCalls, NEW c \in Caller, NEW t \in Turn,
         PushBegin(c, t), ~(Cardinality(InFlight(op')) > 1)
  PROVE  Sound'
<1> DEFINE x == Sent("push", t, IF cur = NoArray THEN t ELSE cur, 0, 0)
<1>1. /\ op' = [op EXCEPT ![c] = x] /\ CanCall(c) /\ t \notin issued
      /\ UNCHANGED <<rows, heap, cur, boot, accepted, taken>>
  BY DEF PushBegin
<1>2. x \in Call /\ x.kind = "push" /\ x.phase = "sent" /\ x.id = t
      /\ x.arr = IF cur = NoArray THEN t ELSE cur
  BY DEF Sent, Call, Kind, Phase, QueueInv, QueueTypeOK, ArrayRef
<1> HIDE DEF x
<1>3. /\ boot = "ready" /\ Mem = rows
      /\ op'[c] = x /\ x # Idle /\ \A d \in Caller \ {c} : op'[d] = Idle
  BY <1>1, <1>2, BeginsAtRest
<1>4. Mem' = Mem
  BY <1>1 DEF Mem
<1>5. PushSound(c)' /\ RemoveSound(c)' /\ MoveSound(c)'
  BY <1>1, <1>2, <1>3, <1>4 DEF PushSound, RemoveSound, MoveSound, Arrays
<1>6. NothingLost'
  BY <1>1, <1>3, <1>4 DEF NothingLost, Sound
<1> QED BY <1>1, <1>3, <1>5, <1>6, SoundInCall

LEMMA RemoveBeginSound ==
  ASSUME QueueInv, OnceInv, Arrays, Sound, ~EarlyCalls, NEW c \in Caller, NEW t \in Turn,
         RemoveBegin(c, t), ~(Cardinality(InFlight(op')) > 1)
  PROVE  Sound'
<1> DEFINE x == Sent("remove", t, cur, 0, 0)
<1>1. PICK i \in DOMAIN Mem :
        /\ FoundAt(Mem, t, i)
        /\ heap' = [heap EXCEPT ![cur] = RemoveAt(@, i)]
        /\ cur' = IF Len(Mem) = 1 THEN NoArray ELSE cur
  BY DEF RemoveBegin
<1>2. /\ op' = [op EXCEPT ![c] = x] /\ CanCall(c) /\ taken' = taken \cup {t}
      /\ UNCHANGED <<rows, boot, accepted>>
  BY DEF RemoveBegin
<1>3. /\ cur \in ArrayRef /\ Mem = heap[cur] /\ heap \in [ArrayRef -> Seq(Turn \cup {Hole})]
      /\ NoArray \notin ArrayRef
  BY <1>1, QueueAssumption DEF QueueInv, QueueTypeOK, Mem, ArrayRef, Boot, NoArray
<1>4. x \in Call /\ x.kind = "remove" /\ x.phase = "sent" /\ x.id = t
  BY <1>3 DEF Sent, Call, Kind, Phase
<1> HIDE DEF x
<1>5. /\ boot = "ready" /\ Mem = rows /\ Mem \in Seq(Turn) /\ NoTwice(Mem)
      /\ op'[c] = x /\ x # Idle /\ \A d \in Caller \ {c} : op'[d] = Idle
  BY <1>2, <1>4, BeginsAtRest
<1>6. Mem' = RemoveAt(Mem, i)
  <2>1. CASE Len(Mem) = 1
    <3>1. RemoveAt(Mem, i) \in Seq(Turn) /\ Len(RemoveAt(Mem, i)) = 0
      BY <1>1, <1>5, <2>1, Cut
    <3>2. RemoveAt(Mem, i) = <<>>
      BY <3>1, EmptySeq
    <3> QED BY <1>1, <2>1, <3>2 DEF Mem
  <2>2. CASE Len(Mem) # 1
    BY <1>1, <1>3, <2>2 DEF Mem
  <2> QED BY <2>1, <2>2
<1>7. Mem[i] = t
  BY <1>1 DEF FoundAt
<1>8. ToSet(Mem') = ToSet(Mem) \ {t}
  BY <1>1, <1>5, <1>6, <1>7, TakenOut
<1>9. PushSound(c)' /\ RemoveSound(c)' /\ MoveSound(c)'
  <2>1. RemoveSound(c)'
    BY <1>1, <1>2, <1>4, <1>5, <1>6, <1>7 DEF RemoveSound
  <2> QED BY <1>4, <1>5, <2>1 DEF PushSound, MoveSound
<1>10. NothingLost'
  BY <1>2, <1>5, <1>8 DEF NothingLost, Sound
<1> QED BY <1>2, <1>5, <1>9, <1>10, SoundInCall

LEMMA PrioritizeBeginSound ==
  ASSUME QueueInv, OnceInv, Arrays, Sound, ~EarlyCalls, NEW c \in Caller, NEW t \in Turn,
         PrioritizeBegin(c, t), ~(Cardinality(InFlight(op')) > 1)
  PROVE  Sound'
<1>1. PICK i \in DOMAIN Mem :
        FoundAt(Mem, t, i) /\ op' = [op EXCEPT ![c] = Sent("prioritize", t, cur, i, 0)]
  BY DEF PrioritizeBegin
<1>2. CanCall(c) /\ UNCHANGED <<rows, heap, cur, boot, accepted, taken>>
  BY DEF PrioritizeBegin
<1>3. /\ cur \in ArrayRef /\ cur # NoArray /\ Mem \in Seq(Turn \cup {Hole})
  BY <1>1 DEF QueueInv, QueueTypeOK, Mem
<1> DEFINE x == Sent("prioritize", t, cur, i, 0)
<1>4. /\ x \in Call /\ x.kind = "prioritize" /\ x.phase = "sent" /\ x.id = t /\ x.at = i
      /\ x.arr = cur
  BY <1>3 DEF Sent, Call, Kind, Phase
<1> HIDE DEF x
<1>5. /\ boot = "ready" /\ Mem = rows
      /\ op'[c] = x /\ x # Idle /\ \A d \in Caller \ {c} : op'[d] = Idle
  BY <1>1, <1>2, <1>4, BeginsAtRest DEF x
<1>6. Mem' = Mem /\ Mem[i] = t
  BY <1>1, <1>2 DEF Mem, FoundAt
<1>7. PushSound(c)' /\ RemoveSound(c)' /\ MoveSound(c)'
  BY <1>1, <1>2, <1>3, <1>4, <1>5, <1>6 DEF PushSound, RemoveSound, MoveSound
<1>8. NothingLost'
  BY <1>2, <1>5, <1>6 DEF NothingLost, Sound
<1> QED BY <1>2, <1>5, <1>7, <1>8, SoundInCall

LEMMA ReorderBeginSound ==
  ASSUME QueueInv, OnceInv, Arrays, Sound, ~EarlyCalls, NEW c \in Caller, NEW t \in Turn,
         NEW up \in BOOLEAN, ReorderBegin(c, t, up), ~(Cardinality(InFlight(op')) > 1)
  PROVE  Sound'
<1>1. PICK i \in DOMAIN Mem, j \in DOMAIN Mem :
        /\ FoundAt(Mem, t, i) /\ op' = [op EXCEPT ![c] = Sent("reorder", t, cur, i, j)]
        /\ j = IF up THEN i - 1 ELSE i + 1
  BY DEF ReorderBegin
<1>2. CanCall(c) /\ UNCHANGED <<rows, heap, cur, boot, accepted, taken>>
  BY DEF ReorderBegin
<1>3. /\ cur \in ArrayRef /\ cur # NoArray /\ Mem \in Seq(Turn \cup {Hole})
  BY <1>1 DEF QueueInv, QueueTypeOK, Mem
<1> DEFINE x == Sent("reorder", t, cur, i, j)
<1>4. /\ x \in Call /\ x.kind = "reorder" /\ x.phase = "sent" /\ x.id = t /\ x.at = i
      /\ x.to = j /\ x.arr = cur
  BY <1>3 DEF Sent, Call, Kind, Phase
<1> HIDE DEF x
<1>5. /\ boot = "ready" /\ Mem = rows
      /\ op'[c] = x /\ x # Idle /\ \A d \in Caller \ {c} : op'[d] = Idle
  BY <1>1, <1>2, <1>4, BeginsAtRest DEF x
<1>6. Mem' = Mem /\ Mem[i] = t
  BY <1>1, <1>2 DEF Mem, FoundAt
<1>7. j = IF j < i THEN i - 1 ELSE i + 1
  BY <1>1, <1>3
<1>8. PushSound(c)' /\ RemoveSound(c)'
  BY <1>4, <1>5 DEF PushSound, RemoveSound
<1>9. MoveSound(c)'
  BY <1>1, <1>2, <1>3, <1>4, <1>5, <1>6, <1>7 DEF MoveSound
<1>10. NothingLost'
  BY <1>2, <1>5, <1>6 DEF NothingLost, Sound
<1> QED BY <1>2, <1>5, <1>8, <1>9, <1>10, SoundInCall

\* Moving a record to the front loses none.
LEMMA MovedFirst ==
  ASSUME NEW S, NEW s \in Seq(S), NEW i \in DOMAIN s
  PROVE  ToSet(s) \subseteq ToSet(<<s[i]>> \o RemoveAt(s, i))
<1> DEFINE r == RemoveAt(s, i)
<1>1. /\ r \in Seq(S) /\ Len(r) = Len(s) - 1 /\ i \in 1..Len(s) /\ Len(s) \in Nat
      /\ \A k \in 1..(Len(s) - 1) : r[k] = IF k < i THEN s[k] ELSE s[k + 1]
  BY Cut
<1> HIDE DEF r
<1>2. ToSet(<<s[i]>> \o r) = ToSet(r) \cup {s[i]}
  BY <1>1, PutFirst
<1>3. ASSUME NEW k \in DOMAIN s, k # i PROVE s[k] \in ToSet(r)
  <2>1. CASE k < i
    BY <1>1, <2>1 DEF ToSet
  <2>2. CASE k > i
    <3>1. k - 1 \in 1..(Len(s) - 1) /\ r[k - 1] = s[k]
      BY <1>1, <2>2
    <3> QED BY <1>1, <3>1 DEF ToSet
  <2> QED BY <1>1, <1>3, <2>1, <2>2
<1> QED BY <1>2, <1>3 DEF ToSet, r

\* The call c is the one in flight, and it keeps the slot.
LEMMA StillAlone ==
  ASSUME QueueInv, OnceInv, Arrays, Sound, ~EarlyCalls, NEW c \in Caller, op[c].kind # "idle"
  PROVE  /\ boot = "ready" /\ \A d \in Caller \ {c} : op[d] = Idle
         /\ PushSound(c) /\ RemoveSound(c) /\ MoveSound(c)
         /\ op \in [Caller -> Call] /\ rows \in Seq(Turn) /\ NoTwice(rows)
         /\ Mem \in Seq(Turn \cup {Hole})
<1>1. boot = "ready" /\ op[c] # Idle
  BY CallsAreLate DEF Idle
<1>2. op \in [Caller -> Call] /\ rows \in Seq(Turn) /\ NoTwice(rows) /\ Mem \in Seq(Turn \cup {Hole})
  BY DEF QueueInv, QueueTypeOK, Mem
<1> QED BY <1>1, <1>2 DEF Sound, Alone

LEMMA StorePushSound ==
  ASSUME QueueInv, OnceInv, Arrays, Sound, ~EarlyCalls, NEW c \in Caller,
         StorePush(c), ~Repeats(c)
  PROVE  Sound'
<1>1. op[c].kind = "push" /\ op[c].phase = "sent" /\ SameKey(op[c].id) = {}
  BY DEF StorePush, Repeats
<1>2. /\ boot = "ready" /\ \A d \in Caller \ {c} : op[d] = Idle
      /\ PushSound(c) /\ op \in [Caller -> Call]
  BY <1>1, StillAlone
<1>3. PICK ok \in BOOLEAN :
        /\ rows' = IF ok THEN Append(rows, op[c].id) ELSE rows
        /\ op' = [op EXCEPT ![c].phase = IF ok THEN "ok" ELSE "refused"]
  BY <1>1 DEF StorePush
<1>4. UNCHANGED <<heap, cur, boot, accepted, taken>> /\ Mem' = Mem
  BY DEF StorePush, Mem
<1>5. /\ op'[c].kind = "push" /\ op'[c].id = op[c].id /\ op'[c].arr = op[c].arr
      /\ op'[c].phase = (IF ok THEN "ok" ELSE "refused")
      /\ \A d \in Caller \ {c} : op'[d] = Idle
  BY <1>1, <1>2, <1>3 DEF Call
<1>6. PushSound(c)' /\ RemoveSound(c)' /\ MoveSound(c)'
  BY <1>1, <1>2, <1>3, <1>4, <1>5 DEF PushSound, RemoveSound, MoveSound
<1>7. NothingLost'
  BY <1>2, <1>4 DEF NothingLost, Sound
<1>8. op'[c] # Idle /\ boot' = "ready"
  BY <1>2, <1>4, <1>5 DEF Idle
<1> QED BY <1>5, <1>6, <1>7, <1>8, SoundInCall

LEMMA StoreRemoveSound ==
  ASSUME QueueInv, OnceInv, Arrays, Sound, ~EarlyCalls, NEW c \in Caller, StoreRemove(c)
  PROVE  Sound'
<1>1. op[c].kind = "remove" /\ op[c].phase = "sent"
  BY DEF StoreRemove
<1>2. /\ boot = "ready" /\ \A d \in Caller \ {c} : op[d] = Idle
      /\ RemoveSound(c) /\ op \in [Caller -> Call] /\ rows \in Seq(Turn) /\ NoTwice(rows)
  BY <1>1, StillAlone
<1>3. /\ rows' = Without(rows, op[c].id) /\ op' = [op EXCEPT ![c].phase = "ok"]
      /\ UNCHANGED <<heap, cur, boot, accepted, taken>> /\ Mem' = Mem
  BY DEF StoreRemove, Mem
<1>4. rows' = Mem
  BY <1>1, <1>2, <1>3, AtItsPlace DEF RemoveSound
<1>5. /\ op'[c].kind = "remove" /\ op'[c].phase = "ok"
      /\ \A d \in Caller \ {c} : op'[d] = Idle
  BY <1>1, <1>2, <1>3 DEF Call
<1>6. PushSound(c)' /\ RemoveSound(c)' /\ MoveSound(c)'
  BY <1>3, <1>4, <1>5 DEF PushSound, RemoveSound, MoveSound
<1>7. NothingLost'
  BY <1>2, <1>3 DEF NothingLost, Sound
<1>8. op'[c] # Idle /\ boot' = "ready"
  BY <1>2, <1>3, <1>5 DEF Idle
<1> QED BY <1>5, <1>6, <1>7, <1>8, SoundInCall

LEMMA StorePrioritizeSound ==
  ASSUME QueueInv, OnceInv, Arrays, Sound, ~EarlyCalls, NEW c \in Caller, StorePrioritize(c)
  PROVE  Sound'
<1>1. op[c].kind = "prioritize" /\ op[c].phase = "sent"
  BY DEF StorePrioritize
<1>2. /\ boot = "ready" /\ \A d \in Caller \ {c} : op[d] = Idle
      /\ MoveSound(c) /\ op \in [Caller -> Call] /\ rows \in Seq(Turn) /\ NoTwice(rows)
  BY <1>1, StillAlone
<1>3. /\ op[c].arr = cur /\ cur # NoArray /\ rows = Mem
      /\ op[c].at \in DOMAIN Mem /\ Mem[op[c].at] = op[c].id
  BY <1>1, <1>2 DEF MoveSound
<1>4. op[c].id \in ToSet(rows) /\ Without(rows, op[c].id) = RemoveAt(Mem, op[c].at)
  BY <1>2, <1>3, AtItsPlace DEF ToSet
<1>5. /\ rows' = <<op[c].id>> \o RemoveAt(Mem, op[c].at)
      /\ op' = [op EXCEPT ![c].phase = "ok"]
      /\ UNCHANGED <<heap, cur, boot, accepted, taken>> /\ Mem' = Mem
  BY <1>4 DEF StorePrioritize, Mem
<1>6. /\ op'[c].kind = "prioritize" /\ op'[c].phase = "ok" /\ op'[c].id = op[c].id
      /\ op'[c].at = op[c].at /\ op'[c].arr = op[c].arr
      /\ \A d \in Caller \ {c} : op'[d] = Idle
  BY <1>1, <1>2, <1>5 DEF Call
<1>7. MoveSound(c)'
  BY <1>3, <1>5, <1>6 DEF MoveSound
<1>8. NothingLost'
  BY <1>2, <1>5 DEF NothingLost, Sound
<1>9. op'[c] # Idle /\ boot' = "ready" /\ PushSound(c)' /\ RemoveSound(c)'
  BY <1>2, <1>5, <1>6 DEF Idle, PushSound, RemoveSound
<1> QED BY <1>6, <1>7, <1>8, <1>9, SoundInCall

LEMMA StoreReorderSound ==
  ASSUME QueueInv, OnceInv, Arrays, Sound, ~EarlyCalls, NEW c \in Caller, StoreReorder(c)
  PROVE  Sound'
<1>1. op[c].kind = "reorder" /\ op[c].phase = "sent"
  BY DEF StoreReorder
<1>2. /\ boot = "ready" /\ \A d \in Caller \ {c} : op[d] = Idle
      /\ MoveSound(c) /\ op \in [Caller -> Call] /\ rows \in Seq(Turn) /\ NoTwice(rows)
  BY <1>1, StillAlone
<1>3. /\ op[c].arr = cur /\ cur # NoArray /\ rows = Mem
      /\ op[c].at \in DOMAIN Mem /\ Mem[op[c].at] = op[c].id /\ op[c].to \in DOMAIN Mem
      /\ op[c].to = (IF op[c].to < op[c].at THEN op[c].at - 1 ELSE op[c].at + 1)
  BY <1>1, <1>2 DEF MoveSound
<1>4. op[c].id \in ToSet(rows) /\ At(rows, op[c].id) = op[c].at
  BY <1>2, <1>3, AtItsPlace DEF ToSet
<1>5. /\ rows' = Swap(Mem, op[c].at, op[c].to) /\ op' = [op EXCEPT ![c].phase = "ok"]
      /\ UNCHANGED <<heap, cur, boot, accepted, taken>> /\ Mem' = Mem
  BY <1>3, <1>4 DEF StoreReorder, Mem
<1>6. /\ op'[c].kind = "reorder" /\ op'[c].phase = "ok" /\ op'[c].id = op[c].id
      /\ op'[c].at = op[c].at /\ op'[c].to = op[c].to /\ op'[c].arr = op[c].arr
      /\ \A d \in Caller \ {c} : op'[d] = Idle
  BY <1>1, <1>2, <1>5 DEF Call
<1>7. MoveSound(c)'
  BY <1>3, <1>5, <1>6 DEF MoveSound
<1>8. NothingLost'
  BY <1>2, <1>5 DEF NothingLost, Sound
<1>9. op'[c] # Idle /\ boot' = "ready" /\ PushSound(c)' /\ RemoveSound(c)'
  BY <1>2, <1>5, <1>6 DEF Idle, PushSound, RemoveSound
<1> QED BY <1>6, <1>7, <1>8, <1>9, SoundInCall

\* The call returns: the mirror has caught up with the table and has lost no
\* prompt that was waiting in it.
LEMMA ReturnSound ==
  ASSUME QueueInv, OnceInv, Arrays, Sound, ~EarlyCalls, NEW c \in Caller, ReturnStep(c)
  PROVE  Sound'
<1>1. op[c].kind \in {"push", "remove", "prioritize", "reorder"} /\ op[c].phase = "ok"
  BY DEF ReturnStep, PushReturn, RemoveReturn, PrioritizeReturn, ReorderReturn
<1>2. /\ boot = "ready" /\ \A d \in Caller \ {c} : op[d] = Idle
      /\ PushSound(c) /\ RemoveSound(c) /\ MoveSound(c)
      /\ op \in [Caller -> Call] /\ rows \in Seq(Turn) /\ NoTwice(rows)
      /\ Mem \in Seq(Turn \cup {Hole})
  BY <1>1, StillAlone
<1>3. op' = [op EXCEPT ![c] = Idle] /\ UNCHANGED <<rows, boot, taken>>
  BY DEF ReturnStep, PushReturn, RemoveReturn, PrioritizeReturn, ReorderReturn
<1>4. \A d \in Caller : op'[d] = Idle
  BY <1>2, <1>3
<1>5. /\ heap \in [ArrayRef -> Seq(Turn \cup {Hole})] /\ NoArray \notin ArrayRef
      /\ \A t \in accepted \ taken : t \in ToSet(Mem)
  BY <1>2, QueueAssumption DEF QueueInv, QueueTypeOK, ArrayRef, Boot, NoArray, Sound, NothingLost
<1>6. SUFFICES Mem' = rows' /\ \A t \in accepted' \ taken' : t \in ToSet(Mem')
  BY <1>2, <1>3, <1>4, SoundAtRest DEF NothingLost
<1>7. CASE PushReturn(c)
  <2>1. /\ heap' = [heap EXCEPT ![op[c].arr] = Append(@, op[c].id)] /\ cur' = op[c].arr
        /\ accepted' = accepted \cup {op[c].id} /\ op[c].kind = "push"
    BY <1>7 DEF PushReturn
  <2>2. op[c].arr \in ArrayRef /\ op[c].id \in Turn
    BY <2>1 DEF QueueInv, Issued, QueueTypeOK
  <2>3. rows = Append(Mem, op[c].id) /\ heap[op[c].arr] = Mem
    BY <1>1, <1>2, <2>1 DEF PushSound, Mem
  <2>4. Mem' = Append(Mem, op[c].id)
    BY <1>5, <2>1, <2>2, <2>3 DEF Mem
  <2>5. ToSet(Mem') = ToSet(Mem) \cup {op[c].id}
    BY <1>2, <2>2, <2>4, Appended
  <2> QED BY <1>3, <1>5, <2>1, <2>3, <2>4, <2>5
<1>8. CASE RemoveReturn(c)
  <2>1. UNCHANGED <<heap, cur, accepted>> /\ op[c].kind = "remove" /\ Mem' = Mem
    BY <1>8 DEF RemoveReturn, Mem
  <2> QED BY <1>1, <1>2, <1>3, <1>5, <2>1 DEF RemoveSound
<1>9. CASE PrioritizeReturn(c)
  <2>1. /\ heap' = [heap EXCEPT ![op[c].arr] = <<Cell(@, op[c].at)>> \o Splice(@, op[c].at)]
        /\ UNCHANGED <<cur, accepted>> /\ op[c].kind = "prioritize"
    BY <1>9 DEF PrioritizeReturn
  <2>2. /\ op[c].arr = cur /\ cur # NoArray /\ op[c].at \in DOMAIN Mem
        /\ Mem[op[c].at] = op[c].id /\ rows = <<op[c].id>> \o RemoveAt(Mem, op[c].at)
    BY <1>1, <1>2, <2>1 DEF MoveSound
  <2>3. cur \in ArrayRef /\ Mem = heap[cur]
    BY <2>2 DEF Mem, QueueInv, QueueTypeOK
  <2>4. Cell(Mem, op[c].at) = op[c].id /\ Splice(Mem, op[c].at) = RemoveAt(Mem, op[c].at)
    BY <1>2, <2>2 DEF Cell, Splice
  <2>5. Mem' = rows
    BY <1>5, <2>1, <2>2, <2>3, <2>4 DEF Mem
  <2>6. ToSet(Mem) \subseteq ToSet(<<op[c].id>> \o RemoveAt(Mem, op[c].at))
    BY <1>2, <2>2, MovedFirst
  <2> QED BY <1>3, <1>5, <2>1, <2>2, <2>5, <2>6
<1>10. CASE ReorderReturn(c)
  <2>1. /\ heap' = [heap EXCEPT ![op[c].arr] = Swap(@, op[c].at, op[c].to)]
        /\ UNCHANGED <<cur, accepted>> /\ op[c].kind = "reorder"
    BY <1>10 DEF ReorderReturn
  <2>2. /\ op[c].arr = cur /\ cur # NoArray /\ op[c].at \in DOMAIN Mem /\ op[c].to \in DOMAIN Mem
        /\ rows = Swap(Mem, op[c].at, op[c].to)
    BY <1>1, <1>2, <2>1 DEF MoveSound
  <2>3. cur \in ArrayRef /\ Mem = heap[cur]
    BY <2>2 DEF Mem, QueueInv, QueueTypeOK
  <2>4. Mem' = rows
    BY <1>5, <2>1, <2>2, <2>3 DEF Mem
  <2>5. ToSet(Swap(Mem, op[c].at, op[c].to)) = ToSet(Mem)
    BY <1>2, <2>2, SwappedInside
  <2> QED BY <1>3, <1>5, <2>1, <2>2, <2>4, <2>5
<1> QED BY <1>7, <1>8, <1>9, <1>10 DEF ReturnStep

\* While one call at most is in flight, the table has what the mirror has.
LEMMA TableHasAll ==
  ASSUME QueueInv, OnceInv, Arrays, Sound, ~EarlyCalls, boot = "ready"
  PROVE  ToSet(Mem) \subseteq ToSet(rows)
<1>1. CASE \A c \in Caller : op[c] = Idle
  BY <1>1 DEF Sound, MirrorsStore, Quiet
<1>2. ASSUME NEW c \in Caller, op[c] # Idle PROVE ToSet(Mem) \subseteq ToSet(rows)
  <2>1. op[c].kind \in Kind \ {"idle"}
    BY <1>2 DEF Arrays, QueueInv, QueueTypeOK, Call
  <2>2. /\ PushSound(c) /\ RemoveSound(c) /\ MoveSound(c)
        /\ rows \in Seq(Turn) /\ NoTwice(rows) /\ Mem \in Seq(Turn \cup {Hole})
        /\ op[c].id \in Turn \cup {NoTurn}
    BY <2>1, StillAlone DEF Call
  <2>3. CASE op[c].kind = "push"
    <3>1. op[c].id \in Turn
      BY <2>3 DEF QueueInv, Issued, QueueTypeOK
    <3>2. ToSet(Append(Mem, op[c].id)) = ToSet(Mem) \cup {op[c].id}
      BY <2>2, <3>1, Appended
    <3> QED BY <2>2, <2>3, <3>2 DEF PushSound
  <2>4. CASE op[c].kind = "remove"
    BY <2>2, <2>4, TakenOut DEF RemoveSound
  <2>5. CASE op[c].kind = "prioritize"
    <3>1. ToSet(Mem) \subseteq ToSet(<<op[c].id>> \o RemoveAt(Mem, op[c].at))
      BY <2>2, <2>5, MovedFirst DEF MoveSound
    <3> QED BY <2>2, <2>5, <3>1 DEF MoveSound
  <2>6. CASE op[c].kind = "reorder"
    <3>1. ToSet(Swap(Mem, op[c].at, op[c].to)) = ToSet(Mem)
      BY <2>2, <2>6, SwappedInside DEF MoveSound
    <3> QED BY <2>2, <2>6, <3>1 DEF MoveSound
  <2> QED BY <2>1, <2>3, <2>4, <2>5, <2>6 DEF Kind
<1> QED BY <1>1, <1>2

LEMMA RestoreSound ==
  ASSUME QueueInv, OnceInv, Arrays, Sound, ~EarlyCalls,
         QueueRestart \/ StoreList \/ RestoreReturn \/ Resume
  PROVE  Sound'
<1>1. CASE QueueRestart
  <2>1. /\ boot' = "listing" /\ cur' = NoArray /\ op' = [c \in Caller |-> Idle]
        /\ UNCHANGED <<rows, accepted, taken>>
    BY <1>1 DEF QueueRestart
  <2>2. NothingLost'
    BY <2>1, TableHasAll DEF NothingLost, Sound
  <2> QED BY <2>1, <2>2 DEF Sound, Alone
<1>2. CASE StoreList
  <2>1. /\ boot = "listing" /\ boot' = "listed" /\ listed' = rows
        /\ UNCHANGED <<rows, cur, op, accepted, taken>>
    BY <1>2 DEF StoreList
  <2> QED BY <2>1 DEF Sound, Alone, NothingLost
<1>3. CASE RestoreReturn
  <2>1. /\ boot = "listed" /\ boot' = "ready" /\ heap' = [heap EXCEPT ![Boot] = listed]
        /\ cur' = (IF listed = <<>> THEN NoArray ELSE Boot)
        /\ UNCHANGED <<rows, op, accepted, taken>>
    BY <1>3 DEF RestoreReturn
  <2>2. (\A c \in Caller : op'[c] = Idle) /\ listed = rows
    BY <2>1 DEF OnceInv, Restoring, Sound
  <2>3. Boot \in ArrayRef /\ Boot # NoArray /\ heap \in [ArrayRef -> Seq(Turn \cup {Hole})]
    BY DEF ArrayRef, Boot, NoArray, QueueInv, QueueTypeOK
  <2>4. Mem' = rows'
    BY <2>1, <2>2, <2>3 DEF Mem
  <2>5. NothingLost'
    BY <2>1, <2>4 DEF NothingLost, Sound
  <2> QED BY <2>1, <2>2, <2>4, <2>5, SoundAtRest
<1>4. CASE Resume
  <2>1. UNCHANGED <<rows, heap, cur, boot, listed, op, accepted, taken>>
    BY <1>4 DEF Resume
  <2> QED BY <2>1 DEF Sound, Alone, NothingLost, MirrorsStore, Quiet, Mem, PushSound,
                      RemoveSound, MoveSound
<1> QED BY <1>1, <1>2, <1>3, <1>4

-----------------------------------------------------------------------------
(* The theorem *)

LEMMA SoundStep ==
  ASSUME QueueInv, OnceInv, Arrays, Sound, ~EarlyCalls, QueueNext, ~Disturbing
  PROVE  Sound'
<1>1. /\ ~(Cardinality(InFlight(op')) > 1)
      /\ \A c \in Caller : ~CallRejects(c) /\ (StorePush(c) => ~Repeats(c))
  BY DEF Disturbing
<1>2. ASSUME NEW c \in Caller, ShiftBegin(c) PROVE Sound'
  <2>1. Mem \in Seq(Turn \cup {Hole})
    BY DEF QueueInv, QueueTypeOK, Mem
  <2>2. Head(Mem) \in Turn /\ RemoveBegin(c, Head(Mem))
    BY <1>2, <2>1 DEF ShiftBegin
  <2> QED BY <1>1, <2>2, RemoveBeginSound
<1>3. ASSUME NEW c \in Caller, NEW t \in Turn,
             \/ PushBegin(c, t) \/ RemoveBegin(c, t) \/ PrioritizeBegin(c, t)
             \/ \E up \in BOOLEAN : ReorderBegin(c, t, up)
      PROVE  Sound'
  BY <1>1, <1>3, PushBeginSound, RemoveBeginSound, PrioritizeBeginSound, ReorderBeginSound
<1>4. ASSUME NEW c \in Caller, StoreStep(c) \/ ReturnStep(c) PROVE Sound'
  BY <1>1, <1>4, StorePushSound, StoreRemoveSound, StorePrioritizeSound, StoreReorderSound,
     ReturnSound DEF StoreStep
<1> QED BY <1>1, <1>2, <1>3, <1>4, RestoreSound DEF QueueNext

\* The mirror is the table whenever no operation is in flight, and no prompt a
\* caller was told is queued has left both, through any number of operations,
\* restarts and restores, for as long as no two operations overlapped, none
\* failed and none repeated a key.
THEOREM MirrorHolds ==
  ASSUME ~EarlyCalls PROVE OverlapSpec => []SoundUndisturbed
<1>1. OverlapInit => OverlapInv
  <2> SUFFICES ASSUME OverlapInit PROVE OverlapInv
    OBVIOUS
  <2>1. QueueInv /\ OnceInv
    BY QueueInvInit, OnceInit DEF OverlapInit
  <2>2. Arrays
    BY DEF OverlapInit, QueueInit, Arrays, Idle, ArrayRef
  <2>3. Sound
    BY DEF OverlapInit, QueueInit, Sound, Alone, NothingLost
  <2> QED BY <2>1, <2>2, <2>3 DEF OverlapInv
<1>2. OverlapInv /\ [OverlapNext]_overlapVars => OverlapInv'
  <2> SUFFICES ASSUME OverlapInv, [OverlapNext]_overlapVars PROVE OverlapInv'
    OBVIOUS
  <2>1. [QueueNext]_queueVars
    BY DEF OverlapNext, overlapVars, queueVars
  <2>2. QueueInv' /\ OnceInv' /\ Arrays'
    BY <2>1, QueueInvStep, OnceStep, ArraysStep DEF OverlapInv
  <2>3. CASE UNCHANGED overlapVars
    BY <2>2, <2>3
       DEF overlapVars, queueVars, OverlapInv, Sound, Alone, NothingLost, MirrorsStore, Quiet,
           Mem, PushSound, RemoveSound, MoveSound
  <2>4. CASE OverlapNext
    <3>1. ~disturbed' => ~disturbed /\ ~Disturbing /\ QueueNext
      BY <2>4 DEF OverlapNext
    <3> QED BY <2>2, <3>1, SoundStep DEF OverlapInv
  <2> QED BY <2>3, <2>4
<1>3. OverlapInv => SoundUndisturbed
  BY DEF OverlapInv, SoundUndisturbed, Sound, MirrorsStore, Quiet
<1> QED BY <1>1, <1>2, <1>3, PTL DEF OverlapSpec

-----------------------------------------------------------------------------
(***************************************************************************)
(* The Agent Host.  What is proved of the queue holds in it: a step of the *)
(* host is a step of the queue, or leaves the queue alone, or issues the   *)
(* id of a prompt that never enters the queue.                             *)
(***************************************************************************)

\* A prompt is run without having been queued.
Bypass(t) ==
  /\ t \notin issued /\ issued' = issued \cup {t}
  /\ UNCHANGED <<rows, heap, cur, held, boot, listed, op, accepted, taken, claims, restarts>>

Elsewhere == \E t \in Turn : Bypass(t)

LEMMA HostStepsQueue ==
  ASSUME QueueTypeOK, [HostNext]_vars
  PROVE  [QueueNext]_queueVars \/ Elsewhere
<1>1. Client \subseteq Caller /\ Drainer \in Caller
  BY HostAssumption DEF Client
<1>2. ASSUME NEW c \in Client, NEW t \in Turn, ClientCall(c, t)
      PROVE  [QueueNext]_queueVars \/ Elsewhere
  <2>1. CASE StartQueued(c, t) \/ SteerBegin(c, t) \/ CancelBegin(c, t) \/ SendNow(c, t)
    BY <1>1, <2>1 DEF StartQueued, SteerBegin, CancelBegin, SendNow, QueueNext
  <2>2. CASE StartDirect(c, t)
    BY <2>2 DEF StartDirect, Elsewhere, Bypass
  <2>3. CASE CancelStarting(c, t) \/ SendNowMiss(c, t)
    BY <2>3 DEF CancelStarting, SendNowMiss
  <2> QED BY <1>2, <2>1, <2>2, <2>3 DEF ClientCall
<1>3. ASSUME NEW c \in Client, ClientReturn(c) \/ ClientRejected(c)
      PROVE  [QueueNext]_queueVars
  <2>1. CASE QueuedReturn(c) \/ RemovedReturn(c) \/ SendNowReturn(c) \/ ClientRejected(c)
    BY <1>1, <2>1 DEF QueuedReturn, RemovedReturn, SendNowReturn, ClientRejected, QueueNext, ReturnStep
  <2>2. CASE DirectReturn(c) \/ DirectRejected(c)
    BY <2>2 DEF DirectReturn, DirectRejected
  <2> QED BY <1>3, <2>1, <2>2 DEF ClientReturn
<1>4. ASSUME DrainStep \/ DrainLost PROVE [QueueNext]_queueVars
  <2>1. CASE ResumeHeld
    <3>1. Resume /\ held \in BOOLEAN
      BY <2>1 DEF ResumeHeld, QueueTypeOK
    <3>2. CASE held
      BY <3>1, <3>2 DEF QueueNext
    <3>3. CASE ~held
      BY <3>1, <3>3 DEF Resume, queueVars
    <3> QED BY <3>2, <3>3
  <2>2. CASE DrainEnter
    BY <1>1, <2>2 DEF DrainEnter, QueueNext
  <2>3. CASE DrainShifted \/ DrainLost
    BY <1>1, <2>3 DEF DrainShifted, DrainLost, QueueNext, ReturnStep
  <2>4. CASE DrainStarted \/ DrainAborts \/ DrainAborted \/ DrainFailed
    BY <2>4 DEF DrainStarted, DrainAborts, DrainAborted, DrainFailed
  <2> QED BY <1>4, <2>1, <2>2, <2>3, <2>4 DEF DrainStep
<1>5. ASSUME NEW c \in Caller, MainAccepts(c) \/ MainRefuses(c) PROVE UNCHANGED queueVars
  BY <1>5 DEF MainAccepts, MainRefuses
<1>6. ASSUME NEW t \in Turn, LocalPrompt(t) PROVE Elsewhere
  BY <1>6 DEF LocalPrompt, Elsewhere, Bypass
<1>7. ASSUME \/ \E c \in Client, i \in Id : Interrupt(c, i)
             \/ Attach \/ RunEnds \/ ReadEvent \/ FinishDone \/ SidecarExit \/ PlanningChanges
             \/ UNCHANGED vars
      PROVE  UNCHANGED queueVars
  BY <1>7 DEF Interrupt, Attach, RunEnds, ReadEvent, IngestStart, IngestEnd, IngestError,
              FinishDone, SidecarExit, PlanningChanges, vars
<1>8. ASSUME StoreWorks \/ HostRestart PROVE QueueNext
  BY <1>8 DEF StoreWorks, HostRestart, QueueNext
<1> QED BY <1>2, <1>3, <1>4, <1>5, <1>6, <1>7, <1>8 DEF HostNext

LEMMA BypassKeeps ==
  ASSUME QueueInv, Elsewhere
  PROVE  QueueInv' /\ (OnceInv => OnceInv')
<1>1. PICK t \in Turn : Bypass(t)
  BY DEF Elsewhere
<1>2. UNCHANGED <<rows, heap, cur, held, boot, listed, op, accepted, taken, claims, restarts>>
  BY <1>1 DEF Bypass
<1>3. issued' = issued \cup {t}
  BY <1>1 DEF Bypass
<1>4. QueueTypeOK' /\ Issued'
  BY <1>2, <1>3 DEF QueueInv, QueueTypeOK, Issued
<1>5. PushedAfresh' /\ Deleted' /\ Placed' /\ ClaimedLeftStore' /\ NoTwice(rows)'
  BY <1>2 DEF QueueInv, PushedAfresh, Pushing, Nowhere, Deleted, Placed, ClaimedLeftStore, NoTwice
<1>6. OnceInv => OnceInv'
  BY <1>2 DEF OnceInv, Carried, Carries, Mirrored, Distinct, Restoring, NoTwice, ClaimedOnce
<1> QED BY <1>4, <1>5, <1>6 DEF QueueInv

LEMMA HostKeepsQueue ==
  ASSUME QueueInv, [HostNext]_vars
  PROVE  QueueInv' /\ (OnceInv /\ ~EarlyCalls => OnceInv')
<1>1. [QueueNext]_queueVars \/ Elsewhere
  BY HostStepsQueue DEF QueueInv
<1> QED BY <1>1, QueueInvStep, OnceStep, BypassKeeps

LEMMA HostHasQueueInv == HostSpec => []QueueInv
<1>1. HostInit => QueueInv
  BY QueueInvInit DEF HostInit
<1>2. QueueInv /\ [HostNext]_vars => QueueInv'
  BY HostKeepsQueue
<1> QED BY <1>1, <1>2, PTL DEF HostSpec

LEMMA HostHasOnceInv == ASSUME ~EarlyCalls PROVE HostSpec => [](QueueInv /\ OnceInv)
<1>1. HostInit => QueueInv /\ OnceInv
  BY QueueInvInit, OnceInit DEF HostInit
<1>2. QueueInv /\ OnceInv /\ [HostNext]_vars => (QueueInv /\ OnceInv)'
  BY HostKeepsQueue
<1> QED BY <1>1, <1>2, PTL DEF HostSpec

-----------------------------------------------------------------------------
(* Restored prompts wait *)

\* Somebody writes or is about to write the array that the restore made.
UsesBoot == cur = Boot \/ \E c \in Caller : op[c].kind # "idle" /\ op[c].arr = Boot

\* There is no such array before the restore has returned, and once there is,
\* it is held or a client has come.
WaitInv == (UsesBoot => held \/ attended) /\ (boot # "ready" => ~UsesBoot)

\* A step that does not come closer to that array.
LEMMA WaitKept ==
  ASSUME WaitInv, UsesBoot' => UsesBoot, held' = held, attended' = attended, boot' = boot
  PROVE  WaitInv'
BY DEF WaitInv

LEMMA UsesBootStep ==
  ASSUME QueueInv, [QueueNext]_queueVars, ~QueueRestart, ~RestoreReturn
  PROVE  UsesBoot' => UsesBoot
<1>1. op \in [Caller -> Call] /\ cur \in ArrayRef \cup {NoArray} /\ Boot \notin Turn /\ Boot # NoArray
  BY QueueAssumption DEF QueueInv, QueueTypeOK, Boot, NoArray
<1>2. ASSUME NEW c \in Caller, NEW x,
             op' = [op EXCEPT ![c] = x], cur' \in {cur, NoArray}, x.arr = Boot => cur = Boot
      PROVE  UsesBoot' => UsesBoot
  <2>1. op'[c] = x /\ \A d \in Caller \ {c} : op'[d] = op[d]
    BY <1>1, <1>2
  <2> QED BY <1>1, <1>2, <2>1 DEF UsesBoot
<1>3. ASSUME NEW c \in Caller, NEW t \in Turn, PushBegin(c, t) PROVE UsesBoot' => UsesBoot
  <2> DEFINE x == Sent("push", t, IF cur = NoArray THEN t ELSE cur, 0, 0)
  <2>1. op' = [op EXCEPT ![c] = x] /\ cur' = cur /\ (x.arr = Boot => cur = Boot)
    BY <1>1, <1>3 DEF PushBegin, Sent
  <2> HIDE DEF x
  <2> QED BY <1>2, <2>1
<1>4. ASSUME NEW c \in Caller, NEW t \in Turn, RemoveBegin(c, t) PROVE UsesBoot' => UsesBoot
  <2> DEFINE x == Sent("remove", t, cur, 0, 0)
  <2>1. op' = [op EXCEPT ![c] = x] /\ cur' \in {cur, NoArray} /\ (x.arr = Boot => cur = Boot)
    BY <1>1, <1>4 DEF RemoveBegin, Sent
  <2> HIDE DEF x
  <2> QED BY <1>2, <2>1
<1>5. ASSUME NEW c \in Caller, NEW t \in Turn, PrioritizeBegin(c, t) PROVE UsesBoot' => UsesBoot
  <2>1. PICK i : op' = [op EXCEPT ![c] = Sent("prioritize", t, cur, i, 0)]
    BY <1>5 DEF PrioritizeBegin
  <2> DEFINE x == Sent("prioritize", t, cur, i, 0)
  <2>2. op' = [op EXCEPT ![c] = x] /\ cur' = cur /\ (x.arr = Boot => cur = Boot)
    BY <1>1, <1>5, <2>1 DEF PrioritizeBegin, Sent
  <2> HIDE DEF x
  <2> QED BY <1>2, <2>2
<1>6. ASSUME NEW c \in Caller, NEW t \in Turn, NEW up \in BOOLEAN, ReorderBegin(c, t, up)
      PROVE  UsesBoot' => UsesBoot
  <2>1. PICK i, j : op' = [op EXCEPT ![c] = Sent("reorder", t, cur, i, j)]
    BY <1>6 DEF ReorderBegin
  <2> DEFINE x == Sent("reorder", t, cur, i, j)
  <2>2. op' = [op EXCEPT ![c] = x] /\ cur' = cur /\ (x.arr = Boot => cur = Boot)
    BY <1>1, <1>6, <2>1 DEF ReorderBegin, Sent
  <2> HIDE DEF x
  <2> QED BY <1>2, <2>2
<1>7. ASSUME NEW c \in Caller, StoreStep(c) PROVE UsesBoot' => UsesBoot
  <2>1. \E p : op' = [op EXCEPT ![c].phase = p]
    BY <1>7 DEF StoreStep, StorePush, StoreRemove, StorePrioritize, StoreReorder
  <2>2. cur' = cur
    BY <1>7 DEF StoreStep, StorePush, StoreRemove, StorePrioritize, StoreReorder
  <2>3. \A d \in Caller : op'[d].kind = op[d].kind /\ op'[d].arr = op[d].arr
    BY <1>1, <2>1 DEF Call
  <2> QED BY <2>2, <2>3 DEF UsesBoot
<1>8. ASSUME NEW c \in Caller, ReturnStep(c) \/ CallRejects(c) PROVE UsesBoot' => UsesBoot
  <2>1. op' = [op EXCEPT ![c] = Idle]
    BY <1>8 DEF ReturnStep, PushReturn, RemoveReturn, PrioritizeReturn, ReorderReturn, CallRejects
  <2>2. cur' = cur \/ (cur' = op[c].arr /\ op[c].kind = "push")
    BY <1>8 DEF ReturnStep, PushReturn, RemoveReturn, PrioritizeReturn, ReorderReturn, CallRejects
  <2>3. \A d \in Caller : op'[d].kind # "idle" => op'[d] = op[d]
    BY <1>1, <2>1 DEF Idle
  <2> QED BY <2>2, <2>3 DEF UsesBoot
<1>9. CASE StoreList \/ Resume \/ UNCHANGED queueVars
  BY <1>9 DEF StoreList, Resume, queueVars, UsesBoot
<1>10. ASSUME NEW c \in Caller, ShiftBegin(c) PROVE UsesBoot' => UsesBoot
  <2>1. Mem \in Seq(Turn \cup {Hole})
    BY DEF QueueInv, QueueTypeOK, Mem
  <2>2. Head(Mem) \in Turn /\ RemoveBegin(c, Head(Mem))
    BY <1>10, <2>1 DEF ShiftBegin
  <2> QED BY <2>2, <1>4
<1> QED BY <1>3, <1>4, <1>5, <1>6, <1>7, <1>8, <1>9, <1>10 DEF QueueNext

\* Whatever else happens, the queue stays held or released, restored or not.
LEMMA HeldStays ==
  ASSUME HostNext, ~HostRestart, ~StoreWorks, ~ResumeHeld
  PROVE  UNCHANGED <<held, boot, attended, restarts>>
<1>1. ASSUME NEW c \in Client, NEW t \in Turn, ClientCall(c, t)
      PROVE  UNCHANGED <<held, boot, attended, restarts>>
  <2>1. CASE StartQueued(c, t) \/ SteerBegin(c, t) \/ CancelBegin(c, t) \/ SendNow(c, t)
    BY <2>1 DEF StartQueued, SteerBegin, CancelBegin, SendNow, PushBegin, RemoveBegin,
                PrioritizeBegin, hostVars
  <2>2. CASE StartDirect(c, t) \/ CancelStarting(c, t) \/ SendNowMiss(c, t)
    BY <2>2 DEF StartDirect, CancelStarting, SendNowMiss, queueVars, loopState
  <2> QED BY <1>1, <2>1, <2>2 DEF ClientCall
<1>2. ASSUME NEW c \in Client, ClientReturn(c) \/ ClientRejected(c)
      PROVE  UNCHANGED <<held, boot, attended, restarts>>
  BY <1>2 DEF ClientReturn, ClientRejected, QueuedReturn, DirectReturn, DirectRejected,
              RemovedReturn, SendNowReturn, PushReturn, RemoveReturn, PrioritizeReturn,
              CallRejects, queueVars
<1>3. ASSUME DrainStep \/ DrainLost PROVE UNCHANGED <<held, boot, attended, restarts>>
  <2>1. CASE DrainEnter
    BY <2>1 DEF DrainEnter, ShiftBegin, RemoveBegin, queueVars
  <2>2. CASE DrainShifted \/ DrainLost
    BY <2>2 DEF DrainShifted, DrainLost, RemoveReturn, CallRejects
  <2>3. CASE DrainStarted \/ DrainAborts \/ DrainAborted \/ DrainFailed
    BY <2>3 DEF DrainStarted, DrainAborts, DrainAborted, DrainFailed, queueVars
  <2> QED BY <1>3, <2>1, <2>2, <2>3 DEF DrainStep
<1>4. ASSUME NEW c \in Caller, MainAccepts(c) \/ MainRefuses(c)
      PROVE  UNCHANGED <<held, boot, attended, restarts>>
  BY <1>4 DEF MainAccepts, MainRefuses, queueVars
<1>5. ASSUME \/ \E c \in Client, i \in Id : Interrupt(c, i)
             \/ \E t \in Turn : LocalPrompt(t)
             \/ Attach \/ RunEnds \/ ReadEvent \/ FinishDone \/ SidecarExit \/ PlanningChanges
      PROVE  UNCHANGED <<held, boot, attended, restarts>>
  BY <1>5 DEF Interrupt, LocalPrompt, Attach, RunEnds, ReadEvent, IngestStart, IngestEnd,
              IngestError, FinishDone, SidecarExit, PlanningChanges, loopState, queueVars
<1> QED BY <1>1, <1>2, <1>3, <1>4, <1>5 DEF HostNext

LEMMA WaitStep ==
  ASSUME QueueInv, WaitInv, [HostNext]_vars
  PROVE  WaitInv'
<1>1. CASE HostRestart
  <2>1. cur' = NoArray /\ \A c \in Caller : op'[c].kind = "idle"
    BY <1>1 DEF HostRestart, QueueRestart, Idle
  <2>2. ~UsesBoot'
    BY <2>1 DEF UsesBoot, NoArray, Boot
  <2> QED BY <2>2 DEF WaitInv
<1>2. CASE StoreWorks
  <2>1. attended' = attended
    BY <1>2 DEF StoreWorks, hostVars
  <2>2. CASE \E c \in Caller : StoreStep(c)
    <3>1. UNCHANGED <<held, boot, restarts>> /\ restarts \in Nat
      BY <2>2, QueueAssumption DEF StoreStep, StorePush, StoreRemove, StorePrioritize,
                                   StoreReorder, QueueInv, QueueTypeOK
    <3>2. ~QueueRestart /\ ~RestoreReturn
      BY <3>1 DEF QueueRestart, RestoreReturn
    <3>3. QueueNext
      BY <2>2 DEF QueueNext
    <3> QED BY <2>1, <3>1, <3>2, <3>3, UsesBootStep, WaitKept
  <2>3. CASE StoreList
    <3>1. boot # "ready" /\ UNCHANGED <<cur, op, held>>
      BY <2>3 DEF StoreList
    <3> QED BY <2>1, <3>1 DEF WaitInv, UsesBoot
  <2>4. CASE RestoreReturn
    <3>1. /\ boot # "ready" /\ boot' = "ready" /\ op' = op
          /\ cur' = Boot => held'
      BY <2>4 DEF RestoreReturn, Boot, NoArray
    <3> QED BY <2>1, <3>1 DEF WaitInv, UsesBoot
  <2> QED BY <1>2, <2>2, <2>3, <2>4 DEF StoreWorks
<1>3. CASE ResumeHeld
  <2>1. attended' /\ UNCHANGED <<cur, op, boot>>
    BY <1>3 DEF ResumeHeld, Resume
  <2> QED BY <2>1 DEF WaitInv, UsesBoot
<1>4. CASE UNCHANGED vars
  BY <1>4 DEF vars, queueVars, hostVars, WaitInv, UsesBoot
<1>5. CASE HostNext /\ ~HostRestart /\ ~StoreWorks /\ ~ResumeHeld
  <2>1. UNCHANGED <<held, boot, attended, restarts>> /\ restarts \in Nat
    BY <1>5, HeldStays, QueueAssumption DEF QueueInv, QueueTypeOK
  <2>2. ~QueueRestart /\ ~RestoreReturn
    BY <2>1 DEF QueueRestart, RestoreReturn
  <2>3. Elsewhere => (UsesBoot' => UsesBoot)
    BY DEF Elsewhere, Bypass, UsesBoot
  <2>4. UsesBoot' => UsesBoot
    BY <2>2, <2>3, HostStepsQueue, UsesBootStep DEF QueueInv
  <2> QED BY <2>1, <2>4, WaitKept
<1> QED BY <1>1, <1>2, <1>3, <1>4, <1>5

\* The drain loop takes a record when drain() is entered, and then the queue is
\* not held.
LEMMA DrainTakes ==
  ASSUME QueueInv, HostNext, op[Drainer] = Idle, op'[Drainer] # Idle
  PROVE  ~held
<1>1. op \in [Caller -> Call] /\ Drainer \in Caller /\ Client = Caller \ {Drainer} /\ Idle.kind = "idle"
      /\ Idle.phase = "none"
  BY HostAssumption DEF QueueInv, QueueTypeOK, Client, Idle
<1>2. \A c \in Client : \A x : op' # [op EXCEPT ![c] = x]
  BY <1>1
<1>3. op' # op /\ op' # [op EXCEPT ![Drainer] = Idle] /\ op' # [c \in Caller |-> Idle]
  BY <1>1
<1>4. ASSUME NEW c \in Client, NEW t \in Turn, ClientCall(c, t) PROVE FALSE
  <2>1. CASE StartQueued(c, t) \/ SteerBegin(c, t) \/ CancelBegin(c, t) \/ SendNow(c, t)
    BY <1>2, <2>1 DEF StartQueued, SteerBegin, CancelBegin, SendNow, PushBegin, RemoveBegin,
                      PrioritizeBegin
  <2>2. CASE StartDirect(c, t) \/ CancelStarting(c, t) \/ SendNowMiss(c, t)
    BY <1>3, <2>2 DEF StartDirect, CancelStarting, SendNowMiss, queueVars
  <2> QED BY <1>4, <2>1, <2>2 DEF ClientCall
<1>5. ASSUME NEW c \in Client, ClientReturn(c) \/ ClientRejected(c) PROVE FALSE
  <2>1. op' = op \/ op' = [op EXCEPT ![c] = Idle]
    BY <1>5 DEF ClientReturn, ClientRejected, QueuedReturn, DirectReturn, DirectRejected,
                RemovedReturn, SendNowReturn, PushReturn, RemoveReturn, PrioritizeReturn,
                CallRejects, queueVars
  <2> QED BY <1>2, <1>3, <2>1
<1>6. ASSUME DrainStep \/ DrainLost PROVE ~held
  <2>1. CASE DrainEnter
    BY <1>3, <2>1 DEF DrainEnter, CanShift, queueVars
  <2>2. CASE DrainShifted \/ DrainLost
    BY <1>3, <2>2 DEF DrainShifted, DrainLost, RemoveReturn, CallRejects
  <2>3. CASE DrainStarted \/ DrainAborts \/ DrainAborted \/ DrainFailed \/ ResumeHeld
    BY <1>3, <2>3 DEF DrainStarted, DrainAborts, DrainAborted, DrainFailed, ResumeHeld, Resume,
                      queueVars
  <2> QED BY <1>6, <2>1, <2>2, <2>3 DEF DrainStep
<1>7. ASSUME NEW c \in Caller, MainAccepts(c) \/ MainRefuses(c) PROVE FALSE
  BY <1>3, <1>7 DEF MainAccepts, MainRefuses, queueVars
<1>8. ASSUME \/ \E c \in Client, i \in Id : Interrupt(c, i)
             \/ \E t \in Turn : LocalPrompt(t)
             \/ Attach \/ RunEnds \/ ReadEvent \/ FinishDone \/ SidecarExit \/ PlanningChanges
      PROVE  FALSE
  BY <1>3, <1>8 DEF Interrupt, LocalPrompt, Attach, RunEnds, ReadEvent, IngestStart, IngestEnd,
                    IngestError, FinishDone, SidecarExit, PlanningChanges, queueVars
<1>9. ASSUME StoreWorks \/ HostRestart PROVE FALSE
  <2>1. ASSUME NEW c \in Caller, StoreStep(c) PROVE FALSE
    <3>1. op[c].phase = "sent" /\ \E p : op' = [op EXCEPT ![c].phase = p]
      BY <2>1 DEF StoreStep, StorePush, StoreRemove, StorePrioritize, StoreReorder
    <3>2. c \in Client
      BY <1>1, <3>1
    <3>3. op'[Drainer] = op[Drainer]
      BY <1>1, <3>1, <3>2
    <3> QED BY <3>3
  <2>2. CASE StoreList \/ RestoreReturn \/ HostRestart
    BY <1>3, <2>2 DEF StoreList, RestoreReturn, HostRestart, QueueRestart
  <2> QED BY <1>9, <2>1, <2>2 DEF StoreWorks
<1> QED BY <1>4, <1>5, <1>6, <1>7, <1>8, <1>9 DEF HostNext

\* No prompt that a restart restored is taken to be run before a controller has
\* attached or sent a turn now, for any number of clients, restarts, crashes and
\* lost answers, calls before the restore included.
THEOREM RestoredPromptsWait == HostSpec => RestoredWaits
<1>1. HostInit => QueueInv /\ WaitInv
  <2> SUFFICES ASSUME HostInit PROVE QueueInv /\ WaitInv
    OBVIOUS
  <2>1. cur = NoArray /\ \A c \in Caller : op[c].kind = "idle"
    BY DEF HostInit, QueueInit, Idle
  <2> QED BY <2>1, QueueInvInit DEF HostInit, WaitInv, UsesBoot, NoArray, Boot
<1>2. QueueInv /\ WaitInv /\ [HostNext]_vars => (QueueInv /\ WaitInv)'
  BY HostKeepsQueue, WaitStep
<1>3. QueueInv /\ WaitInv /\ [HostNext]_vars
        => [op[Drainer] = Idle /\ op'[Drainer] # Idle /\ cur = Boot => attended]_vars
  BY DrainTakes DEF WaitInv, UsesBoot
<1> QED BY <1>1, <1>2, <1>3, PTL DEF HostSpec, RestoredWaits

-----------------------------------------------------------------------------
(* Types of the Agent Host *)

TurnTypes ==
  /\ status \in [Id -> Status] /\ active \in Id \cup {NoTurn}
  /\ alias \subseteq Turn /\ idem \subseteq Turn

LoopTypes ==
  /\ drain \in {"off", "shifting", "prompting", "aborting"}
  /\ wake \in {"no", "drain", "resume"}
  /\ port \in [Caller -> [phase : {"none", "sent", "ok", "failed"}, turn : Turn \cup {NoTurn}]]
  /\ \A c \in Caller : port[c].phase # "none" => port[c].turn \in Turn
  /\ job \in [Client -> {"none", "steer", "cancel"}]
  /\ planning \in BOOLEAN /\ late \in BOOLEAN /\ attended \in BOOLEAN

Event == [type : {"start", "end", "error"}, turn : Turn]
RunTypes ==
  /\ main \in [run : Turn \cup {NoTurn}, phase : {"none", "open", "closing"}]
  /\ streaming \in Turn \cup {NoTurn} /\ wire \in Seq(Event)
  /\ crashes \in 0..MaxCrashes

UsedType == used \in [Turn -> Nat]

\* A prompt that is waited for is a prompt.
HostTypes == TurnTypes /\ LoopTypes /\ RunTypes /\ UsedType

\* Who has a record in hand.
LEMMA CallsNameTurns ==
  ASSUME QueueInv, NEW c \in Caller, op[c].kind # "idle"
  PROVE  op[c].id \in Turn
BY DEF QueueInv, Issued, QueueTypeOK

LEMMA ResolvesToId ==
  ASSUME QueueInv, TurnTypes, NEW t \in Turn
  PROVE  Resolve(t) \in Id
<1>1. Mem \in Seq(Turn \cup {Hole})
  BY DEF QueueInv, QueueTypeOK, Mem
<1>2. Mem # <<>> /\ Head(Mem) # Hole => Head(Mem) \in Turn
  BY <1>1
<1> QED BY <1>2 DEF Resolve, Id, Run, RunId

LEMMA EventsAreTyped ==
  ASSUME RunTypes, wire # <<>>
  PROVE  Head(wire) \in Event /\ Head(wire).turn \in Turn /\ Tail(wire) \in Seq(Event)
<1>1. Head(wire) \in Event /\ Tail(wire) \in Seq(Event)
  BY HeadTailProperties DEF RunTypes
<1> QED BY <1>1 DEF Event

LEMMA TurnTypesStep ==
  ASSUME QueueInv, HostTypes, [HostNext]_vars
  PROVE  TurnTypes'
<1>1. /\ Client \subseteq Caller /\ Drainer \in Caller
      /\ Turn \subseteq Id /\ \A t \in Turn : RunId(t) \in Id
  BY HostAssumption DEF Client, Id, Run
<1>2. TurnTypes /\ LoopTypes /\ RunTypes
  BY DEF HostTypes
<1>3. CASE UNCHANGED turnState
  BY <1>2, <1>3 DEF turnState, TurnTypes
<1>4. ASSUME NEW i \in Id, NEW s \in Status, status' = [status EXCEPT ![i] = s],
             active' \in Id \cup {NoTurn}, alias' \subseteq Turn, idem' \subseteq Turn
      PROVE  TurnTypes'
  BY <1>2, <1>4 DEF TurnTypes
<1>5. ASSUME NEW c \in Client, NEW t \in Turn, ClientCall(c, t) PROVE TurnTypes'
  <2>1. CASE CancelStarting(c, t)
    BY <1>1, <1>2, <1>4, <2>1 DEF CancelStarting, TurnTypes, Status
  <2>2. CASE ~CancelStarting(c, t)
    BY <1>3, <1>5, <2>2 DEF ClientCall, StartQueued, StartDirect, SteerBegin, CancelBegin, SendNow,
                            SendNowMiss, hostVars, turnState
  <2> QED BY <2>1, <2>2
<1>6. ASSUME NEW c \in Client, ClientReturn(c) \/ ClientRejected(c) PROVE TurnTypes'
  <2>1. CASE QueuedReturn(c)
    <3>1. op[c].id \in Turn
      BY <1>1, <2>1, CallsNameTurns DEF QueuedReturn, PushReturn
    <3> QED BY <1>1, <1>2, <1>4, <2>1, <3>1 DEF QueuedReturn, TurnTypes, Status
  <2>2. CASE DirectReturn(c)
    <3>1. port[c].turn \in Turn
      BY <1>1, <1>2, <2>2 DEF DirectReturn, LoopTypes
    <3> QED BY <1>1, <1>2, <1>4, <2>2, <3>1 DEF DirectReturn, TurnTypes, Status
  <2>3. CASE RemovedReturn(c)
    <3>1. op[c].id \in Turn
      BY <1>1, <2>3, CallsNameTurns DEF RemovedReturn, RemoveReturn
    <3> QED BY <1>1, <1>2, <1>4, <2>3, <3>1 DEF RemovedReturn, TurnTypes, Status
  <2>4. CASE DirectRejected(c) \/ SendNowReturn(c) \/ ClientRejected(c)
    BY <1>3, <2>4 DEF DirectRejected, SendNowReturn, ClientRejected
  <2> QED BY <1>6, <2>1, <2>2, <2>3, <2>4 DEF ClientReturn
<1>7. CASE Attach
  <2>1. status' = [i \in Id |-> IF status[i] = "unknown" /\ i \in ToSet(Mem)
                                THEN "queued" ELSE status[i]]
        /\ UNCHANGED <<active, alias, idem>>
    BY <1>7 DEF Attach
  <2>2. status' \in [Id -> Status]
    BY <1>2, <2>1 DEF TurnTypes, Status
  <2> QED BY <1>2, <2>1, <2>2 DEF TurnTypes
<1>8. ASSUME DrainStep \/ DrainLost PROVE TurnTypes'
  <2>1. CASE DrainShifted
    <3>1. op[Drainer].id \in Turn
      BY <1>1, <2>1, CallsNameTurns DEF DrainShifted, RemoveReturn
    <3>2. (IF status[op[Drainer].id] = "unknown" THEN "queued" ELSE status[op[Drainer].id]) \in Status
      BY <1>1, <1>2, <3>1 DEF TurnTypes, Status
    <3> QED BY <1>1, <1>2, <2>1, <3>1, <3>2 DEF DrainShifted, TurnTypes
  <2>2. CASE DrainStarted
    <3>1. port[Drainer].turn \in Turn
      BY <1>1, <1>2, <2>2 DEF DrainStarted, Prompted, LoopTypes
    <3> QED BY <1>1, <1>2, <1>4, <2>2, <3>1 DEF DrainStarted, TurnTypes, Status
  <2>3. CASE DrainFailed
    <3>1. port[Drainer].turn \in Turn
      BY <1>1, <1>2, <2>3 DEF DrainFailed, Prompted, LoopTypes
    <3> QED BY <1>1, <1>2, <1>4, <2>3, <3>1 DEF DrainFailed, TurnTypes, Status
  <2>4. CASE DrainEnter \/ DrainAborts \/ DrainAborted \/ ResumeHeld \/ DrainLost
    BY <1>3, <2>4 DEF DrainEnter, DrainAborts, DrainAborted, ResumeHeld, DrainLost
  <2> QED BY <1>8, <2>1, <2>2, <2>3, <2>4 DEF DrainStep
<1>9. ASSUME ReadEvent PROVE TurnTypes'
  <2> DEFINE i == Resolve(Head(wire).turn)
  <2>1. i \in Id
    BY <1>2, <1>9, EventsAreTyped, ResolvesToId DEF ReadEvent, IngestStart, IngestEnd, IngestError, Read
  <2>2. CASE IngestStart
    <3>1. status' = [status EXCEPT ![i] = "running"] /\ active' = i /\ UNCHANGED <<alias, idem>>
      BY <2>2 DEF IngestStart
    <3> HIDE DEF i
    <3> QED BY <1>2, <1>4, <2>1, <3>1 DEF TurnTypes, Status
  <2>3. ASSUME NEW s \in {"completed", "failed"}, Close(i, s), UNCHANGED <<alias, idem>>
        PROVE  TurnTypes'
    <3> HIDE DEF i
    <3> QED BY <1>2, <1>4, <2>1, <2>3 DEF Close, TurnTypes, Status
  <2>4. CASE IngestEnd
    BY <2>3, <2>4 DEF IngestEnd
  <2>5. CASE IngestError
    <3>1. UNCHANGED <<alias, idem>> /\ (Close(i, "failed") \/ UNCHANGED <<status, active, wake>>)
      BY <2>5 DEF IngestError
    <3> HIDE DEF i
    <3> QED BY <1>3, <2>3, <3>1 DEF turnState
  <2> QED BY <1>9, <2>2, <2>4, <2>5 DEF ReadEvent
<1>10. CASE HostRestart
  BY <1>10 DEF HostRestart, TurnTypes, Status
<1>11. ASSUME \/ \E c \in Client, i \in Id : Interrupt(c, i)
              \/ \E t \in Turn : LocalPrompt(t)
              \/ \E c \in Caller : MainAccepts(c) \/ MainRefuses(c)
              \/ RunEnds \/ FinishDone \/ SidecarExit \/ PlanningChanges
              \/ StoreWorks \/ UNCHANGED vars
       PROVE  UNCHANGED turnState
  BY <1>11 DEF Interrupt, LocalPrompt, MainAccepts, MainRefuses, RunEnds, FinishDone, SidecarExit,
               PlanningChanges, StoreWorks, vars, hostVars, turnState
<1> QED BY <1>3, <1>5, <1>6, <1>7, <1>8, <1>9, <1>10, <1>11 DEF HostNext

LEMMA LoopTypesStep ==
  ASSUME QueueInv, HostTypes, [HostNext]_vars
  PROVE  LoopTypes'
<1>1. Client \subseteq Caller /\ Drainer \in Caller
  BY HostAssumption DEF Client
<1>2. LoopTypes
  BY DEF HostTypes
<1>3. CASE UNCHANGED loopState
  BY <1>2, <1>3 DEF loopState, LoopTypes
\* One slot is given a prompt, or is given back.
<1>4. ASSUME NEW c \in Caller, NEW p \in {"none", "sent", "ok", "failed"}, NEW t \in Turn \cup {NoTurn},
             p # "none" => t \in Turn,
             port' = [port EXCEPT ![c] = [phase |-> p, turn |-> t]],
             drain' \in {drain, "off", "prompting"}, wake' \in {wake, "drain"},
             UNCHANGED <<job, planning, late, attended>>
      PROVE  LoopTypes'
  BY <1>2, <1>4 DEF LoopTypes
<1>5. NoPort = [phase |-> "none", turn |-> NoTurn] /\ NoTurn \in Turn \cup {NoTurn}
  BY DEF NoPort
<1>6. CASE UNCHANGED port /\ UNCHANGED job /\ drain' \in {drain, "off", "shifting", "aborting"}
           /\ wake' \in {wake, "no", "drain", "resume"}
           /\ planning' \in BOOLEAN /\ late' \in BOOLEAN /\ attended' \in BOOLEAN
  BY <1>2, <1>6 DEF LoopTypes
<1>7. ASSUME NEW c \in Client, UNCHANGED <<drain, wake, port, planning, late, attended>>,
             job' \in {[job EXCEPT ![c] = j] : j \in {"none", "steer", "cancel"}}
      PROVE  LoopTypes'
  BY <1>2, <1>7 DEF LoopTypes
<1>8. planning \in BOOLEAN /\ late \in BOOLEAN /\ attended \in BOOLEAN
  BY <1>2 DEF LoopTypes
<1>9. ASSUME NEW c \in Client, NEW t \in Turn, ClientCall(c, t) PROVE LoopTypes'
  <2>1. CASE StartQueued(c, t) \/ SendNow(c, t) \/ CancelStarting(c, t)
    BY <1>3, <2>1 DEF StartQueued, SendNow, CancelStarting, hostVars, loopState
  <2>2. CASE StartDirect(c, t)
    BY <1>1, <1>4, <2>2 DEF StartDirect
  <2>3. CASE SteerBegin(c, t) \/ CancelBegin(c, t)
    BY <1>7, <2>3 DEF SteerBegin, CancelBegin
  <2>4. CASE SendNowMiss(c, t)
    BY <1>6, <1>8, <2>4 DEF SendNowMiss
  <2> QED BY <1>9, <2>1, <2>2, <2>3, <2>4 DEF ClientCall
<1>10. ASSUME NEW c \in Client, ClientReturn(c) \/ ClientRejected(c) PROVE LoopTypes'
  <2>1. CASE QueuedReturn(c)
    <3>1. late' \in BOOLEAN
      BY <1>8, <2>1 DEF QueuedReturn
    <3> QED BY <1>6, <1>8, <2>1, <3>1 DEF QueuedReturn
  <2>2. CASE DirectReturn(c) \/ DirectRejected(c)
    BY <1>1, <1>4, <1>5, <2>2 DEF DirectReturn, DirectRejected
  <2>3. CASE RemovedReturn(c) \/ ClientRejected(c)
    BY <1>7, <2>3 DEF RemovedReturn, ClientRejected
  <2>4. CASE SendNowReturn(c)
    BY <1>6, <1>8, <2>4 DEF SendNowReturn
  <2> QED BY <1>10, <2>1, <2>2, <2>3, <2>4 DEF ClientReturn
<1>11. ASSUME DrainStep \/ DrainLost PROVE LoopTypes'
  <2>1. CASE DrainShifted
    <3>1. op[Drainer].id \in Turn
      BY <1>1, <2>1, CallsNameTurns DEF DrainShifted, RemoveReturn
    <3> QED BY <1>1, <1>4, <2>1, <3>1 DEF DrainShifted
  <2>2. CASE DrainStarted \/ DrainAborted \/ DrainFailed
    BY <1>1, <1>4, <1>5, <2>2 DEF DrainStarted, DrainAborted, DrainFailed
  <2>3. CASE DrainEnter
    BY <1>6, <1>8, <2>3 DEF DrainEnter
  <2>4. CASE DrainAborts \/ ResumeHeld \/ DrainLost
    BY <1>6, <1>8, <2>4 DEF DrainAborts, ResumeHeld, DrainLost
  <2> QED BY <1>11, <2>1, <2>2, <2>3, <2>4 DEF DrainStep
<1>12. ASSUME NEW c \in Caller, MainAccepts(c) \/ MainRefuses(c) PROVE LoopTypes'
  <2>1. PICK p \in {"ok", "failed"} : port' = [port EXCEPT ![c].phase = p]
    BY <1>12 DEF MainAccepts, MainRefuses
  <2>2. port[c].phase = "sent" /\ UNCHANGED <<drain, wake, job, planning, late, attended>>
    BY <1>12 DEF MainAccepts, MainRefuses
  <2> QED BY <1>2, <2>1, <2>2 DEF LoopTypes
<1>13. CASE HostRestart
  <2>1. port' = [c \in Caller |-> NoPort] /\ job' = [c \in Client |-> "none"]
        /\ drain' = "off" /\ wake' = "no" /\ planning' = FALSE /\ late' = FALSE /\ attended' = FALSE
    BY <1>13 DEF HostRestart
  <2> QED BY <1>5, <2>1 DEF LoopTypes
<1>14. CASE Attach \/ ReadEvent \/ FinishDone \/ PlanningChanges
  BY <1>6, <1>8, <1>14
     DEF Attach, ReadEvent, IngestStart, IngestEnd, IngestError, Close, FinishDone,
         PlanningChanges, loopState
<1>15. ASSUME \/ \E c \in Client, i \in Id : Interrupt(c, i)
              \/ \E t \in Turn : LocalPrompt(t)
              \/ RunEnds \/ SidecarExit \/ StoreWorks \/ UNCHANGED vars
       PROVE  UNCHANGED loopState
  BY <1>15 DEF Interrupt, LocalPrompt, RunEnds, SidecarExit, StoreWorks, vars, hostVars, loopState
<1> QED BY <1>3, <1>9, <1>10, <1>11, <1>12, <1>13, <1>14, <1>15 DEF HostNext

\* A run is given to the runtime.
LEMMA StartRunTypes ==
  ASSUME RunTypes, NEW t \in Turn, StartRun(t), crashes' = crashes
  PROVE  RunTypes'
<1> DEFINE e == [type |-> IF streaming = NoTurn THEN "start" ELSE "error", turn |-> t]
<1>1. e \in Event
  BY DEF Event
<1>2. /\ main' = [run |-> t, phase |-> "open"]
      /\ streaming' = IF streaming = NoTurn THEN t ELSE streaming
      /\ wire' = Append(wire, e)
  BY DEF StartRun
<1> HIDE DEF e
<1>3. wire' \in Seq(Event)
  BY <1>1, <1>2, AppendProperties DEF RunTypes
<1> QED BY <1>2, <1>3 DEF RunTypes

LEMMA RunTypesStep ==
  ASSUME QueueInv, HostTypes, [HostNext]_vars
  PROVE  RunTypes'
<1>1. RunTypes /\ LoopTypes
  BY DEF HostTypes
<1>2. CASE UNCHANGED runState
  BY <1>1, <1>2 DEF runState, RunTypes
<1>3. ASSUME main' \in {main, NoMain, [main EXCEPT !.phase = "closing"]},
             wire' \in Seq(Event), streaming' \in {streaming, NoTurn}, crashes' \in 0..MaxCrashes
      PROVE  RunTypes'
  BY <1>1, <1>3 DEF RunTypes, NoMain
<1>4. wire \in Seq(Event) /\ crashes \in 0..MaxCrashes /\ <<>> \in Seq(Event)
  BY <1>1 DEF RunTypes
<1>5. ASSUME NEW c \in Caller, MainAccepts(c) PROVE RunTypes'
  <2>1. port[c].turn \in Turn /\ StartRun(port[c].turn) /\ crashes' = crashes
    BY <1>1, <1>5 DEF MainAccepts, LoopTypes
  <2> QED BY <1>1, <2>1, StartRunTypes
<1>6. ASSUME NEW t \in Turn, LocalPrompt(t) PROVE RunTypes'
  BY <1>1, <1>6, StartRunTypes DEF LocalPrompt
<1>7. CASE RunEnds
  <2>1. PICK tail \in Tails :
          wire' = wire \o [i \in DOMAIN tail |-> [type |-> tail[i], turn |-> streaming]]
    BY <1>7 DEF RunEnds
  <2> DEFINE sent == [i \in DOMAIN tail |-> [type |-> tail[i], turn |-> streaming]]
  <2>2. tail \in Seq({"end", "error"}) /\ streaming \in Turn
    BY <1>1, <1>7, HostAssumption DEF RunEnds, RunTypes
  <2>3. sent \in Seq(Event)
    <3>1. Len(tail) \in Nat /\ DOMAIN tail = 1..Len(tail)
          /\ \A i \in 1..Len(tail) : [type |-> tail[i], turn |-> streaming] \in Event
      BY <2>2 DEF Event
    <3> QED BY <3>1, IsASeq
  <2> HIDE DEF sent
  <2>4. wire' \in Seq(Event)
    BY <1>4, <2>1, <2>3, ConcatProperties DEF sent
  <2> QED BY <1>3, <1>4, <1>7, <2>4 DEF RunEnds
<1>8. CASE ReadEvent
  <2>1. wire # <<>> /\ wire' = Tail(wire)
    BY <1>8 DEF ReadEvent, IngestStart, IngestEnd, IngestError, Read
  <2>2. wire' \in Seq(Event)
    BY <1>1, <2>1, EventsAreTyped
  <2>3. main' \in {main, [main EXCEPT !.phase = "closing"]} /\ UNCHANGED <<streaming, crashes>>
    BY <1>8 DEF ReadEvent, IngestStart, IngestEnd, IngestError, MainCloses
  <2> QED BY <1>3, <1>4, <2>2, <2>3
<1>9. CASE SidecarExit
  <2>1. crashes' \in 0..MaxCrashes
    BY <1>4, <1>9, HostAssumption DEF SidecarExit
  <2> QED BY <1>3, <1>4, <1>9, <2>1 DEF SidecarExit, MainCloses
<1>10. ASSUME \/ \E c \in Client, i \in Id : Interrupt(c, i)
              \/ DrainAborts \/ FinishDone
       PROVE  RunTypes'
  <2>1. /\ main' \in {main, NoMain, [main EXCEPT !.phase = "closing"]}
        /\ UNCHANGED <<streaming, wire, crashes>>
    BY <1>10 DEF Interrupt, DrainAborts, FinishDone
  <2> QED BY <1>3, <1>4, <2>1
<1>11. CASE HostRestart
  BY <1>3, <1>4, <1>11 DEF HostRestart
<1>12. ASSUME NEW c \in Client, \/ ClientReturn(c) \/ ClientRejected(c)
                                \/ \E t \in Turn : ClientCall(c, t)
       PROVE  UNCHANGED runState
  BY <1>12 DEF ClientCall, StartQueued, StartDirect, SteerBegin, CancelBegin, CancelStarting,
       SendNow, SendNowMiss, ClientReturn, QueuedReturn, DirectReturn, DirectRejected,
       RemovedReturn, SendNowReturn, ClientRejected, hostVars, runState
<1>13. ASSUME DrainStep \/ DrainLost, ~DrainAborts PROVE UNCHANGED runState
  BY <1>13 DEF DrainStep, ResumeHeld, DrainEnter, DrainShifted, DrainStarted, DrainAborted,
               DrainFailed, DrainLost
<1>14. ASSUME \/ \E c \in Caller : MainRefuses(c)
              \/ Attach \/ PlanningChanges \/ StoreWorks \/ UNCHANGED vars
       PROVE  UNCHANGED runState
  BY <1>14 DEF MainRefuses, Attach, PlanningChanges, StoreWorks, vars, hostVars, runState
<1> QED BY <1>2, <1>5, <1>6, <1>7, <1>8, <1>9, <1>10, <1>11, <1>12, <1>13, <1>14 DEF HostNext

\* What is run is counted in a step that gives a prompt to the runtime.
LEMMA UsedTypeStep ==
  ASSUME QueueInv, HostTypes, [HostNext]_vars
  PROVE  UsedType'
<1>1. UsedType /\ LoopTypes /\ Client \subseteq Caller
  BY DEF HostTypes, Client
<1>2. ASSUME NEW t \in Turn, used' = [used EXCEPT ![t] = @ + 1] PROVE UsedType'
  BY <1>1, <1>2 DEF UsedType
<1>3. ASSUME NEW c \in Client, ClientReturn(c) \/ ClientRejected(c) PROVE UsedType'
  <2>1. CASE RemovedReturn(c)
    <3>1. op[c].id \in Turn
      BY <1>1, <2>1, CallsNameTurns DEF RemovedReturn, RemoveReturn
    <3>2. used' = [used EXCEPT ![op[c].id] = @ + 1] \/ used' = used
      BY <2>1 DEF RemovedReturn
    <3> QED BY <1>1, <1>2, <3>1, <3>2 DEF UsedType
  <2>2. CASE ~RemovedReturn(c)
    BY <1>1, <1>3, <2>2 DEF ClientReturn, QueuedReturn, DirectReturn, DirectRejected,
                            SendNowReturn, ClientRejected, UsedType
  <2> QED BY <2>1, <2>2
<1>4. ASSUME NEW c \in Caller, MainAccepts(c) \/ MainRefuses(c) PROVE UsedType'
  <2>1. CASE MainAccepts(c)
    <3>1. port[c].turn \in Turn
      BY <1>1, <2>1 DEF MainAccepts, LoopTypes
    <3> QED BY <1>2, <2>1, <3>1 DEF MainAccepts, StartRun
  <2>2. CASE MainRefuses(c)
    BY <1>1, <2>2 DEF MainRefuses, UsedType
  <2> QED BY <1>4, <2>1, <2>2
<1>5. ASSUME NEW t \in Turn, LocalPrompt(t) PROVE UsedType'
  BY <1>2, <1>5 DEF LocalPrompt, StartRun
<1>6. ASSUME \/ \E c \in Client, t \in Turn : ClientCall(c, t)
             \/ \E c \in Client, i \in Id : Interrupt(c, i)
             \/ Attach \/ DrainStep \/ DrainLost
             \/ RunEnds \/ ReadEvent \/ FinishDone \/ SidecarExit \/ PlanningChanges
             \/ StoreWorks \/ HostRestart \/ UNCHANGED vars
      PROVE  used' = used
  <2>1. ASSUME NEW c \in Client, NEW t \in Turn, ClientCall(c, t) PROVE used' = used
    BY <2>1 DEF ClientCall, StartQueued, StartDirect, SteerBegin, CancelBegin, CancelStarting,
                SendNow, SendNowMiss, hostVars
  <2>2. DrainStep \/ DrainLost => used' = used
    BY DEF DrainStep, ResumeHeld, DrainEnter, DrainShifted, DrainStarted, DrainAborts,
           DrainAborted, DrainFailed, DrainLost
  <2>3. ReadEvent => used' = used
    BY DEF ReadEvent, IngestStart, IngestEnd, IngestError
  <2> QED BY <1>6, <2>1, <2>2, <2>3 DEF Interrupt, Attach, RunEnds, FinishDone, SidecarExit,
          PlanningChanges, StoreWorks, HostRestart, hostVars, vars
<1>7. used' = used => UsedType'
  BY <1>1 DEF UsedType
<1> QED BY <1>3, <1>4, <1>5, <1>6, <1>7 DEF HostNext

LEMMA HostTypesInit == ASSUME HostInit PROVE HostTypes
<1>1. TurnTypes /\ UsedType
  BY DEF HostInit, TurnTypes, UsedType, Status
<1>2. LoopTypes
  BY DEF HostInit, LoopTypes, NoPort
<1>3. RunTypes
  BY HostAssumption DEF HostInit, RunTypes, NoMain
<1> QED BY <1>1, <1>2, <1>3 DEF HostTypes

LEMMA HostTypesStep ==
  ASSUME QueueInv, HostTypes, [HostNext]_vars
  PROVE  HostTypes'
BY TurnTypesStep, LoopTypesStep, RunTypesStep, UsedTypeStep DEF HostTypes

\* Type correctness of the Agent Host, for any number of clients, restarts and
\* sidecar crashes: the status of a turn, what the port carries and what the
\* sidecar has written always name a prompt, though an event is attributed to
\* whatever the head of the queue is.
THEOREM HostIsTyped == HostSpec => []HostTypeOK
<1>1. HostInit => QueueInv /\ HostTypes
  BY QueueInvInit, HostTypesInit DEF HostInit
<1>2. QueueInv /\ HostTypes /\ [HostNext]_vars => (QueueInv /\ HostTypes)'
  BY HostKeepsQueue, HostTypesStep
<1>3. QueueInv /\ HostTypes => HostTypeOK
  BY DEF QueueInv, HostTypes, TurnTypes, LoopTypes, RunTypes, UsedType, Event, HostTypeOK
<1> QED BY <1>1, <1>2, <1>3, PTL DEF HostSpec

-----------------------------------------------------------------------------
(***************************************************************************)
(* A prompt is given to the runtime once.  It is given by whoever claimed  *)
(* its record, or by a call that issued it and never queued it; a prompt   *)
(* that one of them has is out of the queue for good.                      *)
(***************************************************************************)

Outside(t) ==
  /\ t \in issued /\ Nowhere(t)
  /\ \A c \in Caller : op[c].kind # "idle" => op[c].id # t
Spent(t) == claims[t] > 0 \/ Outside(t)

Waits(c, t) == port[c].phase = "sent" /\ port[c].turn = t

UseInv ==
  \A t \in Turn :
    /\ used[t] <= 1 /\ (used[t] = 1 => Spent(t))
    /\ \A c \in Caller : Waits(c, t) =>
         Spent(t) /\ used[t] = 0 /\ \A d \in Caller : Waits(d, t) => d = c

LEMMA OutsideKept ==
  ASSUME NEW t \in Turn, Outside(t), NEW X, t \notin X, issued \subseteq issued',
         ToSet(rows') \subseteq ToSet(rows) \cup X, ToSet(listed') \subseteq ToSet(rows) \cup ToSet(listed),
         \A a \in ArrayRef : ToSet(heap'[a]) \subseteq ToSet(heap[a]) \cup ToSet(listed) \cup X,
         claims'[t] = claims[t], \A c \in Caller : op'[c].kind # "idle" => op'[c].id # t
  PROVE  Outside(t)'
BY DEF Outside, Nowhere

LEMMA OutsideUntouched ==
  ASSUME NEW t \in Turn, Outside(t), issued \subseteq issued', claims' = claims,
         ToSet(rows') = ToSet(rows), ToSet(listed') \subseteq ToSet(rows) \cup ToSet(listed),
         \A a \in ArrayRef : ToSet(heap'[a]) \subseteq ToSet(heap[a]),
         \A c \in Caller : op'[c].kind # "idle" => op'[c].id # t
  PROVE  Outside(t)'
BY DEF Outside, Nowhere

\* The continuation of a move writes what its array had, and holes.
LEMMA MovesOwn ==
  ASSUME QueueInv, NEW c \in Caller, PrioritizeReturn(c) \/ ReorderReturn(c)
  PROVE  \A b \in ArrayRef : ToSet(heap'[b]) \subseteq ToSet(heap[b]) \cup {Hole}
<1> DEFINE a == op[c].arr
           i == op[c].at
<1>1. /\ a \in ArrayRef /\ heap \in [ArrayRef -> Seq(Turn \cup {Hole})] /\ op[c] \in Call
  BY DEF PrioritizeReturn, ReorderReturn, QueueInv, Issued, QueueTypeOK
<1>2. heap[a] \in Seq(Turn \cup {Hole})
  BY <1>1
<1>3. CASE PrioritizeReturn(c)
  <2> DEFINE cell == Cell(heap[a], i)
             rest == Splice(heap[a], i)
  <2>1. i \in Nat \ {0}
    BY <1>1, <1>3 DEF PrioritizeReturn, QueueInv, Placed, Call
  <2>2. cell \in Turn \cup {Hole} /\ cell \in ToSet(heap[a]) \cup {Hole}
    BY <1>2, <2>1 DEF Cell, ToSet
  <2>3. rest \in Seq(Turn \cup {Hole}) /\ ToSet(rest) \subseteq ToSet(heap[a])
    BY <1>2, <2>1, TakenOut DEF Splice
  <2>4. heap' = [heap EXCEPT ![a] = <<cell>> \o rest]
    BY <1>3 DEF PrioritizeReturn
  <2> HIDE DEF cell, rest
  <2>5. ToSet(<<cell>> \o rest) = ToSet(rest) \cup {cell}
    BY <2>2, <2>3, PutFirst
  <2> QED BY <1>1, <2>2, <2>3, <2>4, <2>5
<1>4. CASE ReorderReturn(c)
  <2>1. op[c].at \in Nat \ {0} /\ op[c].to \in Nat \ {0}
    BY <1>1, <1>4 DEF ReorderReturn, QueueInv, Placed, Call
  <2>2. ToSet(Swap(heap[a], op[c].at, op[c].to)) \subseteq ToSet(heap[a]) \cup {Hole}
    BY <1>2, <2>1, Swapped
  <2>3. heap' = [heap EXCEPT ![a] = Swap(heap[a], op[c].at, op[c].to)]
    BY <1>4 DEF ReorderReturn
  <2> QED BY <1>1, <2>2, <2>3
<1> QED BY <1>3, <1>4

\* A continuation writes its own record and holes, nothing else.
LEMMA ReturnsOwn ==
  ASSUME QueueInv, NEW c \in Caller, PushReturn(c) \/ PrioritizeReturn(c) \/ ReorderReturn(c)
  PROVE  \A b \in ArrayRef : ToSet(heap'[b]) \subseteq ToSet(heap[b]) \cup {op[c].id, Hole}
<1> DEFINE a == op[c].arr
<1>1. /\ op[c].id \in Turn /\ a \in ArrayRef /\ heap \in [ArrayRef -> Seq(Turn \cup {Hole})]
  BY DEF PushReturn, PrioritizeReturn, ReorderReturn, QueueInv, Issued, QueueTypeOK
<1>2. heap[a] \in Seq(Turn \cup {Hole})
  BY <1>1
<1>3. CASE PushReturn(c)
  <2>1. ToSet(Append(heap[a], op[c].id)) = ToSet(heap[a]) \cup {op[c].id}
    BY <1>1, <1>2, Appended
  <2> QED BY <1>1, <1>3, <2>1 DEF PushReturn
<1> QED BY <1>3, MovesOwn

\* A prompt outside the queue does not enter it.
LEMMA OutsideStays ==
  ASSUME QueueInv, [QueueNext]_queueVars, NEW t \in Turn, Outside(t)
  PROVE  Outside(t)'
<1>1. /\ op \in [Caller -> Call] /\ heap \in [ArrayRef -> Seq(Turn \cup {Hole})]
      /\ rows \in Seq(Turn) /\ listed \in Seq(Turn) /\ NoTwice(rows)
      /\ cur \in ArrayRef \cup {NoArray} /\ t # Hole /\ claims \in [Turn -> 0..2]
  BY QueueAssumption DEF QueueInv, QueueTypeOK
<1>2. \A c \in Caller : op[c].kind # "idle" => op[c].id # t
  BY DEF Outside
<1>3. /\ t \in issued /\ t \notin ToSet(rows) /\ t \notin ToSet(listed)
      /\ \A a \in ArrayRef : t \notin ToSet(heap[a])
  BY DEF Outside, Nowhere
\* A call begins with another record.
<1>4. ASSUME NEW c \in Caller, NEW x, x.id # t, op' = [op EXCEPT ![c] = x],
             issued \subseteq issued', UNCHANGED <<rows, listed, claims>>,
             \A a \in ArrayRef : ToSet(heap'[a]) \subseteq ToSet(heap[a])
      PROVE  Outside(t)'
  BY <1>1, <1>2, <1>4, OutsideUntouched
<1>5. ASSUME NEW c \in Caller, NEW u \in Turn, PushBegin(c, u) PROVE Outside(t)'
  <2> DEFINE x == Sent("push", u, IF cur = NoArray THEN u ELSE cur, 0, 0)
  <2>1. x.id # t /\ op' = [op EXCEPT ![c] = x]
    BY <1>3, <1>5 DEF PushBegin, Sent
  <2> HIDE DEF x
  <2> QED BY <1>4, <1>5, <2>1 DEF PushBegin
<1>6. ASSUME NEW c \in Caller, NEW u \in Turn, RemoveBegin(c, u) PROVE Outside(t)'
  <2> DEFINE x == Sent("remove", u, cur, 0, 0)
  <2>1. PICK i \in DOMAIN Mem : FoundAt(Mem, u, i) /\ heap' = [heap EXCEPT ![cur] = RemoveAt(@, i)]
    BY <1>6 DEF RemoveBegin
  <2>2. cur \in ArrayRef /\ i \in DOMAIN heap[cur] /\ heap[cur][i] = u
    BY <1>1, <2>1 DEF Mem, FoundAt
  <2>3. ToSet(RemoveAt(heap[cur], i)) \subseteq ToSet(heap[cur]) /\ u \in ToSet(heap[cur])
    <3>1. heap[cur] \in Seq(Turn \cup {Hole})
      BY <1>1, <2>2
    <3>2. u \in ToSet(heap[cur])
      BY <2>2 DEF ToSet
    <3> QED BY <2>2, <3>1, <3>2, TakenOut
  <2>4. \A a \in ArrayRef : ToSet(heap'[a]) \subseteq ToSet(heap[a])
    BY <1>1, <2>1, <2>2, <2>3
  <2>5. x.id # t /\ op' = [op EXCEPT ![c] = x]
    BY <1>3, <1>6, <2>2, <2>3 DEF RemoveBegin, Sent
  <2> HIDE DEF x
  <2> QED BY <1>4, <1>6, <2>4, <2>5 DEF RemoveBegin
<1>7. ASSUME NEW c \in Caller, NEW u \in Turn,
             PrioritizeBegin(c, u) \/ \E up \in BOOLEAN : ReorderBegin(c, u, up)
      PROVE  Outside(t)'
  <2> DEFINE Begun(k, j) == \E i \in DOMAIN Mem :
               FoundAt(Mem, u, i) /\ op' = [op EXCEPT ![c] = Sent(k, u, cur, i, j)]
  <2>8. \E k, j : Begun(k, j)
    <3>1. ASSUME PrioritizeBegin(c, u) PROVE Begun("prioritize", 0)
      BY <3>1 DEF PrioritizeBegin
    <3>2. ASSUME NEW up \in BOOLEAN, ReorderBegin(c, u, up) PROVE \E j : Begun("reorder", j)
      BY <3>2 DEF ReorderBegin
    <3> HIDE DEF Begun
    <3> QED BY <1>7, <3>1, <3>2
  <2>9. PICK k, j : Begun(k, j)
    BY <2>8
  <2>1. PICK i \in DOMAIN Mem :
          FoundAt(Mem, u, i) /\ op' = [op EXCEPT ![c] = Sent(k, u, cur, i, j)]
    BY <2>9
  <2>2. u \in ToSet(heap[cur]) /\ cur \in ArrayRef
    BY <1>1, <2>1 DEF Mem, FoundAt, ToSet
  <2> DEFINE x == Sent(k, u, cur, i, j)
  <2>3. x.id # t /\ op' = [op EXCEPT ![c] = x]
    BY <1>3, <2>1, <2>2 DEF Sent
  <2>4. UNCHANGED <<rows, heap, listed, issued, claims>>
    BY <1>7 DEF PrioritizeBegin, ReorderBegin
  <2> HIDE DEF x
  <2> QED BY <1>4, <2>3, <2>4
<1>8. ASSUME NEW c \in Caller, StoreStep(c) PROVE Outside(t)'
  <2>1. op[c].kind # "idle" /\ UNCHANGED <<heap, listed, issued, claims>>
    BY <1>8 DEF StoreStep, StorePush, StoreRemove, StorePrioritize, StoreReorder
  <2>2. \A d \in Caller : op'[d].kind = op[d].kind /\ op'[d].id = op[d].id
    <3>1. \E p : op' = [op EXCEPT ![c].phase = p]
      BY <1>8 DEF StoreStep, StorePush, StoreRemove, StorePrioritize, StoreReorder
    <3> QED BY <1>1, <3>1 DEF Call
  <2>3. op[c].id \in Turn /\ op[c].id # t
    BY <1>2, <2>1, CallsNameTurns
  <2> DEFINE u == op[c].id
  <2>4. ToSet(Append(rows, u)) = ToSet(rows) \cup {u}
    BY <1>1, <2>3, Appended
  <2>5. Without(rows, u) \in Seq(Turn) /\ ToSet(Without(rows, u)) = ToSet(rows) \ {u}
    BY <1>1, TakenOutByName
  <2>6. ToSet(<<u>> \o Without(rows, u)) = ToSet(Without(rows, u)) \cup {u}
    BY <2>3, <2>5, PutFirst
  <2>7. \A i, j \in DOMAIN rows : ToSet(Swap(rows, i, j)) = ToSet(rows)
    BY <1>1, SwappedInside
  <2>8. ToSet(rows') \subseteq ToSet(rows) \cup {u}
    <3>1. CASE StorePush(c)
      BY <2>4, <3>1 DEF StorePush
    <3>2. CASE StoreRemove(c)
      BY <2>5, <3>2 DEF StoreRemove
    <3>3. CASE StorePrioritize(c)
      BY <2>5, <2>6, <3>3 DEF StorePrioritize
    <3>4. CASE StoreReorder(c)
      <4>1. rows' = rows \/ \E i, j \in DOMAIN rows : rows' = Swap(rows, i, j)
        BY <3>4 DEF StoreReorder, At, ToSet
      <4> QED BY <2>7, <4>1
    <3> QED BY <1>8, <3>1, <3>2, <3>3, <3>4 DEF StoreStep
  <2> HIDE DEF u
  <2>9. t \notin {u}
    BY <2>3 DEF u
  <2>10. \A d \in Caller : op'[d].kind # "idle" => op'[d].id # t
    BY <1>2, <2>2
  <2> QED BY <2>1, <2>8, <2>9, <2>10, OutsideKept
<1>9. ASSUME NEW c \in Caller, ReturnStep(c) \/ CallRejects(c) PROVE Outside(t)'
  <2>1. op' = [op EXCEPT ![c] = Idle] /\ UNCHANGED <<rows, listed, issued>>
    BY <1>9 DEF ReturnStep, PushReturn, RemoveReturn, PrioritizeReturn, ReorderReturn, CallRejects
  <2>2. \A d \in Caller : op'[d].kind # "idle" => op'[d].id # t
    BY <1>1, <1>2, <2>1 DEF Idle
  <2>3. claims'[t] = claims[t]
    <3>1. claims' = claims \/ (op[c].kind = "remove" /\ claims' = [claims EXCEPT ![op[c].id] = @ + 1])
      BY <1>9 DEF ReturnStep, PushReturn, RemoveReturn, PrioritizeReturn, ReorderReturn, CallRejects
    <3> QED BY <1>1, <1>2, <3>1
  <2>4. \A a \in ArrayRef : ToSet(heap'[a]) \subseteq ToSet(heap[a]) \cup {op[c].id, Hole}
                            \/ heap' = heap
    BY <1>9, ReturnsOwn DEF ReturnStep, CallRejects, RemoveReturn
  <2>5. heap' # heap => op[c].id # t
    BY <1>2, <1>9 DEF ReturnStep, PushReturn, RemoveReturn, PrioritizeReturn, ReorderReturn, CallRejects
  <2> DEFINE X == IF heap' = heap THEN {} ELSE {op[c].id, Hole}
  <2>6. t \notin X /\ \A a \in ArrayRef : ToSet(heap'[a]) \subseteq ToSet(heap[a]) \cup ToSet(listed) \cup X
    BY <1>1, <2>4, <2>5
  <2> HIDE DEF X
  <2> QED BY <2>1, <2>2, <2>3, <2>6, OutsideKept
<1>10. ToSet(<<>>) = {}
  BY DEF ToSet
<1>11. CASE QueueRestart
  <2>1. /\ heap' = [a \in ArrayRef |-> <<>>] /\ listed' = <<>> /\ op' = [c \in Caller |-> Idle]
        /\ UNCHANGED <<rows, issued, claims>> /\ Idle.kind = "idle"
    BY <1>11 DEF QueueRestart, Idle
  <2> QED BY <1>10, <2>1, OutsideKept
<1>12. CASE StoreList
  BY <1>2, <1>12, OutsideUntouched DEF StoreList
<1>13. CASE RestoreReturn
  <2>1. /\ heap' = [heap EXCEPT ![Boot] = listed] /\ listed' = <<>>
        /\ UNCHANGED <<rows, op, issued, claims>>
    BY <1>13 DEF RestoreReturn
  <2>2. \A a \in ArrayRef : ToSet(heap'[a]) \subseteq ToSet(heap[a]) \cup ToSet(listed)
    BY <1>1, <2>1
  <2> QED BY <1>2, <1>10, <2>1, <2>2, OutsideKept
<1>14. CASE Resume \/ UNCHANGED queueVars
  BY <1>2, <1>14, OutsideUntouched DEF Resume, queueVars
<1>15. ASSUME NEW c \in Caller, ShiftBegin(c) PROVE Outside(t)'
  <2>1. Mem \in Seq(Turn \cup {Hole})
    BY DEF QueueInv, QueueTypeOK, Mem
  <2>2. Head(Mem) \in Turn /\ RemoveBegin(c, Head(Mem))
    BY <1>15, <2>1 DEF ShiftBegin
  <2> QED BY <1>6, <2>2
<1> QED BY <1>5, <1>6, <1>7, <1>8, <1>9, <1>11, <1>12, <1>13, <1>14, <1>15 DEF QueueNext

\* A prompt that has been taken out of the queue stays taken.
LEMMA SpentStays ==
  ASSUME QueueInv, [HostNext]_vars, NEW t \in Turn, Spent(t)
  PROVE  Spent(t)'
<1>1. [QueueNext]_queueVars \/ Elsewhere
  BY HostStepsQueue DEF QueueInv
<1>2. claims \in [Turn -> 0..2]
  BY DEF QueueInv, QueueTypeOK
<1>3. ASSUME [QueueNext]_queueVars, claims[t] > 0 PROVE claims'[t] > 0
  <2>1. claims' = claims \/ \E u : claims' = [claims EXCEPT ![u] = @ + 1]
    <3>1. ASSUME NEW c \in Caller, ReturnStep(c)
          PROVE  claims' = claims \/ claims' = [claims EXCEPT ![op[c].id] = @ + 1]
      BY <3>1 DEF ReturnStep, PushReturn, RemoveReturn, PrioritizeReturn, ReorderReturn
    <3>2. ASSUME NEW c \in Caller, StoreStep(c) \/ CallRejects(c) \/ ShiftBegin(c) PROVE claims' = claims
      BY <3>2 DEF StoreStep, StorePush, StoreRemove, StorePrioritize, StoreReorder, CallRejects,
                  ShiftBegin, RemoveBegin
    <3>3. ASSUME NEW c \in Caller, NEW u \in Turn,
                 \/ PushBegin(c, u) \/ RemoveBegin(c, u) \/ PrioritizeBegin(c, u)
                 \/ \E up \in BOOLEAN : ReorderBegin(c, u, up)
          PROVE  claims' = claims
      BY <3>3 DEF PushBegin, RemoveBegin, PrioritizeBegin, ReorderBegin
    <3>4. ASSUME QueueRestart \/ StoreList \/ RestoreReturn \/ Resume \/ UNCHANGED queueVars
          PROVE  claims' = claims
      BY <3>4 DEF QueueRestart, StoreList, RestoreReturn, Resume, queueVars
    <3> QED BY <1>3, <3>1, <3>2, <3>3, <3>4 DEF QueueNext
  <2>2. ASSUME NEW u, claims' = [claims EXCEPT ![u] = @ + 1] PROVE claims'[t] > 0
    BY <1>2, <1>3, <2>2
  <2> QED BY <1>3, <2>1, <2>2
<1>4. ASSUME Elsewhere PROVE (claims[t] > 0 => claims'[t] > 0) /\ (Outside(t) => Outside(t)')
  BY <1>4 DEF Elsewhere, Bypass, Outside, Nowhere
<1> QED BY <1>1, <1>3, <1>4, OutsideStays DEF Spent

\* Nobody has the prompt of a new request, nor a record that is being removed.
LEMMA NotYetSpent ==
  ASSUME QueueInv, OnceInv, NEW t \in Turn,
         t \notin issued \/ \E c \in Caller : op[c].kind = "remove" /\ op[c].id = t
  PROVE  ~Spent(t)
<1>1. claims[t] \in 0..2
  BY DEF QueueInv, QueueTypeOK
<1>2. CASE t \notin issued
  BY <1>1, <1>2 DEF Spent, Outside, QueueInv, Issued
<1>3. ASSUME NEW c \in Caller, op[c].kind = "remove", op[c].id = t PROVE ~Spent(t)
  BY <1>1, <1>3 DEF Spent, Outside, OnceInv, Carried, Carries
<1> QED BY <1>2, <1>3

\* A new request names a prompt that is nowhere in the queue.
LEMMA NewIsOutside ==
  ASSUME QueueInv, NEW t \in Turn, Bypass(t)
  PROVE  Outside(t)'
<1>1. /\ t \notin issued /\ t \in issued'
      /\ UNCHANGED <<rows, heap, listed, op, claims>> /\ t # Hole /\ claims[t] \in 0..2
  BY QueueAssumption DEF Bypass, QueueInv, QueueTypeOK
<1>2. Nowhere(t) /\ \A c \in Caller : op[c].kind # "idle" => op[c].id # t
  BY <1>1 DEF QueueInv, Issued, Nowhere
<1> QED BY <1>1, <1>2 DEF Outside, Nowhere

\* Somebody gets a prompt that nobody had: he gives it to the runtime, or asks
\* Main to.
LEMMA GivenAfresh ==
  ASSUME UsedType, LoopTypes, UseInv, NEW t \in Turn, ~Spent(t), Spent(t)',
         \A u \in Turn : Spent(u) => Spent(u)',
         \/ used' = [used EXCEPT ![t] = @ + 1] /\ port' = port
         \/ \E c \in Caller : used' = used /\ port' = [port EXCEPT ![c] = [phase |-> "sent", turn |-> t]]
  PROVE  UseInv'
<1>1. used \in [Turn -> Nat] /\ \A c \in Caller : ~Waits(c, t)
  BY DEF UsedType, UseInv
<1>2. used[t] = 0
  BY <1>1 DEF UseInv
<1>3. CASE used' = [used EXCEPT ![t] = @ + 1] /\ port' = port
  BY <1>1, <1>2, <1>3 DEF UseInv, Waits
<1>4. ASSUME NEW c \in Caller, used' = used, port' = [port EXCEPT ![c] = [phase |-> "sent", turn |-> t]]
      PROVE  UseInv'
  <2>1. Waits(c, t)' /\ \A u \in Turn : Waits(c, u)' => u = t
    BY <1>4 DEF Waits, LoopTypes
  <2>2. \A d \in Caller \ {c}, u \in Turn : Waits(d, u)' <=> Waits(d, u)
    BY <1>4 DEF Waits, LoopTypes
  <2> QED BY <1>1, <1>2, <1>4, <2>1, <2>2 DEF UseInv
<1> QED BY <1>3, <1>4

\* Nobody gets one.
LEMMA NoneGiven ==
  ASSUME UseInv, used' = used, \A u \in Turn : Spent(u) => Spent(u)',
         \A c \in Caller, u \in Turn : Waits(c, u)' => Waits(c, u)
  PROVE  UseInv'
BY DEF UseInv

LEMMA UseStep ==
  ASSUME QueueInv, OnceInv, HostTypes, UseInv, [HostNext]_vars
  PROVE  UseInv'
<1>1. /\ Client \subseteq Caller /\ Drainer \in Caller /\ LoopTypes /\ UsedType
      /\ \A u \in Turn : Spent(u) => Spent(u)'
  BY HostAssumption, SpentStays DEF Client, HostTypes
<1>2. ASSUME used' = used, port' = port PROVE UseInv'
  BY <1>1, <1>2, NoneGiven DEF Waits
<1>3. ASSUME used' = used, NEW c \in Caller, NEW p, p.phase # "sent", port' = [port EXCEPT ![c] = p]
      PROVE  UseInv'
  <2>1. \A d \in Caller, u \in Turn : Waits(d, u)' => Waits(d, u)
    BY <1>1, <1>3 DEF Waits, LoopTypes
  <2> QED BY <1>1, <1>3, <2>1, NoneGiven
<1>4. NoPort.phase # "sent"
  BY DEF NoPort
<1>5. ASSUME NEW c \in Client, NEW t \in Turn, ClientCall(c, t) PROVE UseInv'
  <2>1. CASE StartDirect(c, t)
    <3>1. Bypass(t) /\ ~Spent(t) /\ Spent(t)'
      BY <2>1, NotYetSpent, NewIsOutside DEF StartDirect, Bypass, Spent
    <3> QED BY <1>1, <2>1, <3>1, GivenAfresh DEF StartDirect
  <2>2. CASE ~StartDirect(c, t)
    BY <1>2, <1>5, <2>2 DEF ClientCall, StartQueued, SteerBegin, CancelBegin, CancelStarting,
                            SendNow, SendNowMiss, hostVars, loopState
  <2> QED BY <2>1, <2>2
<1>6. ASSUME NEW c \in Client, ClientReturn(c) \/ ClientRejected(c) PROVE UseInv'
  <2>1. CASE RemovedReturn(c)
    <3>1. /\ op[c].kind = "remove" /\ claims' = [claims EXCEPT ![op[c].id] = @ + 1]
          /\ port' = port
          /\ used' \in {used, [used EXCEPT ![op[c].id] = @ + 1]}
      BY <2>1 DEF RemovedReturn, RemoveReturn
    <3>2. op[c].id \in Turn /\ claims \in [Turn -> 0..2]
      BY <1>1, <3>1, CallsNameTurns DEF QueueInv, QueueTypeOK
    <3>3. PICK t \in Turn : t = op[c].id
      BY <3>2
    <3>4. ~Spent(t)
      BY <1>1, <3>1, <3>3, NotYetSpent
    <3>5. Spent(t)'
      BY <3>1, <3>2, <3>3 DEF Spent
    <3>6. used' = used \/ used' = [used EXCEPT ![t] = @ + 1]
      BY <3>1, <3>3
    <3> QED BY <1>1, <1>2, <3>1, <3>4, <3>5, <3>6, GivenAfresh
  <2>2. CASE DirectReturn(c) \/ DirectRejected(c)
    BY <1>1, <1>3, <1>4, <2>2 DEF DirectReturn, DirectRejected
  <2>3. CASE QueuedReturn(c) \/ SendNowReturn(c) \/ ClientRejected(c)
    BY <1>2, <2>3 DEF QueuedReturn, SendNowReturn, ClientRejected
  <2> QED BY <1>6, <2>1, <2>2, <2>3 DEF ClientReturn
<1>7. ASSUME DrainStep \/ DrainLost PROVE UseInv'
  <2>1. CASE DrainShifted
    <3>1. op[Drainer].kind = "remove" /\ claims \in [Turn -> 0..2]
      BY <2>1 DEF DrainShifted, RemoveReturn, QueueInv, QueueTypeOK
    <3>2. PICK t \in Turn : t = op[Drainer].id
      BY <1>1, <3>1, CallsNameTurns
    <3>3. /\ claims' = [claims EXCEPT ![t] = @ + 1] /\ used' = used
          /\ port' = [port EXCEPT ![Drainer] = [phase |-> "sent", turn |-> t]]
      BY <2>1, <3>2 DEF DrainShifted, RemoveReturn
    <3>4. ~Spent(t)
      BY <1>1, <3>1, <3>2, NotYetSpent
    <3>5. Spent(t)'
      BY <3>1, <3>3 DEF Spent
    <3> QED BY <1>1, <3>3, <3>4, <3>5, GivenAfresh
  <2>2. CASE DrainStarted \/ DrainAborted \/ DrainFailed
    BY <1>1, <1>3, <1>4, <2>2 DEF DrainStarted, DrainAborted, DrainFailed
  <2>3. CASE ResumeHeld \/ DrainEnter \/ DrainAborts \/ DrainLost
    BY <1>2, <2>3 DEF ResumeHeld, DrainEnter, DrainAborts, DrainLost
  <2> QED BY <1>7, <2>1, <2>2, <2>3 DEF DrainStep
<1>8. ASSUME NEW c \in Caller, MainAccepts(c) PROVE UseInv'
  <2> DEFINE t == port[c].turn
  <2>1. /\ Waits(c, t) /\ used' = [used EXCEPT ![t] = @ + 1] /\ t \in Turn
        /\ port' = [port EXCEPT ![c].phase = "ok"]
    BY <1>1, <1>8 DEF MainAccepts, StartRun, Waits, LoopTypes
  <2>2. /\ \A u \in Turn : ~Waits(c, u)'
        /\ \A d \in Caller \ {c}, u \in Turn : Waits(d, u)' <=> Waits(d, u)
    BY <1>1, <2>1 DEF Waits, LoopTypes
  <2> HIDE DEF t
  <2>3. used[t] = 0 /\ Spent(t) /\ \A d \in Caller : Waits(d, t) => d = c
    BY <2>1 DEF UseInv
  <2> QED BY <1>1, <2>1, <2>2, <2>3 DEF UseInv, UsedType
<1>9. ASSUME NEW c \in Caller, MainRefuses(c) PROVE UseInv'
  <2>1. used' = used /\ port' = [port EXCEPT ![c].phase = "failed"]
    BY <1>9 DEF MainRefuses
  <2>2. \A d \in Caller, u \in Turn : Waits(d, u)' => Waits(d, u)
    BY <1>1, <2>1 DEF Waits, LoopTypes
  <2> QED BY <1>1, <2>1, <2>2, NoneGiven
<1>10. ASSUME NEW t \in Turn, LocalPrompt(t) PROVE UseInv'
  <2>1. Bypass(t) /\ used' = [used EXCEPT ![t] = @ + 1] /\ port' = port
    BY <1>10 DEF LocalPrompt, Bypass, StartRun, loopState
  <2>2. ~Spent(t) /\ Spent(t)'
    BY <2>1, NotYetSpent, NewIsOutside DEF Bypass, Spent
  <2> QED BY <1>1, <2>1, <2>2, GivenAfresh
<1>11. CASE HostRestart
  <2>1. used' = used /\ port' = [c \in Caller |-> NoPort]
    BY <1>11 DEF HostRestart
  <2>2. \A d \in Caller, u \in Turn : ~Waits(d, u)'
    BY <1>4, <2>1 DEF Waits
  <2> QED BY <1>1, <2>1, <2>2, NoneGiven
<1>12. ASSUME \/ \E c \in Client, i \in Id : Interrupt(c, i)
              \/ Attach \/ RunEnds \/ ReadEvent \/ FinishDone \/ SidecarExit \/ PlanningChanges
              \/ StoreWorks \/ UNCHANGED vars
       PROVE  UseInv'
  BY <1>2, <1>12 DEF Interrupt, Attach, RunEnds, ReadEvent, IngestStart, IngestEnd, IngestError,
       FinishDone, SidecarExit, PlanningChanges, StoreWorks, hostVars, vars, loopState
<1> QED BY <1>5, <1>6, <1>7, <1>8, <1>9, <1>10, <1>11, <1>12 DEF HostNext

\* A prompt reaches the runtime at most once, for any number of clients that
\* start, steer, cancel and send now at the same time, whatever is retried,
\* refused or lost, and across restarts and sidecar exits.
THEOREM PromptsRunOnce ==
  ASSUME ~EarlyCalls PROVE HostSpec => []UsedOnce
<1>1. HostInit => QueueInv /\ OnceInv /\ HostTypes /\ UseInv
  <2> SUFFICES ASSUME HostInit PROVE QueueInv /\ OnceInv /\ HostTypes /\ UseInv
    OBVIOUS
  <2>1. QueueInv /\ OnceInv
    BY QueueInvInit, OnceInit DEF HostInit
  <2>2. HostTypes
    BY HostTypesInit
  <2>3. UseInv
    BY DEF HostInit, UseInv, Waits, NoPort
  <2> QED BY <2>1, <2>2, <2>3
<1>2. QueueInv /\ OnceInv /\ HostTypes /\ UseInv /\ [HostNext]_vars
        => (QueueInv /\ OnceInv /\ HostTypes /\ UseInv)'
  BY HostKeepsQueue, HostTypesStep, UseStep
<1>3. UseInv => UsedOnce
  BY DEF UseInv, UsedOnce
<1> QED BY <1>1, <1>2, <1>3, PTL DEF HostSpec

-----------------------------------------------------------------------------
(* Prompts that somebody has *)

\* What is known of the host so far.
HostInv == QueueInv /\ OnceInv /\ HostTypes /\ UseInv

LEMMA RunIds ==
  \A t \in Turn : /\ t \in Id /\ RunId(t) \in Id
                  /\ RunId(t) \notin Turn \cup {Hole, NoTurn}
                  /\ \A u \in Turn : RunId(t) = RunId(u) => t = u
<1>1. \A t \in Turn : RunId(t) \in Run
  BY DEF Run
<1> QED BY <1>1, HostAssumption DEF Id, RunId

LEMMA SpentIsOut ==
  ASSUME QueueInv, OnceInv, NEW t \in Turn, Spent(t)
  PROVE  t \notin ToSet(Mem)
<1>1. ToSet(<<>>) = {}
  BY DEF ToSet
<1>2. cur \in ArrayRef \cup {NoArray}
  BY DEF QueueInv, QueueTypeOK
<1>3. \A a \in ArrayRef : t \notin ToSet(heap[a])
  BY DEF Spent, Outside, Nowhere, OnceInv, Mirrored
<1> QED BY <1>1, <1>2, <1>3 DEF Mem

\* Nobody has the prompt of a record that is on its way.
LEMMA CarriedNotSpent ==
  ASSUME QueueInv, OnceInv, NEW c \in Caller, op[c].kind \in {"push", "remove"}
  PROVE  op[c].id \in Turn /\ ~Spent(op[c].id)
<1>1. op[c].id \in Turn /\ op[c].kind # "idle"
  BY CallsNameTurns
<1>2. claims[op[c].id] = 0
  BY DEF OnceInv, Carried, Carries
<1> QED BY <1>1, <1>2 DEF Spent, Outside

LEMMA HeadIsQueued ==
  ASSUME QueueInv, OnceInv, Mem # <<>>, Head(Mem) # Hole
  PROVE  /\ Head(Mem) \in Turn /\ ~Spent(Head(Mem))
<1>1. Mem \in Seq(Turn \cup {Hole})
  BY DEF QueueInv, QueueTypeOK, Mem
<1>2. Head(Mem) \in Turn /\ Head(Mem) \in ToSet(Mem)
  BY <1>1 DEF ToSet
<1> QED BY <1>2, SpentIsOut

LEMMA HostInvStep == ASSUME HostInv, ~EarlyCalls, [HostNext]_vars PROVE HostInv'
BY HostKeepsQueue, HostTypesStep, UseStep DEF HostInv

\* A prompt is given to the runtime by whoever has it: a caller that waits for
\* Main, or somebody who just got it.
LEMMA UsedStep ==
  ASSUME HostInv, [HostNext]_vars
  PROVE  \/ used' = used
         \/ \E u \in Turn :
              /\ used' = [used EXCEPT ![u] = @ + 1] /\ used[u] = 0
              /\ ~Spent(u) \/ \E c \in Caller : Waits(c, u) /\ MainAccepts(c)
<1> DEFINE Given(u) == /\ used' = [used EXCEPT ![u] = @ + 1] /\ used[u] = 0
                       /\ ~Spent(u) \/ \E c \in Caller : Waits(c, u) /\ MainAccepts(c)
<1>1. /\ QueueInv /\ OnceInv /\ LoopTypes /\ UsedType /\ UseInv /\ Client \subseteq Caller
  BY DEF HostInv, HostTypes, Client
<1>2. \A u \in Turn : ~Spent(u) => used[u] = 0
  BY <1>1 DEF UseInv, UsedType
<1>3. ASSUME NEW c \in Client, RemovedReturn(c) PROVE used' = used \/ \E u \in Turn : Given(u)
  <2>1. op[c].kind = "remove"
    BY <1>3 DEF RemovedReturn, RemoveReturn
  <2>2. op[c].id \in Turn /\ ~Spent(op[c].id)
    BY <1>1, <2>1, CarriedNotSpent
  <2>3. used' = used \/ used' = [used EXCEPT ![op[c].id] = @ + 1]
    BY <1>3 DEF RemovedReturn
  <2> QED BY <1>2, <2>2, <2>3
<1>4. ASSUME NEW c \in Caller, MainAccepts(c) PROVE \E u \in Turn : Given(u)
  <2>1. Waits(c, port[c].turn) /\ port[c].turn \in Turn
    BY <1>1, <1>4 DEF MainAccepts, Waits, LoopTypes
  <2>2. used[port[c].turn] = 0
    BY <1>1, <2>1 DEF UseInv
  <2> QED BY <1>4, <2>1, <2>2 DEF MainAccepts, StartRun
<1>5. ASSUME NEW t \in Turn, LocalPrompt(t) PROVE \E u \in Turn : Given(u)
  BY <1>1, <1>2, <1>5, NotYetSpent DEF LocalPrompt, StartRun
<1>6. ASSUME \/ \E c \in Client, t \in Turn : ClientCall(c, t)
             \/ \E c \in Client, i \in Id : Interrupt(c, i)
             \/ \E c \in Client : (ClientReturn(c) \/ ClientRejected(c)) /\ ~RemovedReturn(c)
             \/ \E c \in Caller : MainRefuses(c)
             \/ Attach \/ DrainStep \/ DrainLost
             \/ RunEnds \/ ReadEvent \/ FinishDone \/ SidecarExit \/ PlanningChanges
             \/ StoreWorks \/ HostRestart \/ UNCHANGED vars
      PROVE  used' = used
  <2>1. ASSUME NEW c \in Client, NEW t \in Turn, ClientCall(c, t) PROVE used' = used
    BY <2>1 DEF ClientCall, StartQueued, StartDirect, SteerBegin, CancelBegin, CancelStarting,
                SendNow, SendNowMiss, hostVars
  <2>2. DrainStep \/ DrainLost => used' = used
    BY DEF DrainStep, ResumeHeld, DrainEnter, DrainShifted, DrainStarted, DrainAborts,
           DrainAborted, DrainFailed, DrainLost
  <2>3. ReadEvent => used' = used
    BY DEF ReadEvent, IngestStart, IngestEnd, IngestError
  <2>4. ASSUME NEW c \in Client, ClientReturn(c) \/ ClientRejected(c), ~RemovedReturn(c) PROVE used' = used
    BY <2>4 DEF ClientReturn, QueuedReturn, DirectReturn, DirectRejected, SendNowReturn, ClientRejected
  <2> QED BY <1>6, <2>1, <2>2, <2>3, <2>4 DEF Interrupt, Attach, RunEnds, FinishDone, SidecarExit,
          PlanningChanges, StoreWorks, HostRestart, MainRefuses, hostVars, vars
<1> HIDE DEF Given
<1>7. used' = used \/ \E u \in Turn : Given(u)
  BY <1>3, <1>4, <1>5, <1>6 DEF HostNext
<1> QED BY <1>7 DEF Given

-----------------------------------------------------------------------------
(***************************************************************************)
(* No prompt is lost.  That needs pushes that do not overlap: two first    *)
(* pushes that do leave an array out of the map (turn-queue.ts:68), so it  *)
(* is proved of an Agent Host with one client at a time, whose calls       *)
(* overlap with those of the drain loop, and of prompts with keys of their *)
(* own, since the record of a repeated key has no row.                     *)
(***************************************************************************)

OnePush == \A c, d \in Caller : op[c].kind = "push" /\ op[d].kind = "push" => c = d
OwnKeys == \A t, u \in Turn : KeyOf[t] # NoKey /\ KeyOf[t] = KeyOf[u] => t = u

\* A push goes to the array in the map, and its row is stored before it returns.
Pushed(c) ==
  op[c].kind = "push" => /\ op[c].phase = "ok" => op[c].id \in ToSet(rows)
                         /\ cur \in {NoArray, op[c].arr}

\* What is mirrored is in the table, restore() has read the table, and arrays
\* that are not in the map have no record.
KeepInv ==
  /\ boot = "listed" => listed = rows
  /\ boot = "ready" => \A a \in ArrayRef : ToSet(heap[a]) \subseteq ToSet(rows) \cup {Hole}
  /\ \A a \in ArrayRef : a # cur => ToSet(heap[a]) \subseteq {Hole}
  /\ \A c \in Caller : Pushed(c)

\* A queued prompt goes to the call that removes it, and nowhere else; one that
\* is reported as queued is queued.
Removing(t) == \E c \in Caller : op[c].kind = "remove" /\ op[c].id = t
Stays ==
  /\ \A t \in Turn : Queued(t) => Queued(t)' \/ Removing(t)'
  /\ \A t \in accepted' : t \in accepted \/ Queued(t)'

\* The cut record leaves, the others do not.
LEMMA CutLosesOne ==
  ASSUME NEW S, NEW s \in Seq(S), NEW i \in DOMAIN s
  PROVE  ToSet(s) \subseteq ToSet(RemoveAt(s, i)) \cup {s[i]}
<1> DEFINE r == RemoveAt(s, i)
<1>1. /\ r \in Seq(S) /\ Len(r) = Len(s) - 1 /\ i \in 1..Len(s) /\ Len(s) \in Nat
      /\ \A k \in 1..(Len(s) - 1) : r[k] = IF k < i THEN s[k] ELSE s[k + 1]
  BY Cut
<1> HIDE DEF r
<1>2. ASSUME NEW k \in DOMAIN s, k # i PROVE s[k] \in ToSet(r)
  <2>1. CASE k < i
    BY <1>1, <2>1 DEF ToSet
  <2>2. CASE k > i
    <3>1. k - 1 \in 1..(Len(s) - 1) /\ r[k - 1] = s[k]
      BY <1>1, <2>2
    <3> QED BY <1>1, <3>1 DEF ToSet
  <2> QED BY <1>1, <1>2, <2>1, <2>2
<1> QED BY <1>2 DEF ToSet, r

\* Nor does a swap lose one, with a place past the end either.
LEMMA SwapLosesNone ==
  ASSUME NEW S, NEW s \in Seq(S), NEW i \in Nat \ {0}, NEW j \in Nat \ {0}
  PROVE  ToSet(s) \subseteq ToSet(Swap(s, i, j))
<1> DEFINE last == IF i > j THEN i ELSE j
           n    == IF Len(s) > last THEN Len(s) ELSE last
           r    == [k \in 1..n |-> IF k = i THEN Cell(s, j)
                                   ELSE IF k = j THEN Cell(s, i) ELSE Cell(s, k)]
<1>1. r = Swap(s, i, j) /\ DOMAIN r = 1..n /\ n \in Nat
  BY DEF Swap
<1>2. 1..Len(s) \subseteq 1..n /\ i \in 1..n /\ j \in 1..n /\ DOMAIN s = 1..Len(s)
  OBVIOUS
<1>3. \A k \in 1..Len(s) : Cell(s, k) = s[k]
  BY DEF Cell
<1>4. r[i] = Cell(s, j) /\ r[j] = Cell(s, i) /\ \A k \in 1..n \ {i, j} : r[k] = Cell(s, k)
  BY <1>2
<1> HIDE DEF r, n
<1>5. ASSUME NEW k \in 1..Len(s) PROVE \E m \in 1..n : r[m] = s[k]
  <2>1. CASE k = i
    BY <1>2, <1>3, <1>4, <2>1
  <2>2. CASE k = j
    BY <1>2, <1>3, <1>4, <2>2
  <2>3. CASE k # i /\ k # j
    BY <1>2, <1>3, <1>4, <2>3
  <2> QED BY <2>1, <2>2, <2>3
<1> QED BY <1>1, <1>2, <1>5 DEF ToSet

\* The continuation of a move loses no record of its array.
LEMMA MoveLosesNone ==
  ASSUME QueueInv, NEW c \in Caller, PrioritizeReturn(c) \/ ReorderReturn(c)
  PROVE  \A a \in ArrayRef : ToSet(heap[a]) \subseteq ToSet(heap'[a])
<1> DEFINE a == op[c].arr
           i == op[c].at
           j == op[c].to
<1>1. /\ a \in ArrayRef /\ heap \in [ArrayRef -> Seq(Turn \cup {Hole})] /\ i \in Nat \ {0}
      /\ op[c].kind = "reorder" => j \in Nat \ {0}
  BY DEF PrioritizeReturn, ReorderReturn, QueueInv, Issued, Placed, QueueTypeOK, Call
<1>2. heap[a] \in Seq(Turn \cup {Hole})
  BY <1>1
<1>3. CASE PrioritizeReturn(c)
  <2> DEFINE cell == Cell(heap[a], i)
             rest == Splice(heap[a], i)
  <2>1. cell \in Turn \cup {Hole} /\ rest \in Seq(Turn \cup {Hole})
    BY <1>1, <1>2, TakenOut DEF Cell, Splice
  <2>2. ToSet(heap[a]) \subseteq ToSet(rest) \cup {cell}
    <3>1. CASE i <= Len(heap[a])
      <4>1. i \in DOMAIN heap[a] /\ cell = heap[a][i] /\ rest = RemoveAt(heap[a], i)
        BY <1>1, <1>2, <3>1 DEF Cell, Splice
      <4> HIDE DEF cell, rest, a, i
      <4> QED BY <1>2, <4>1, CutLosesOne
    <3>2. CASE ~(i <= Len(heap[a]))
      BY <3>2 DEF Splice
    <3> QED BY <3>1, <3>2
  <2>3. heap' = [heap EXCEPT ![a] = <<cell>> \o rest]
    BY <1>3 DEF PrioritizeReturn
  <2> HIDE DEF cell, rest
  <2>4. ToSet(<<cell>> \o rest) = ToSet(rest) \cup {cell}
    BY <2>1, PutFirst
  <2> QED BY <1>1, <2>2, <2>3, <2>4
<1>4. CASE ReorderReturn(c)
  <2>1. heap' = [heap EXCEPT ![a] = Swap(heap[a], i, j)] /\ j \in Nat \ {0}
    BY <1>1, <1>4 DEF ReorderReturn
  <2>2. ToSet(heap[a]) \subseteq ToSet(Swap(heap[a], i, j))
    BY <1>1, <1>2, <2>1, SwapLosesNone
  <2> QED BY <1>1, <2>1, <2>2
<1> QED BY <1>3, <1>4

-----------------------------------------------------------------------------
(* Steps *)

\* A call begins that removes nothing.
LEMMA BeginsKeeping ==
  ASSUME QueueInv, KeepInv, NEW c \in Caller, NEW x, op' = [op EXCEPT ![c] = x],
         boot = "ready", boot' = "ready", UNCHANGED <<rows, heap, cur, accepted>>,
         x.kind = "push" => x.phase = "sent" /\ cur \in {NoArray, x.arr}
  PROVE  KeepInv' /\ Stays
<1>1. op'[c] = x /\ \A d \in Caller \ {c} : op'[d] = op[d]
  BY DEF QueueInv, QueueTypeOK
<1>2. Mem' = Mem
  BY DEF Mem
<1>3. \A d \in Caller : Pushed(d)'
  BY <1>1 DEF Pushed, KeepInv
<1> QED BY <1>2, <1>3 DEF KeepInv, Stays, Queued

LEMMA BeginsKeep ==
  ASSUME QueueInv, OnceInv, KeepInv, ~EarlyCalls, NEW c \in Caller, NEW t \in Turn,
         \/ PushBegin(c, t) \/ PrioritizeBegin(c, t)
         \/ \E up \in BOOLEAN : ReorderBegin(c, t, up)
  PROVE  KeepInv' /\ Stays
<1>1. /\ boot = "ready" /\ boot' = "ready" /\ UNCHANGED <<rows, heap, cur, accepted>>
  BY CallsAreLate DEF PushBegin, PrioritizeBegin, ReorderBegin
<1>2. CASE PushBegin(c, t)
  <2> DEFINE x == Sent("push", t, IF cur = NoArray THEN t ELSE cur, 0, 0)
  <2>1. /\ op' = [op EXCEPT ![c] = x] /\ x.kind = "push" /\ x.phase = "sent"
        /\ cur \in {NoArray, x.arr}
    BY <1>2 DEF PushBegin, Sent
  <2> HIDE DEF x
  <2> QED BY <1>1, <2>1, BeginsKeeping
<1>3. ASSUME PrioritizeBegin(c, t) PROVE KeepInv' /\ Stays
  <2>1. PICK i \in DOMAIN Mem : op' = [op EXCEPT ![c] = Sent("prioritize", t, cur, i, 0)]
    BY <1>3 DEF PrioritizeBegin
  <2> DEFINE x == Sent("prioritize", t, cur, i, 0)
  <2>2. op' = [op EXCEPT ![c] = x] /\ x.kind = "prioritize"
    BY <2>1 DEF Sent
  <2> HIDE DEF x
  <2> QED BY <1>1, <2>2, BeginsKeeping
<1>4. ASSUME NEW up \in BOOLEAN, ReorderBegin(c, t, up) PROVE KeepInv' /\ Stays
  <2>1. PICK i \in DOMAIN Mem, j \in DOMAIN Mem : op' = [op EXCEPT ![c] = Sent("reorder", t, cur, i, j)]
    BY <1>4 DEF ReorderBegin
  <2> DEFINE x == Sent("reorder", t, cur, i, j)
  <2>2. op' = [op EXCEPT ![c] = x] /\ x.kind = "reorder"
    BY <2>1 DEF Sent
  <2> HIDE DEF x
  <2> QED BY <1>1, <2>2, BeginsKeeping
<1> QED BY <1>2, <1>3, <1>4

LEMMA RemovalBeginsKeeping ==
  ASSUME QueueInv, OnceInv, KeepInv, ~EarlyCalls, NEW c \in Caller, NEW t \in Turn,
         RemoveBegin(c, t)
  PROVE  KeepInv' /\ Stays
<1> DEFINE x == Sent("remove", t, cur, 0, 0)
<1>1. PICK i \in DOMAIN Mem :
        /\ FoundAt(Mem, t, i)
        /\ heap' = [heap EXCEPT ![cur] = RemoveAt(@, i)]
        /\ cur' = IF Len(Mem) = 1 THEN NoArray ELSE cur
  BY DEF RemoveBegin
<1>2. /\ op' = [op EXCEPT ![c] = x] /\ UNCHANGED <<rows, boot, accepted>> /\ boot = "ready"
  BY CallsAreLate DEF RemoveBegin
<1>3. /\ cur \in ArrayRef /\ NoArray \notin ArrayRef /\ heap \in [ArrayRef -> Seq(Turn \cup {Hole})]
      /\ Mem = heap[cur] /\ op \in [Caller -> Call]
  BY <1>1, QueueAssumption DEF Mem, QueueInv, QueueTypeOK, ArrayRef, Boot, NoArray
<1>4. Mem \in Seq(Turn \cup {Hole}) /\ Mem[i] = t
  BY <1>1, <1>3 DEF FoundAt
<1>5. ToSet(Mem) \subseteq ToSet(Mem') \cup {t}
  <2>1. ToSet(Mem) \subseteq ToSet(RemoveAt(Mem, i)) \cup {t}
    BY <1>4, CutLosesOne
  <2>2. CASE Len(Mem) # 1
    BY <1>1, <1>3, <2>1, <2>2 DEF Mem
  <2>3. CASE Len(Mem) = 1
    BY <1>4, <2>3 DEF ToSet
  <2> QED BY <2>2, <2>3
<1>6. x.kind = "remove" /\ x.id = t
  BY DEF Sent
<1> HIDE DEF x
<1>7. op'[c] = x /\ \A d \in Caller \ {c} : op'[d] = op[d]
  BY <1>2, <1>3
<1>8. \A d \in Caller : Pushed(d)'
  BY <1>1, <1>2, <1>6, <1>7 DEF Pushed, KeepInv
<1>9. ToSet(heap'[cur]) \subseteq ToSet(heap[cur])
  BY <1>1, <1>3, <1>4, TakenOut
<1>10. \A a \in ArrayRef : a # cur => heap'[a] = heap[a]
  BY <1>1, <1>3
\* The array that leaves the map is empty.
<1>11. Len(Mem) = 1 => ToSet(heap'[cur]) = {}
  <2>1. Len(Mem) = 1 => Len(RemoveAt(Mem, i)) = 0 /\ RemoveAt(Mem, i) \in Seq(Turn \cup {Hole})
    BY <1>4, Cut
  <2>2. heap'[cur] = RemoveAt(Mem, i)
    BY <1>1, <1>3
  <2> QED BY <2>1, <2>2 DEF ToSet
<1>12. \A a \in ArrayRef : a # cur' => ToSet(heap'[a]) \subseteq {Hole}
  BY <1>1, <1>10, <1>11 DEF KeepInv
<1>13. \A a \in ArrayRef : ToSet(heap'[a]) \subseteq ToSet(rows') \cup {Hole}
  BY <1>2, <1>9, <1>10 DEF KeepInv
<1>14. KeepInv'
  BY <1>2, <1>8, <1>12, <1>13 DEF KeepInv
<1>15. Removing(t)'
  BY <1>6, <1>7 DEF Removing
<1> QED BY <1>2, <1>5, <1>14, <1>15 DEF Stays, Queued

\* host-core deletes the row of a record that has left memory, and no other one.
LEMMA StoreKeepsRows ==
  ASSUME QueueInv, OnceInv, KeepInv, ~EarlyCalls, OwnKeys, NEW c \in Caller, StoreStep(c)
  PROVE  KeepInv' /\ Stays
<1>1. op[c].kind # "idle" /\ UNCHANGED <<heap, cur, boot, listed, accepted>>
  BY DEF StoreStep, StorePush, StoreRemove, StorePrioritize, StoreReorder
<1>2. PICK t \in Turn : t = op[c].id
  BY <1>1, CallsNameTurns
<1>3. /\ boot = "ready" /\ op \in [Caller -> Call] /\ rows \in Seq(Turn) /\ NoTwice(rows)
  BY <1>1, CallsAreLate DEF QueueInv, QueueTypeOK
<1>4. Mem' = Mem
  BY <1>1 DEF Mem
<1>5. PICK p : op' = [op EXCEPT ![c].phase = p]
  BY DEF StoreStep, StorePush, StoreRemove, StorePrioritize, StoreReorder
<1>6. /\ op'[c].kind = op[c].kind /\ op'[c].id = t /\ op'[c].arr = op[c].arr /\ op'[c].phase = p
      /\ \A d \in Caller \ {c} : op'[d] = op[d]
  BY <1>2, <1>3, <1>5 DEF Call
<1>7. Stays
  BY <1>1, <1>3, <1>4 DEF Stays, Queued
\* The table has what it had, but for the record of a remove.
<1>8. ASSUME ToSet(rows) \subseteq ToSet(rows') \cup (IF op[c].kind = "remove" THEN {t} ELSE {}),
             op[c].kind = "push" /\ p = "ok" => t \in ToSet(rows')
      PROVE  KeepInv'
  <2>1. op[c].kind = "remove" => \A a \in ArrayRef : t \notin ToSet(heap[a])
    BY <1>2 DEF OnceInv, Carried, Carries
  <2>2. \A a \in ArrayRef : ToSet(heap'[a]) \subseteq ToSet(rows') \cup {Hole}
    BY <1>1, <1>3, <1>8, <2>1 DEF KeepInv
  <2>3. Pushed(c)'
    BY <1>1, <1>6, <1>8 DEF KeepInv, Pushed
  <2>4. ASSUME NEW d \in Caller, d # c PROVE Pushed(d)'
    <3>1. op'[d] = op[d] /\ Pushed(d)
      BY <1>6, <2>4 DEF KeepInv
    <3>2. op[c].kind = "remove" /\ op[d].kind = "push" => op[d].id # t
      BY <1>2, <2>4 DEF OnceInv, Carried, Carries
    <3> QED BY <1>1, <1>8, <3>1, <3>2 DEF Pushed
  <2> QED BY <1>1, <1>3, <2>2, <2>3, <2>4 DEF KeepInv
<1>9. CASE StorePush(c)
  <2>1. op[c].kind = "push" /\ op[c].phase = "sent"
    BY <1>9 DEF StorePush
  <2>2. t \notin ToSet(rows)
    BY <1>2, <2>1 DEF QueueInv, PushedAfresh, Pushing, Nowhere
  <2>3. ToSet(rows) \subseteq Turn
    BY <1>3 DEF ToSet
  <2>4. SameKey(t) = {}
    BY <2>2, <2>3 DEF SameKey, OwnKeys
  <2>5. ToSet(Append(rows, t)) = ToSet(rows) \cup {t}
    BY <1>2, <1>3, Appended
  <2>6. PICK fits \in BOOLEAN : /\ rows' = IF fits THEN Append(rows, t) ELSE rows
                                /\ op' = [op EXCEPT ![c].phase = IF fits THEN "ok" ELSE "refused"]
    BY <1>2, <1>9, <2>4 DEF StorePush
  <2>7. p = IF fits THEN "ok" ELSE "refused"
    BY <1>3, <1>6, <2>6 DEF Call
  <2> QED BY <1>7, <1>8, <2>1, <2>5, <2>6, <2>7
<1>10. CASE StoreRemove(c)
  <2>1. ToSet(rows') = ToSet(rows) \ {t} /\ op[c].kind = "remove"
    BY <1>2, <1>3, <1>10, TakenOutByName DEF StoreRemove
  <2> QED BY <1>7, <1>8, <2>1
<1>11. CASE StorePrioritize(c)
  <2>1. Without(rows, t) \in Seq(Turn) /\ ToSet(Without(rows, t)) = ToSet(rows) \ {t}
    BY <1>3, TakenOutByName
  <2>2. ToSet(<<t>> \o Without(rows, t)) = ToSet(Without(rows, t)) \cup {t}
    BY <2>1, PutFirst
  <2>3. op[c].kind = "prioritize" /\ rows' \in {rows, <<t>> \o Without(rows, t)}
    BY <1>2, <1>11 DEF StorePrioritize
  <2> QED BY <1>7, <1>8, <2>1, <2>2, <2>3
<1>12. CASE StoreReorder(c)
  <2>1. rows' = rows \/ \E i, j \in DOMAIN rows : rows' = Swap(rows, i, j)
    BY <1>12 DEF StoreReorder, At, ToSet
  <2>2. ToSet(rows') = ToSet(rows) /\ op[c].kind = "reorder"
    BY <1>3, <1>12, <2>1, SwappedInside DEF StoreReorder
  <2> QED BY <1>7, <1>8, <2>2
<1> QED BY <1>9, <1>10, <1>11, <1>12 DEF StoreStep

LEMMA ReturnKeepsQueued ==
  ASSUME QueueInv, OnceInv, KeepInv, OnePush, ~EarlyCalls, NEW c \in Caller,
         ReturnStep(c) \/ CallRejects(c)
  PROVE  KeepInv' /\ Stays
<1>1. op[c].kind # "idle"
  BY DEF ReturnStep, PushReturn, RemoveReturn, PrioritizeReturn, ReorderReturn, CallRejects,
         QueueInv, Placed
<1>2. /\ op' = [op EXCEPT ![c] = Idle] /\ UNCHANGED <<rows, boot, listed>>
      /\ boot = "ready"
  BY <1>1, CallsAreLate
     DEF ReturnStep, PushReturn, RemoveReturn, PrioritizeReturn, ReorderReturn, CallRejects
<1>3. /\ op \in [Caller -> Call] /\ heap \in [ArrayRef -> Seq(Turn \cup {Hole})]
      /\ cur \in ArrayRef \cup {NoArray} /\ NoArray \notin ArrayRef
  BY QueueAssumption DEF QueueInv, QueueTypeOK, ArrayRef, Boot, NoArray
<1>4. Idle.kind = "idle" /\ op'[c] = Idle /\ \A d \in Caller \ {c} : op'[d] = op[d]
  BY <1>2, <1>3 DEF Idle
<1>7. CASE PushReturn(c)
  <2>1. PICK a \in ArrayRef, t \in Turn : a = op[c].arr /\ t = op[c].id
    BY <1>1, CallsNameTurns DEF QueueInv, Issued
  <2>2. /\ op[c].kind = "push" /\ op[c].phase = "ok" /\ cur' = a
        /\ heap' = [heap EXCEPT ![a] = Append(@, t)] /\ accepted' = accepted \cup {t}
    BY <1>7, <2>1 DEF PushReturn
  <2>3. t \in ToSet(rows) /\ cur \in {NoArray, a}
    BY <2>1, <2>2 DEF KeepInv, Pushed
  <2>4. ToSet(Append(heap[a], t)) = ToSet(heap[a]) \cup {t}
    BY <1>3, <2>1, Appended
  <2>5. ToSet(Mem) \cup {t} \subseteq ToSet(Mem')
    <3>1. Mem' = Append(heap[a], t)
      BY <1>3, <2>1, <2>2 DEF Mem
    <3>2. CASE cur = NoArray
      BY <2>4, <3>1, <3>2 DEF Mem, ToSet
    <3>3. CASE cur = a
      BY <1>3, <2>4, <3>1, <3>3 DEF Mem
    <3> QED BY <2>3, <3>2, <3>3
  <2>6. \A d \in Caller : Pushed(d)'
    BY <1>2, <1>4, <2>2 DEF KeepInv, Pushed, OnePush
  <2>7. /\ heap'[a] = Append(heap[a], t)
        /\ \A b \in ArrayRef : b # a => heap'[b] = heap[b]
    BY <1>3, <2>1, <2>2
  <2>8. \A b \in ArrayRef : ToSet(heap'[b]) \subseteq ToSet(rows') \cup {Hole}
    <3>1. \A b \in ArrayRef : ToSet(heap[b]) \subseteq ToSet(rows) \cup {Hole}
      BY <1>2 DEF KeepInv
    <3>2. ToSet(heap'[a]) \subseteq ToSet(rows) \cup {Hole}
      BY <2>3, <2>4, <2>7, <3>1
    <3> QED BY <1>2, <2>7, <3>1, <3>2
  <2>9. ASSUME NEW b \in ArrayRef, b # cur' PROVE ToSet(heap'[b]) \subseteq {Hole}
    <3>1. b # cur /\ heap'[b] = heap[b]
      BY <1>3, <2>2, <2>3, <2>7, <2>9
    <3> QED BY <3>1 DEF KeepInv
  <2>10. KeepInv'
    BY <1>2, <2>6, <2>8, <2>9 DEF KeepInv
  <2> QED BY <1>2, <2>2, <2>5, <2>10 DEF Stays, Queued
<1>8. CASE ~PushReturn(c)
  <2>1. UNCHANGED <<cur, accepted>>
    BY <1>8 DEF ReturnStep, RemoveReturn, PrioritizeReturn, ReorderReturn, CallRejects
  <2>2. RemoveReturn(c) \/ CallRejects(c) => heap' = heap
    BY DEF RemoveReturn, CallRejects
  <2>3. \A a \in ArrayRef : /\ ToSet(heap[a]) \subseteq ToSet(heap'[a])
                            /\ ToSet(heap'[a]) \subseteq ToSet(heap[a]) \cup {Hole}
    BY <1>8, <2>2, MoveLosesNone, MovesOwn DEF ReturnStep
  <2>4. ToSet(Mem) \subseteq ToSet(Mem')
    BY <1>3, <2>1, <2>3 DEF Mem
  <2>5. \A d \in Caller : Pushed(d)'
    BY <1>2, <1>4, <2>1 DEF KeepInv, Pushed
  <2>6. KeepInv'
    BY <1>2, <2>1, <2>3, <2>5 DEF KeepInv
  <2> QED BY <1>2, <2>1, <2>4, <2>6 DEF Stays, Queued
<1> QED BY <1>7, <1>8

LEMMA RestoreKeeps ==
  ASSUME QueueInv, OnceInv, KeepInv,
         QueueRestart \/ StoreList \/ RestoreReturn \/ Resume \/ UNCHANGED queueVars \/ Elsewhere
  PROVE  KeepInv' /\ Stays
<1>1. /\ ToSet(<<>>) = {} /\ heap \in [ArrayRef -> Seq(Turn \cup {Hole})]
      /\ ToSet(Mem) \subseteq ToSet(rows) \cup {Hole} \/ boot # "ready"
  <2>1. ToSet(<<>>) = {}
    BY DEF ToSet
  <2> QED BY <2>1 DEF QueueInv, QueueTypeOK, KeepInv, Mem
<1>2. CASE QueueRestart
  <2>1. /\ boot' = "listing" /\ UNCHANGED <<rows, accepted>> /\ cur' = NoArray
        /\ heap' = [a \in ArrayRef |-> <<>>] /\ op' = [c \in Caller |-> Idle] /\ Idle.kind = "idle"
    BY <1>2 DEF QueueRestart, Idle
  <2>2. KeepInv'
    BY <1>1, <2>1 DEF KeepInv, Pushed
  <2>3. \A t \in Turn : Queued(t) => t \in ToSet(rows)
    BY <1>1, QueueAssumption DEF Queued
  <2> QED BY <2>1, <2>2, <2>3 DEF Stays, Queued
<1>3. CASE StoreList
  <2>1. /\ boot = "listing" /\ boot' = "listed" /\ listed' = rows
        /\ UNCHANGED <<rows, heap, cur, op, accepted>>
    BY <1>3 DEF StoreList
  <2> QED BY <2>1 DEF KeepInv, Pushed, Stays, Queued
<1>4. CASE RestoreReturn
  <2>1. /\ boot = "listed" /\ boot' = "ready" /\ heap' = [heap EXCEPT ![Boot] = listed]
        /\ cur' = (IF listed = <<>> THEN NoArray ELSE Boot) /\ UNCHANGED <<rows, op, accepted>>
        /\ listed = rows /\ Boot \in ArrayRef /\ NoArray \notin ArrayRef
    BY <1>4, QueueAssumption DEF RestoreReturn, KeepInv, ArrayRef, NoArray, Boot
  <2>2. Mem' = rows
    BY <1>1, <2>1 DEF Mem
  <2>3. \A a \in ArrayRef : heap'[a] = IF a = Boot THEN rows ELSE <<>>
    BY <1>1, <2>1 DEF OnceInv, Restoring
  <2>4. \A c \in Caller : op'[c].kind = "idle"
    BY <2>1 DEF OnceInv, Restoring, Idle
  <2>5. KeepInv'
    BY <1>1, <2>1, <2>3, <2>4 DEF KeepInv, Pushed
  <2> QED BY <2>1, <2>2, <2>5 DEF Stays, Queued
<1>5. CASE Resume \/ UNCHANGED queueVars \/ Elsewhere
  <2>1. UNCHANGED <<rows, heap, cur, boot, listed, op, accepted>>
    BY <1>5 DEF Resume, queueVars, Elsewhere, Bypass
  <2> QED BY <2>1 DEF KeepInv, Mem, Pushed, Stays, Queued
<1> QED BY <1>2, <1>3, <1>4, <1>5

LEMMA KeepStep ==
  ASSUME QueueInv, OnceInv, KeepInv, OnePush, ~EarlyCalls, OwnKeys,
         [QueueNext]_queueVars \/ Elsewhere
  PROVE  KeepInv' /\ Stays
<1>1. ASSUME NEW c \in Caller, ShiftBegin(c) PROVE KeepInv' /\ Stays
  <2>1. Mem \in Seq(Turn \cup {Hole})
    BY DEF QueueInv, QueueTypeOK, Mem
  <2>2. Head(Mem) \in Turn /\ RemoveBegin(c, Head(Mem))
    BY <1>1, <2>1 DEF ShiftBegin
  <2> QED BY <2>2, RemovalBeginsKeeping
<1> QED BY <1>1, BeginsKeep, RemovalBeginsKeeping, StoreKeepsRows, ReturnKeepsQueued, RestoreKeeps
        DEF QueueNext

-----------------------------------------------------------------------------
(* Who has a prompt in hand *)

\* The call of the drain loop changes when the loop takes a record, and when the
\* call returns.
LEMMA DrainerCalls ==
  ASSUME QueueInv, [HostNext]_vars
  PROVE  \/ op'[Drainer].kind = op[Drainer].kind /\ op'[Drainer].id = op[Drainer].id
         \/ op'[Drainer] = Idle
         \/ DrainEnter /\ op'[Drainer].kind = "remove"
<1> DEFINE Goal == \/ op'[Drainer].kind = op[Drainer].kind /\ op'[Drainer].id = op[Drainer].id
                   \/ op'[Drainer] = Idle
                   \/ DrainEnter /\ op'[Drainer].kind = "remove"
<1>1. op \in [Caller -> Call] /\ Drainer \in Caller /\ Client = Caller \ {Drainer}
  BY HostAssumption DEF QueueInv, QueueTypeOK, Client
<1>2. op'[Drainer] = op[Drainer] => Goal
  OBVIOUS
<1>3. ASSUME NEW c \in Client, NEW x, op' = [op EXCEPT ![c] = x] PROVE op'[Drainer] = op[Drainer]
  BY <1>1, <1>3
<1>4. ASSUME NEW c \in Client, NEW t \in Turn, ClientCall(c, t) PROVE op'[Drainer] = op[Drainer]
  <2>1. CASE StartQueued(c, t) \/ SteerBegin(c, t) \/ CancelBegin(c, t) \/ SendNow(c, t)
    BY <1>3, <2>1 DEF StartQueued, SteerBegin, CancelBegin, SendNow, PushBegin, RemoveBegin,
                      PrioritizeBegin
  <2>2. CASE StartDirect(c, t) \/ CancelStarting(c, t) \/ SendNowMiss(c, t)
    BY <2>2 DEF StartDirect, CancelStarting, SendNowMiss, queueVars
  <2> QED BY <1>4, <2>1, <2>2 DEF ClientCall
<1>5. ASSUME NEW c \in Client, ClientReturn(c) \/ ClientRejected(c) PROVE op'[Drainer] = op[Drainer]
  <2>1. op' = op \/ op' = [op EXCEPT ![c] = Idle]
    BY <1>5 DEF ClientReturn, ClientRejected, QueuedReturn, DirectReturn, DirectRejected,
                RemovedReturn, SendNowReturn, PushReturn, RemoveReturn, PrioritizeReturn,
                CallRejects, queueVars
  <2> QED BY <1>3, <2>1
<1>6. ASSUME DrainStep \/ DrainLost PROVE Goal
  <2>1. CASE DrainEnter
    <3>1. op' = op \/ \E t : op' = [op EXCEPT ![Drainer] = Sent("remove", t, cur, 0, 0)]
      BY <2>1 DEF DrainEnter, ShiftBegin, RemoveBegin, queueVars
    <3>2. \A t : Sent("remove", t, cur, 0, 0).kind = "remove"
      BY DEF Sent
    <3> QED BY <1>1, <2>1, <3>1, <3>2
  <2>2. CASE DrainShifted \/ DrainLost
    BY <1>1, <2>2 DEF DrainShifted, DrainLost, RemoveReturn, CallRejects
  <2>3. CASE DrainStarted \/ DrainAborts \/ DrainAborted \/ DrainFailed \/ ResumeHeld
    BY <1>2, <2>3 DEF DrainStarted, DrainAborts, DrainAborted, DrainFailed, ResumeHeld, Resume,
                      queueVars
  <2> QED BY <1>6, <2>1, <2>2, <2>3 DEF DrainStep
<1>7. ASSUME NEW c \in Caller, MainAccepts(c) \/ MainRefuses(c) PROVE op' = op
  BY <1>7 DEF MainAccepts, MainRefuses, queueVars
<1>8. ASSUME \/ \E c \in Client, i \in Id : Interrupt(c, i)
             \/ \E t \in Turn : LocalPrompt(t)
             \/ Attach \/ RunEnds \/ ReadEvent \/ FinishDone \/ SidecarExit \/ PlanningChanges
             \/ UNCHANGED vars
      PROVE  op' = op
  BY <1>8 DEF Interrupt, LocalPrompt, Attach, RunEnds, ReadEvent, IngestStart, IngestEnd,
              IngestError, FinishDone, SidecarExit, PlanningChanges, queueVars, vars
<1>9. ASSUME StoreWorks \/ HostRestart PROVE Goal
  <2>1. ASSUME NEW c \in Caller, StoreStep(c) PROVE Goal
    <3>1. \E p : op' = [op EXCEPT ![c].phase = p]
      BY <2>1 DEF StoreStep, StorePush, StoreRemove, StorePrioritize, StoreReorder
    <3> QED BY <1>1, <3>1 DEF Call
  <2>2. CASE StoreList \/ RestoreReturn \/ HostRestart
    BY <1>1, <2>2 DEF StoreList, RestoreReturn, HostRestart, QueueRestart
  <2> QED BY <1>9, <2>1, <2>2 DEF StoreWorks
<1> HIDE DEF Goal
<1>10. Goal
  BY <1>2, <1>4, <1>5, <1>6, <1>7, <1>8, <1>9 DEF HostNext
<1> QED BY <1>10 DEF Goal

DrainRemoves == op[Drainer].kind \in {"idle", "remove"}

LEMMA DrainRemovesStep ==
  ASSUME QueueInv, DrainRemoves, [HostNext]_vars
  PROVE  DrainRemoves'
BY DrainerCalls DEF DrainRemoves, Idle

\* A call that removes a record goes on until it returns to its caller or is
\* rejected, or Main restarts.
LEMMA RemoverGoesOn ==
  ASSUME QueueInv, [HostNext]_vars, ~HostRestart, NEW c \in Caller, op[c].kind = "remove"
  PROVE  \/ op'[c].kind = "remove" /\ op'[c].id = op[c].id
         \/ c \in Client /\ RemovedReturn(c)
         \/ c = Drainer /\ DrainShifted
         \/ CallRejects(c)
<1> DEFINE Goal == \/ op'[c].kind = "remove" /\ op'[c].id = op[c].id
                   \/ c \in Client /\ RemovedReturn(c)
                   \/ c = Drainer /\ DrainShifted
                   \/ CallRejects(c)
<1>1. op \in [Caller -> Call] /\ Drainer \in Caller /\ Client = Caller \ {Drainer} /\ op[c] # Idle
  BY HostAssumption DEF QueueInv, QueueTypeOK, Client, Idle
<1>2. op'[c] = op[c] => Goal
  OBVIOUS
<1>3. ASSUME NEW d \in Caller, NEW x, d # c, op' = [op EXCEPT ![d] = x] PROVE op'[c] = op[c]
  BY <1>1, <1>3
<1>4. ASSUME NEW d \in Client, NEW t \in Turn, ClientCall(d, t) PROVE op'[c] = op[c]
  <2>1. CASE StartQueued(d, t) \/ SteerBegin(d, t) \/ CancelBegin(d, t) \/ SendNow(d, t)
    <3>1. op[d] = Idle
      BY <2>1 DEF StartQueued, SteerBegin, CancelBegin, SendNow, Ask, Free
    <3> QED BY <1>1, <1>3, <2>1, <3>1 DEF StartQueued, SteerBegin, CancelBegin, SendNow, PushBegin,
                                          RemoveBegin, PrioritizeBegin
  <2>2. CASE StartDirect(d, t) \/ CancelStarting(d, t) \/ SendNowMiss(d, t)
    BY <2>2 DEF StartDirect, CancelStarting, SendNowMiss, queueVars
  <2> QED BY <1>4, <2>1, <2>2 DEF ClientCall
<1>5. ASSUME NEW d \in Client, ClientReturn(d) \/ ClientRejected(d) PROVE Goal
  <2>1. op' = op \/ op' = [op EXCEPT ![d] = Idle]
    BY <1>5 DEF ClientReturn, ClientRejected, QueuedReturn, DirectReturn, DirectRejected,
                RemovedReturn, SendNowReturn, PushReturn, RemoveReturn, PrioritizeReturn,
                CallRejects, queueVars
  <2>2. CASE d # c
    BY <1>1, <1>2, <1>3, <2>1, <2>2
  <2>3. CASE d = c
    <3>1. ~QueuedReturn(c) /\ ~SendNowReturn(c)
      BY DEF QueuedReturn, PushReturn, SendNowReturn, PrioritizeReturn
    <3>2. DirectReturn(c) \/ DirectRejected(c) => op' = op
      BY DEF DirectReturn, DirectRejected, queueVars
    <3>3. ClientRejected(c) => CallRejects(c)
      BY DEF ClientRejected
    <3> QED BY <1>2, <1>5, <2>3, <3>1, <3>2, <3>3 DEF ClientReturn
  <2> QED BY <2>2, <2>3
<1>6. ASSUME DrainStep \/ DrainLost PROVE Goal
  <2>1. CASE DrainEnter
    <3>1. op' = op \/ (op[Drainer] = Idle /\ \E x : op' = [op EXCEPT ![Drainer] = x])
      BY <2>1 DEF DrainEnter, ShiftBegin, RemoveBegin, CanCall, queueVars
    <3> QED BY <1>1, <1>2, <1>3, <3>1
  <2>2. CASE DrainShifted \/ DrainLost
    <3>1. op' = [op EXCEPT ![Drainer] = Idle] /\ (DrainShifted \/ CallRejects(Drainer))
      BY <2>2 DEF DrainShifted, DrainLost, RemoveReturn, CallRejects
    <3> QED BY <1>1, <1>2, <1>3, <3>1
  <2>3. CASE DrainStarted \/ DrainAborts \/ DrainAborted \/ DrainFailed \/ ResumeHeld
    BY <1>2, <2>3 DEF DrainStarted, DrainAborts, DrainAborted, DrainFailed, ResumeHeld, Resume,
                      queueVars
  <2> QED BY <1>6, <2>1, <2>2, <2>3 DEF DrainStep
<1>7. ASSUME NEW d \in Caller, MainAccepts(d) \/ MainRefuses(d) PROVE op' = op
  BY <1>7 DEF MainAccepts, MainRefuses, queueVars
<1>8. ASSUME \/ \E d \in Client, i \in Id : Interrupt(d, i)
             \/ \E t \in Turn : LocalPrompt(t)
             \/ Attach \/ RunEnds \/ ReadEvent \/ FinishDone \/ SidecarExit \/ PlanningChanges
             \/ UNCHANGED vars
      PROVE  op' = op
  BY <1>8 DEF Interrupt, LocalPrompt, Attach, RunEnds, ReadEvent, IngestStart, IngestEnd,
              IngestError, FinishDone, SidecarExit, PlanningChanges, queueVars, vars
<1>9. ASSUME StoreWorks PROVE Goal
  <2>1. ASSUME NEW d \in Caller, StoreStep(d) PROVE Goal
    <3>1. \E p : op' = [op EXCEPT ![d].phase = p]
      BY <2>1 DEF StoreStep, StorePush, StoreRemove, StorePrioritize, StoreReorder
    <3> QED BY <1>1, <3>1 DEF Call
  <2>2. CASE StoreList \/ RestoreReturn
    BY <1>2, <2>2 DEF StoreList, RestoreReturn
  <2> QED BY <1>9, <2>1, <2>2 DEF StoreWorks
<1> HIDE DEF Goal
<1>10. Goal
  BY <1>2, <1>4, <1>5, <1>6, <1>7, <1>8, <1>9 DEF HostNext
<1> QED BY <1>10 DEF Goal

\* The prompt the loop has in hand, and what has been given to the runtime.
HandInv ==
  /\ drain \in {"off", "shifting"} => port[Drainer] = NoPort
  /\ op[Drainer].kind # "idle" => drain = "shifting"
  /\ drain = "aborting" => port[Drainer].phase = "ok"
  /\ \A c \in Caller : port[c].phase = "ok" => used[port[c].turn] > 0
  /\ \A t \in alias : used[t] > 0

\* The prompt in hand changes in few steps.
LEMMA HandMoves ==
  ASSUME [HostNext]_vars
  PROVE  \/ UNCHANGED port
         \/ \E c \in Client : \E x :
              /\ port' = [port EXCEPT ![c] = x] /\ x.phase \in {"none", "sent"}
              /\ UNCHANGED <<drain, alias>>
         \/ DrainShifted \/ DrainStarted \/ DrainAborted \/ DrainFailed
         \/ \E c \in Caller : MainAccepts(c) \/ MainRefuses(c)
         \/ HostRestart
<1> DEFINE Own == \E c \in Client : \E x :
                    /\ port' = [port EXCEPT ![c] = x] /\ x.phase \in {"none", "sent"}
                    /\ UNCHANGED <<drain, alias>>
<1>1. ASSUME NEW c \in Client, NEW t \in Turn, ClientCall(c, t) PROVE UNCHANGED port \/ Own
  <2>1. CASE StartDirect(c, t)
    <3> DEFINE x == [phase |-> "sent", turn |-> t]
    <3>1. port' = [port EXCEPT ![c] = x] /\ x.phase = "sent" /\ UNCHANGED <<drain, alias>>
      BY <2>1 DEF StartDirect, turnState
    <3> QED BY <3>1
  <2>2. CASE ~StartDirect(c, t)
    BY <1>1, <2>2 DEF ClientCall, StartQueued, SteerBegin, CancelBegin, CancelStarting, SendNow,
                      SendNowMiss, hostVars, loopState
  <2> QED BY <2>1, <2>2
<1>2. ASSUME NEW c \in Client, ClientReturn(c) \/ ClientRejected(c) PROVE UNCHANGED port \/ Own
  <2>1. CASE DirectReturn(c) \/ DirectRejected(c)
    <3>1. port' = [port EXCEPT ![c] = NoPort] /\ NoPort.phase = "none" /\ UNCHANGED <<drain, alias>>
      BY <2>1 DEF DirectReturn, DirectRejected, NoPort, turnState
    <3> QED BY <3>1
  <2>2. CASE QueuedReturn(c) \/ RemovedReturn(c) \/ SendNowReturn(c) \/ ClientRejected(c)
    BY <2>2 DEF QueuedReturn, RemovedReturn, SendNowReturn, ClientRejected
  <2> QED BY <1>2, <2>1, <2>2 DEF ClientReturn
<1>3. ASSUME \/ ResumeHeld \/ DrainEnter \/ DrainAborts \/ DrainLost
             \/ \E c \in Client, i \in Id : Interrupt(c, i)
             \/ \E t \in Turn : LocalPrompt(t)
             \/ Attach \/ RunEnds \/ ReadEvent \/ FinishDone \/ SidecarExit \/ PlanningChanges
             \/ StoreWorks \/ UNCHANGED vars
      PROVE  UNCHANGED port
  BY <1>3 DEF ResumeHeld, DrainEnter, DrainAborts, DrainLost, Interrupt, LocalPrompt, Attach, RunEnds,
              ReadEvent, IngestStart, IngestEnd, IngestError, FinishDone, SidecarExit,
              PlanningChanges, StoreWorks, vars, hostVars, loopState
<1> HIDE DEF Own
<1>4. \/ UNCHANGED port \/ Own \/ DrainShifted \/ DrainStarted \/ DrainAborted \/ DrainFailed
      \/ \E c \in Caller : MainAccepts(c) \/ MainRefuses(c)
      \/ HostRestart
  BY <1>1, <1>2, <1>3 DEF HostNext, DrainStep
<1> QED BY <1>4 DEF Own

\* So do the phase of the loop and the aliases.
LEMMA LoopMoves ==
  ASSUME [HostNext]_vars
  PROVE  /\ \/ UNCHANGED drain
            \/ DrainEnter \/ DrainShifted \/ DrainLost \/ DrainStarted \/ DrainAborts
            \/ DrainAborted \/ DrainFailed \/ HostRestart
         /\ UNCHANGED alias \/ DrainStarted \/ HostRestart
<1>1. ASSUME NEW c \in Client, \/ \E t \in Turn : ClientCall(c, t)
                               \/ ClientReturn(c) \/ ClientRejected(c)
                               \/ \E i \in Id : Interrupt(c, i)
      PROVE  UNCHANGED <<drain, alias>>
  BY <1>1 DEF ClientCall, StartQueued, StartDirect, SteerBegin, CancelBegin, CancelStarting,
       SendNow, SendNowMiss, ClientReturn, QueuedReturn, DirectReturn, DirectRejected,
       RemovedReturn, SendNowReturn, ClientRejected, Interrupt, hostVars, turnState, loopState
<1>2. DrainStep \/ DrainLost => UNCHANGED alias \/ DrainStarted
  BY DEF DrainStep, ResumeHeld, DrainEnter, DrainShifted, DrainAborts, DrainAborted, DrainFailed,
         DrainLost, turnState
<1>3. ResumeHeld => UNCHANGED drain
  BY DEF ResumeHeld
<1>4. ASSUME \/ \E c \in Caller : MainAccepts(c) \/ MainRefuses(c)
             \/ \E t \in Turn : LocalPrompt(t)
             \/ Attach \/ RunEnds \/ ReadEvent \/ FinishDone \/ SidecarExit \/ PlanningChanges
             \/ StoreWorks \/ UNCHANGED vars
      PROVE  UNCHANGED <<drain, alias>>
  BY <1>4 DEF MainAccepts, MainRefuses, LocalPrompt, Attach, RunEnds, ReadEvent, IngestStart,
              IngestEnd, IngestError, FinishDone, SidecarExit, PlanningChanges, StoreWorks, vars,
              hostVars, turnState, loopState
<1> QED BY <1>1, <1>2, <1>3, <1>4 DEF HostNext, DrainStep

LEMMA UsedStays ==
  ASSUME HostInv, [HostNext]_vars, NEW t \in Turn, used[t] > 0
  PROVE  used'[t] > 0
<1>1. used \in [Turn -> Nat]
  BY DEF HostInv, HostTypes, UsedType
<1>2. ASSUME NEW u \in Turn, used' = [used EXCEPT ![u] = @ + 1] PROVE used'[t] > 0
  BY <1>1, <1>2
<1> QED BY <1>2, UsedStep

LEMMA HandStep ==
  ASSUME HostInv, HandInv, [HostNext]_vars
  PROVE  HandInv'
<1>1. /\ QueueInv /\ LoopTypes /\ alias \subseteq Turn /\ Drainer \in Caller
      /\ Client = Caller \ {Drainer} /\ used \in [Turn -> Nat]
      /\ port \in [Caller -> [phase : {"none", "sent", "ok", "failed"}, turn : Turn \cup {NoTurn}]]
      /\ NoPort.phase = "none" /\ Idle.kind = "idle"
  BY HostAssumption DEF HostInv, HostTypes, TurnTypes, UsedType, LoopTypes, Client, NoPort, Idle
<1>2. \A t \in Turn : used[t] > 0 => used'[t] > 0
  BY UsedStays
<1>3. \A c \in Caller : port[c].phase # "none" => port[c].turn \in Turn
  BY <1>1 DEF LoopTypes
\* The loop's own call.
<1>4. op'[Drainer].kind # "idle" => drain' = "shifting"
  <2>1. CASE DrainEnter
    BY <2>1, <1>1 DEF DrainEnter, HandInv, queueVars
  <2>2. CASE ~DrainEnter /\ op'[Drainer].kind # "idle"
    <3>1. op[Drainer].kind = op'[Drainer].kind /\ drain = "shifting"
      BY <1>1, <2>2, DrainerCalls DEF HandInv
    <3>2. ~DrainShifted /\ ~DrainLost /\ ~HostRestart
      BY <1>1, <2>2 DEF DrainShifted, DrainLost, RemoveReturn, CallRejects, HostRestart, QueueRestart,
                        QueueInv, QueueTypeOK
    <3>3. ~DrainStarted /\ ~DrainAborts /\ ~DrainAborted /\ ~DrainFailed
      BY <3>1 DEF DrainStarted, DrainAborts, DrainAborted, DrainFailed, Prompted
    <3> QED BY <2>2, <3>1, <3>2, <3>3, LoopMoves
  <2> QED BY <2>1, <2>2
<1>5. \A t \in alias' : used'[t] > 0
  <2>1. CASE UNCHANGED alias
    BY <1>1, <1>2, <2>1 DEF HandInv
  <2>2. CASE DrainStarted
    <3>1. port[Drainer].phase = "ok" /\ alias' = alias \cup {port[Drainer].turn}
      BY <2>2 DEF DrainStarted, Prompted
    <3>2. port[Drainer].turn \in Turn /\ used[port[Drainer].turn] > 0
      BY <1>1, <1>3, <3>1 DEF HandInv
    <3> QED BY <1>1, <1>2, <3>1, <3>2 DEF HandInv
  <2>3. CASE HostRestart
    BY <2>3 DEF HostRestart
  <2> QED BY <2>1, <2>2, <2>3, LoopMoves
<1>6. \A c \in Caller : port'[c].phase = "ok" => used'[port'[c].turn] > 0
  <2>1. ASSUME NEW c \in Caller, port[c].phase = "ok", port'[c] = port[c] PROVE used'[port'[c].turn] > 0
    BY <1>2, <1>3, <2>1 DEF HandInv
  <2>2. CASE UNCHANGED port
    BY <2>1, <2>2
  <2>3. ASSUME NEW d \in Caller, NEW x, port' = [port EXCEPT ![d] = x], x.phase # "ok"
        PROVE  \A c \in Caller : port'[c].phase = "ok" => used'[port'[c].turn] > 0
    BY <1>1, <2>1, <2>3
  <2>4. ASSUME DrainShifted \/ DrainStarted \/ DrainAborted \/ DrainFailed
        PROVE  \E x : port' = [port EXCEPT ![Drainer] = x] /\ x.phase # "ok"
    BY <1>1, <2>4 DEF DrainShifted, DrainStarted, DrainAborted, DrainFailed
  <2>5. ASSUME NEW d \in Caller, MainAccepts(d)
        PROVE  \A c \in Caller : port'[c].phase = "ok" => used'[port'[c].turn] > 0
    <3>1. /\ port[d].phase = "sent" /\ port' = [port EXCEPT ![d].phase = "ok"]
          /\ used' = [used EXCEPT ![port[d].turn] = @ + 1]
      BY <2>5 DEF MainAccepts, StartRun
    <3>2. port'[d].turn = port[d].turn /\ port[d].turn \in Turn
      BY <1>1, <1>3, <3>1
    <3>3. used'[port[d].turn] > 0
      BY <1>1, <3>1, <3>2
    <3>4. \A c \in Caller : c # d => port'[c] = port[c]
      BY <1>1, <3>1
    <3> QED BY <2>1, <3>2, <3>3, <3>4
  <2>6. ASSUME NEW d \in Caller, MainRefuses(d)
        PROVE  \A c \in Caller : port'[c].phase = "ok" => used'[port'[c].turn] > 0
    <3>1. port' = [port EXCEPT ![d].phase = "failed"]
      BY <2>6 DEF MainRefuses
    <3>2. port'[d].phase = "failed" /\ \A c \in Caller : c # d => port'[c] = port[c]
      BY <1>1, <3>1
    <3> QED BY <2>1, <3>2
  <2>7. CASE HostRestart
    BY <1>1, <2>7 DEF HostRestart
  <2> QED BY <1>1, <2>2, <2>3, <2>4, <2>5, <2>6, <2>7, HandMoves
<1>7. /\ drain' \in {"off", "shifting"} => port'[Drainer] = NoPort
      /\ drain' = "aborting" => port'[Drainer].phase = "ok"
  <2>1. CASE DrainShifted
    BY <2>1 DEF DrainShifted
  <2>2. CASE DrainStarted \/ DrainAborted \/ DrainFailed
    BY <1>1, <2>2 DEF DrainStarted, DrainAborted, DrainFailed
  <2>3. CASE HostRestart
    BY <1>1, <2>3 DEF HostRestart
  <2>4. CASE DrainEnter \/ DrainLost
    <3>1. CASE DrainEnter /\ CanShift
      <4>1. drain = "off" /\ drain' = "shifting" /\ port' = port
        BY <3>1 DEF DrainEnter, CanShift
      <4> QED BY <4>1 DEF HandInv
    <3>2. CASE DrainEnter /\ ~CanShift
      <4>1. drain' = drain /\ port' = port
        BY <3>2 DEF DrainEnter
      <4> QED BY <4>1 DEF HandInv
    <3>3. CASE DrainLost
      <4>1. op[Drainer].phase # "none" /\ drain' = "off" /\ port' = port
        BY <3>3, <1>1 DEF DrainLost, CallRejects
      <4>2. op[Drainer].kind # "idle"
        BY <1>1, <4>1 DEF QueueInv, Placed
      <4> QED BY <4>1, <4>2 DEF HandInv
    <3> QED BY <2>4, <3>1, <3>2, <3>3
  <2>5. CASE DrainAborts
    BY <2>5 DEF DrainAborts, Prompted
  <2>6. CASE UNCHANGED drain /\ ~DrainEnter /\ ~DrainLost /\ ~DrainAborts
    <3>1. CASE port'[Drainer] = port[Drainer]
      BY <2>6, <3>1 DEF HandInv
    <3>2. ASSUME NEW c \in Client, NEW x, port' = [port EXCEPT ![c] = x] PROVE port'[Drainer] = port[Drainer]
      BY <1>1, <3>2
    <3>3. ASSUME NEW c \in Caller, MainAccepts(c) \/ MainRefuses(c), c = Drainer
          PROVE  drain \notin {"off", "shifting", "aborting"}
      <4>1. port[Drainer].phase = "sent"
        BY <3>3 DEF MainAccepts, MainRefuses
      <4> QED BY <1>1, <4>1 DEF HandInv
    <3>4. ASSUME NEW c \in Caller, MainAccepts(c) \/ MainRefuses(c), c # Drainer
          PROVE  port'[Drainer] = port[Drainer]
      BY <1>1, <3>4 DEF MainAccepts, MainRefuses
    <3> QED BY <2>1, <2>2, <2>3, <2>6, <3>1, <3>2, <3>3, <3>4, HandMoves
  <2> QED BY <2>1, <2>2, <2>3, <2>4, <2>5, <2>6, LoopMoves
<1> QED BY <1>4, <1>5, <1>6, <1>7 DEF HandInv

-----------------------------------------------------------------------------
(* What becomes of a prompt *)

LEMMA OnlyRestart ==
  ASSUME [HostNext]_vars, ~HostRestart
  PROVE  UNCHANGED restarts
<1>1. CASE UNCHANGED vars
  BY <1>1 DEF vars, queueVars
<1>2. CASE StoreWorks
  <2>1. ASSUME NEW c \in Caller, StoreStep(c) PROVE UNCHANGED restarts
    BY <2>1 DEF StoreStep, StorePush, StoreRemove, StorePrioritize, StoreReorder
  <2> QED BY <1>2, <2>1 DEF StoreWorks, StoreList, RestoreReturn
<1>3. CASE ResumeHeld
  BY <1>3 DEF ResumeHeld, Resume
<1> QED BY <1>1, <1>2, <1>3, HeldStays

\* An event is taken for a prompt that runs, or for the head of the queue.
LEMMA EventsName ==
  ASSUME QueueInv, RunTypes, wire # <<>>, NEW t \in Turn, t = Resolve(Head(wire).turn)
  PROVE  t \in alias \cup ToSet(Mem)
<1>1. Head(wire).turn \in Turn /\ RunId(Head(wire).turn) # t
  BY EventsAreTyped, RunIds
<1>2. Mem \in Seq(Turn \cup {Hole})
  BY DEF QueueInv, QueueTypeOK, Mem
<1>3. Mem # <<>> => Head(Mem) \in ToSet(Mem)
  BY <1>2 DEF ToSet
<1> QED BY <1>1, <1>3 DEF Resolve

\* How the status of a record changes.
LEMMA StatusMoves ==
  ASSUME HostInv, [HostNext]_vars, NEW t \in Turn
  PROVE  \/ status'[t] = status[t]
         \/ /\ status'[t] = "queued"
            /\ \/ \E c \in Client : QueuedReturn(c) /\ op[c].id = t
               \/ status[t] = "unknown" /\ t \in ToSet(Mem)
               \/ status[t] = "unknown" /\ DrainShifted /\ op[Drainer].id = t
         \/ /\ status'[t] = "canceled"
            /\ \E c \in Client : \/ RemovedReturn(c) /\ op[c].id = t
                                 \/ CancelStarting(c, t)
         \/ DrainStarted /\ port[Drainer].turn = t /\ status'[t] = "running"
         \/ DrainFailed /\ port[Drainer].turn = t /\ status'[t] = "failed"
         \/ /\ ReadEvent /\ t \in alias \cup ToSet(Mem)
            /\ status'[t] \in {"running", "completed", "failed"}
         \/ HostRestart /\ status'[t] = "unknown"
<1> DEFINE Goal ==
         \/ status'[t] = status[t]
         \/ /\ status'[t] = "queued"
            /\ \/ \E c \in Client : QueuedReturn(c) /\ op[c].id = t
               \/ status[t] = "unknown" /\ t \in ToSet(Mem)
               \/ status[t] = "unknown" /\ DrainShifted /\ op[Drainer].id = t
         \/ /\ status'[t] = "canceled"
            /\ \E c \in Client : \/ RemovedReturn(c) /\ op[c].id = t
                                 \/ CancelStarting(c, t)
         \/ DrainStarted /\ port[Drainer].turn = t /\ status'[t] = "running"
         \/ DrainFailed /\ port[Drainer].turn = t /\ status'[t] = "failed"
         \/ /\ ReadEvent /\ t \in alias \cup ToSet(Mem)
            /\ status'[t] \in {"running", "completed", "failed"}
         \/ HostRestart /\ status'[t] = "unknown"
<1>1. /\ QueueInv /\ OnceInv /\ LoopTypes /\ RunTypes /\ status \in [Id -> Status]
      /\ Client \subseteq Caller /\ Drainer \in Caller /\ t \in Id
  BY HostAssumption, RunIds DEF HostInv, HostTypes, TurnTypes, Client
<1>2. status' = status => Goal
  OBVIOUS
<1>3. ASSUME NEW i, NEW s, status' = [status EXCEPT ![i] = s], i # t PROVE Goal
  <2>1. status'[t] = status[t]
    BY <1>1, <1>3
  <2> QED BY <2>1
<1>4. ASSUME NEW c \in Client, NEW u \in Turn, ClientCall(c, u) PROVE Goal
  <2>1. CASE CancelStarting(c, u) /\ u = t
    BY <1>1, <2>1 DEF CancelStarting
  <2>2. CASE CancelStarting(c, u) /\ u # t
    BY <1>3, <2>2 DEF CancelStarting
  <2>3. CASE ~CancelStarting(c, u)
    <3>1. status' = status
      BY <1>4, <2>3 DEF ClientCall, StartQueued, StartDirect, SteerBegin, CancelBegin,
                        SendNow, SendNowMiss, hostVars, turnState
    <3> QED BY <1>2, <3>1
  <2> QED BY <2>1, <2>2, <2>3
<1>5. ASSUME NEW c \in Client, QueuedReturn(c) PROVE Goal
  <2>1. CASE op[c].id = t
    BY <1>1, <1>5, <2>1 DEF QueuedReturn
  <2>2. CASE op[c].id # t
    BY <1>3, <1>5, <2>2 DEF QueuedReturn
  <2> QED BY <2>1, <2>2
<1>6. ASSUME NEW c \in Client, RemovedReturn(c) PROVE Goal
  <2>1. CASE op[c].id = t
    BY <1>1, <1>6, <2>1 DEF RemovedReturn
  <2>2. CASE op[c].id # t
    BY <1>3, <1>6, <2>2 DEF RemovedReturn
  <2> QED BY <2>1, <2>2
<1>7. ASSUME NEW c \in Client, DirectReturn(c) PROVE Goal
  <2>1. port[c].turn \in Turn /\ status' = [status EXCEPT ![RunId(port[c].turn)] = "running"]
    BY <1>1, <1>7 DEF DirectReturn, LoopTypes
  <2>2. RunId(port[c].turn) # t
    BY <2>1, RunIds
  <2> QED BY <1>3, <2>1, <2>2
<1>8. ASSUME NEW c \in Client, DirectRejected(c) \/ SendNowReturn(c) \/ ClientRejected(c) PROVE Goal
  BY <1>2, <1>8 DEF DirectRejected, SendNowReturn, ClientRejected, turnState
<1>9. ASSUME Attach PROVE Goal
  BY <1>1, <1>9 DEF Attach
<1>10. ASSUME DrainShifted PROVE Goal
  <2>1. CASE op[Drainer].id = t
    <3>1. status'[t] = IF status[t] = "unknown" THEN "queued" ELSE status[t]
      BY <1>1, <1>10, <2>1 DEF DrainShifted
    <3> QED BY <1>10, <2>1, <3>1
  <2>2. CASE op[Drainer].id # t
    <3>1. status'[t] = status[t]
      BY <1>1, <1>10, <2>2 DEF DrainShifted
    <3> QED BY <3>1
  <2> QED BY <2>1, <2>2
<1>11. ASSUME DrainStarted \/ DrainFailed PROVE Goal
  <2>1. CASE port[Drainer].turn = t
    BY <1>1, <1>11, <2>1 DEF DrainStarted, DrainFailed
  <2>2. CASE port[Drainer].turn # t
    BY <1>3, <1>11, <2>2 DEF DrainStarted, DrainFailed
  <2> QED BY <2>1, <2>2
<1>12. ASSUME ResumeHeld \/ DrainEnter \/ DrainAborts \/ DrainAborted \/ DrainLost PROVE Goal
  BY <1>2, <1>12 DEF ResumeHeld, DrainEnter, DrainAborts, DrainAborted, DrainLost, turnState
<1>13. ASSUME ReadEvent PROVE Goal
  <2> DEFINE i == Resolve(Head(wire).turn)
  <2>1. /\ wire # <<>>
        /\ \/ status' = status
           \/ \E s \in {"running", "completed", "failed"} : status' = [status EXCEPT ![i] = s]
    BY <1>13 DEF ReadEvent, IngestStart, IngestEnd, IngestError, Close, Read
  <2>2. i = t => t \in alias \cup ToSet(Mem)
    BY <1>1, <2>1, EventsName
  <2> HIDE DEF i
  <2>3. ASSUME NEW s \in {"running", "completed", "failed"}, status' = [status EXCEPT ![i] = s], i = t
        PROVE  Goal
    BY <1>1, <1>13, <2>2, <2>3
  <2> QED BY <1>2, <1>3, <2>1, <2>3
<1>14. ASSUME HostRestart PROVE Goal
  BY <1>1, <1>14 DEF HostRestart
<1>15. ASSUME \/ \E c \in Client, i \in Id : Interrupt(c, i)
              \/ \E u \in Turn : LocalPrompt(u)
              \/ \E c \in Caller : MainAccepts(c) \/ MainRefuses(c)
              \/ RunEnds \/ FinishDone \/ SidecarExit \/ PlanningChanges \/ StoreWorks \/ UNCHANGED vars
       PROVE  status' = status
  BY <1>15 DEF Interrupt, LocalPrompt, MainAccepts, MainRefuses, RunEnds, FinishDone, SidecarExit,
               PlanningChanges, StoreWorks, vars, hostVars, turnState
<1> HIDE DEF Goal
<1>16. ASSUME NEW c \in Client, ClientReturn(c) \/ ClientRejected(c) PROVE Goal
  BY <1>5, <1>6, <1>7, <1>8, <1>16 DEF ClientReturn
<1>17. DrainStep \/ DrainLost => Goal
  BY <1>10, <1>11, <1>12 DEF DrainStep
<1>18. \/ \E c \in Client, u \in Turn : ClientCall(c, u)
       \/ \E c \in Client : ClientReturn(c) \/ ClientRejected(c)
       \/ Attach \/ DrainStep \/ DrainLost \/ ReadEvent \/ HostRestart
       \/ status' = status
  BY <1>15 DEF HostNext
<1>19. Goal
  BY <1>2, <1>4, <1>9, <1>13, <1>14, <1>16, <1>17, <1>18
<1> QED BY <1>19 DEF Goal

\* What is reported as queued is in memory.
LEMMA PushReturnQueues ==
  ASSUME HostInv, ~EarlyCalls, NEW c \in Caller, PushReturn(c), NEW t \in Turn, t = op[c].id
  PROVE  Queued(t)'
<1> DEFINE a == op[c].arr
<1>1. op[c].kind # "idle" /\ QueueInv /\ OnceInv
  BY DEF PushReturn, HostInv
<1>2. /\ a \in ArrayRef /\ heap \in [ArrayRef -> Seq(Turn \cup {Hole})]
      /\ boot = "ready" /\ NoArray \notin ArrayRef
  BY <1>1, CallsAreLate, QueueAssumption
     DEF QueueInv, Issued, QueueTypeOK, ArrayRef, NoArray, Boot
<1>3. heap' = [heap EXCEPT ![a] = Append(@, t)] /\ cur' = a /\ boot' = boot
  BY DEF PushReturn
<1> HIDE DEF a
<1>4. Mem' = Append(heap[a], t) /\ heap[a] \in Seq(Turn \cup {Hole})
  BY <1>2, <1>3 DEF Mem
<1>5. t \in ToSet(Mem')
  BY <1>2, <1>4, Appended
<1> QED BY <1>2, <1>3, <1>5 DEF Queued

\* Where a prompt goes from where it is.
LEMMA KeptStep ==
  ASSUME HostInv, KeepInv, DrainRemoves, HandInv, OnePush, ~EarlyCalls, OwnKeys, [HostNext]_vars,
         NEW t \in Turn, Kept(t)
  PROVE  Kept(t)' \/ RemoveLost(t) \/ LostInStart(t)
<1>1. /\ QueueInv /\ OnceInv /\ LoopTypes /\ Drainer \in Caller /\ Client = Caller \ {Drainer}
      /\ restarts \in Nat /\ NoTurn \notin Turn /\ op \in [Caller -> Call]
      /\ port \in [Caller -> [phase : {"none", "sent", "ok", "failed"}, turn : Turn \cup {NoTurn}]]
  BY HostAssumption, QueueAssumption DEF HostInv, HostTypes, LoopTypes, Client, QueueInv, QueueTypeOK
<1>2. Stays
  BY <1>1, HostStepsQueue, KeepStep DEF QueueInv
<1>3. CASE Queued(t)
  BY <1>2, <1>3 DEF Stays, Removing, Kept, InHand
<1>4. CASE HostRestart
  <2>1. restarts' # restarts
    BY <1>1, <1>4 DEF HostRestart, QueueRestart
  <2> QED BY <1>3, <2>1 DEF LostInStart
<1>5. ASSUME ~HostRestart, NEW c \in Caller, op[c].kind = "remove", op[c].id = t
      PROVE  Kept(t)' \/ RemoveLost(t)
  <2>1. CASE op'[c].kind = "remove" /\ op'[c].id = op[c].id
    BY <1>5, <2>1 DEF Kept, InHand
  <2>2. CASE c \in Client /\ RemovedReturn(c)
    <3>1. status' = [status EXCEPT ![t] = "canceled"] /\ status \in [Id -> Status] /\ t \in Id
      BY <1>5, <2>2, RunIds DEF RemovedReturn, HostInv, HostTypes, TurnTypes
    <3>2. status'[t] = "canceled"
      BY <3>1
    <3> QED BY <3>2 DEF Kept, Answered
  <2>3. CASE c = Drainer /\ DrainShifted
    <3>1. port'[Drainer].turn = t
      BY <1>1, <1>5, <2>3 DEF DrainShifted
    <3> QED BY <3>1 DEF Kept, InHand
  <2>4. CASE CallRejects(c)
    BY <1>5, <2>4 DEF RemoveLost
  <2> QED BY <1>1, <1>5, <2>1, <2>2, <2>3, <2>4, RemoverGoesOn
<1>6. ASSUME used[t] > 0 PROVE Kept(t)'
  BY <1>6, UsedStays DEF Kept, Answered
<1>7. ASSUME ~HostRestart, port[Drainer].turn = t PROVE Kept(t)'
  <2>1. ASSUME port'[Drainer].turn = t PROVE Kept(t)'
    BY <2>1 DEF Kept, InHand
  <2>2. CASE UNCHANGED port
    BY <1>7, <2>1, <2>2
  <2>3. ASSUME NEW c \in Client, NEW x, port' = [port EXCEPT ![c] = x] PROVE Kept(t)'
    BY <1>1, <1>7, <2>1, <2>3
  <2>4. ASSUME NEW c \in Caller, MainAccepts(c) \/ MainRefuses(c) PROVE Kept(t)'
    <3>1. \E p : port' = [port EXCEPT ![c].phase = p]
      BY <2>4 DEF MainAccepts, MainRefuses
    <3>2. port'[Drainer].turn = port[Drainer].turn
      BY <1>1, <3>1
    <3> QED BY <1>7, <2>1, <3>2
  <2>5. ~DrainShifted
    <3>1. ASSUME DrainShifted PROVE FALSE
      <4>1. op[Drainer].kind # "idle"
        BY <3>1 DEF DrainShifted, RemoveReturn
      <4>2. port[Drainer] = NoPort
        BY <4>1 DEF HandInv
      <4> QED BY <1>1, <1>7, <4>2 DEF NoPort
    <3> QED BY <3>1
  <2>6. CASE DrainStarted \/ DrainAborted
    <3>1. port[Drainer].phase = "ok"
      BY <2>6 DEF DrainStarted, DrainAborted, Prompted, HandInv
    <3>2. used[t] > 0
      BY <1>1, <1>7, <3>1 DEF HandInv
    <3> QED BY <1>6, <3>2
  <2>7. CASE DrainFailed
    <3>1. status' = [status EXCEPT ![t] = "failed"] /\ status \in [Id -> Status] /\ t \in Id
      BY <1>7, <2>7, RunIds DEF DrainFailed, HostInv, HostTypes, TurnTypes
    <3>2. status'[t] = "failed"
      BY <3>1
    <3> QED BY <3>2 DEF Kept, Answered
  <2> QED BY <1>7, <2>2, <2>3, <2>4, <2>5, <2>6, <2>7, HandMoves
<1>8. ASSUME ~HostRestart, status[t] \in {"canceled", "failed"}, ~Queued(t) PROVE Kept(t)'
  <2>1. status[t] # "unknown"
    BY <1>8
  <2>2. ASSUME status'[t] \in {"canceled", "failed"} PROVE Kept(t)'
    BY <2>2 DEF Kept, Answered
  <2>3. ASSUME NEW c \in Client, QueuedReturn(c), op[c].id = t PROVE Kept(t)'
    <3>1. PushReturn(c) /\ c \in Caller
      BY <1>1, <2>3 DEF QueuedReturn
    <3> QED BY <2>3, <3>1, PushReturnQueues DEF Kept
  <2>4. CASE DrainStarted /\ port[Drainer].turn = t
    BY <1>7, <1>8, <2>4
  <2>5. ASSUME t \in ToSet(Mem) PROVE FALSE
    <3>1. boot = "ready"
      <4>1. ASSUME boot # "ready" PROVE FALSE
        <5>1. Mem = <<>>
          BY <1>1, <4>1 DEF OnceInv, Restoring, Mem, QueueInv, QueueTypeOK
        <5> QED BY <2>5, <5>1 DEF ToSet
      <4> QED BY <4>1
    <3> QED BY <1>8, <2>5, <3>1 DEF Queued
  <2>6. CASE t \in alias
    BY <1>6, <2>6 DEF HandInv
  <2> QED BY <1>8, <2>1, <2>2, <2>3, <2>4, <2>5, <2>6, StatusMoves
<1> QED BY <1>3, <1>4, <1>5, <1>6, <1>7, <1>8 DEF Kept, InHand, Answered

\* What is known of the host and its queue with one client at a time.
HandedInv == HostInv /\ KeepInv /\ DrainRemoves /\ HandInv

LEMMA HandedInvInit == ASSUME HostInit PROVE HandedInv
<1>1. QueueInv /\ OnceInv
  BY QueueInvInit, OnceInit DEF HostInit
<1>2. HostTypes
  BY HostTypesInit
<1>3. UseInv
  BY DEF HostInit, UseInv, Waits, NoPort
<1>4. KeepInv
  BY DEF HostInit, QueueInit, KeepInv, Pushed, Idle, ToSet
<1>5. DrainRemoves /\ HandInv
  BY HostAssumption DEF HostInit, QueueInit, DrainRemoves, HandInv, Idle, NoPort
<1> QED BY <1>1, <1>2, <1>3, <1>4, <1>5 DEF HandedInv, HostInv

LEMMA HandedInvStep ==
  ASSUME HandedInv, [HostNext]_vars, ~EarlyCalls, OwnKeys, \A c, d \in Client : c = d
  PROVE  HandedInv' /\ OnePush
<1>1. HostInv /\ KeepInv /\ DrainRemoves /\ HandInv /\ QueueInv /\ OnceInv
  BY DEF HandedInv, HostInv
<1>2. OnePush
  BY <1>1 DEF OnePush, DrainRemoves, Client
<1>3. KeepInv'
  BY <1>1, <1>2, HostStepsQueue, KeepStep DEF QueueInv
<1> QED BY <1>1, <1>2, <1>3, HostInvStep, DrainRemovesStep, HandStep DEF HandedInv

\* A prompt that a client was told is queued is in the queue, in hand, given to
\* the runtime once or answered with a cancel or a failure.  It is lost when
\* host-core's answer to its remove is, and when Electron Main restarts while
\* its record is out of the table; nothing else loses it.  One client and the
\* drain loop, whose calls overlap, with lost answers, restarts, cancels,
\* refused prompts and sidecar exits at any time.
THEOREM AcceptedIsKept ==
  ASSUME ~EarlyCalls, OwnKeys, \A c, d \in Client : c = d
  PROVE  HostSpec => NoLossNoRepeat
<1>1. HostInit => HandedInv
  BY HandedInvInit
<1>2. HandedInv /\ [HostNext]_vars
        => /\ HandedInv' /\ UsedOnce'
           /\ \A t \in accepted' : (t \in accepted => Kept(t)) => Kept(t)' \/ RemoveLost(t) \/ LostInStart(t)
  <2> SUFFICES ASSUME HandedInv, [HostNext]_vars
               PROVE  /\ HandedInv' /\ UsedOnce'
                      /\ \A t \in accepted' :
                           (t \in accepted => Kept(t)) => Kept(t)' \/ RemoveLost(t) \/ LostInStart(t)
    OBVIOUS
  <2>1. HandedInv' /\ OnePush
    BY HandedInvStep
  <2>2. HostInv /\ KeepInv /\ DrainRemoves /\ HandInv /\ QueueInv /\ OnceInv
    BY DEF HandedInv, HostInv
  <2>3. accepted' \subseteq Turn
    BY <2>1 DEF HandedInv, HostInv, QueueInv, QueueTypeOK
  <2>4. Stays
    BY <2>1, <2>2, HostStepsQueue, KeepStep DEF QueueInv
  <2>5. UsedOnce'
    BY <2>1 DEF HandedInv, HostInv, UseInv, UsedOnce
  <2>6. ASSUME NEW t \in accepted', t \in accepted => Kept(t)
        PROVE  Kept(t)' \/ RemoveLost(t) \/ LostInStart(t)
    <3>1. CASE t \in accepted
      BY <2>1, <2>2, <2>3, <2>6, <3>1, KeptStep
    <3>2. CASE t \notin accepted
      BY <2>4, <2>6, <3>2 DEF Stays, Kept
    <3> QED BY <3>1, <3>2
  <2> QED BY <2>1, <2>5, <2>6
<1> QED BY <1>1, <1>2, PTL DEF HostSpec, NoLossNoRepeat

-----------------------------------------------------------------------------
(* A canceled turn stays canceled *)

\* The turn of a queued or canceled prompt: its id is used, no push brings it
\* back, no event names it.  A canceled one has left every array.
Down(t) ==
  /\ t \in issued /\ t \notin alias /\ boot = "ready"
  /\ \A c \in Caller : op[c].kind = "push" => op[c].id # t
DownInv ==
  \A t \in Turn :
    /\ status[t] \in {"queued", "canceled"} => Down(t)
    /\ status[t] = "canceled" => \A a \in ArrayRef : t \notin ToSet(heap[a])

\* A prompt with a call that brings or takes it, or in memory, is not running.
LEMMA NotRunning ==
  ASSUME HostInv, HandInv, NEW t \in Turn,
         \/ \E c \in Caller : op[c].kind \in {"push", "remove"} /\ op[c].id = t
         \/ t \in ToSet(Mem)
  PROVE  t \notin alias /\ t \in issued /\ (boot = "ready" \/ EarlyCalls)
<1>1. QueueInv /\ OnceInv /\ used[t] \in Nat
  BY DEF HostInv, HostTypes, UsedType
<1>2. ~Spent(t)
  BY <1>1, CarriedNotSpent, SpentIsOut
<1>3. t \notin alias
  BY <1>1, <1>2 DEF HandInv, HostInv, UseInv
<1>4. t # Hole
  BY QueueAssumption
<1>5. ASSUME t \in ToSet(Mem) PROVE t \in issued /\ boot = "ready"
  <2>1. Mem # <<>>
    BY <1>5 DEF ToSet
  <2>2. cur \in ArrayRef /\ Mem = heap[cur]
    BY <1>1, <2>1 DEF Mem, QueueInv, QueueTypeOK
  <2> QED BY <1>1, <1>4, <1>5, <2>1, <2>2 DEF QueueInv, Issued, OnceInv, Restoring
<1>6. ASSUME NEW c \in Caller, op[c].kind # "idle", op[c].id = t
      PROVE  t \in issued /\ (boot = "ready" \/ EarlyCalls)
  BY <1>1, <1>6, CallsAreLate DEF QueueInv, Issued
<1> QED BY <1>3, <1>5, <1>6

\* No call of the queue brings it back.
LEMMA StaysDown ==
  ASSUME QueueInv, OnceInv, [QueueNext]_queueVars \/ Elsewhere, UNCHANGED restarts,
         NEW t \in Turn, t \in issued, boot = "ready",
         \A c \in Caller : op[c].kind = "push" => op[c].id # t
  PROVE  /\ t \in issued' /\ boot' = "ready"
         /\ \A c \in Caller : op'[c].kind = "push" => op'[c].id # t
         /\ (\A a \in ArrayRef : t \notin ToSet(heap[a])) => \A a \in ArrayRef : t \notin ToSet(heap'[a])
<1> DEFINE Goal == /\ t \in issued' /\ boot' = "ready"
                   /\ \A c \in Caller : op'[c].kind = "push" => op'[c].id # t
                   /\ (\A a \in ArrayRef : t \notin ToSet(heap[a]))
                        => \A a \in ArrayRef : t \notin ToSet(heap'[a])
<1>1. /\ op \in [Caller -> Call] /\ heap \in [ArrayRef -> Seq(Turn \cup {Hole})] /\ t # Hole
      /\ Idle.kind = "idle" /\ restarts \in Nat
  BY QueueAssumption DEF QueueInv, QueueTypeOK, Idle
<1>2. ASSUME NEW c \in Caller, NEW x, op' = [op EXCEPT ![c] = x], x.kind = "push" => x.id # t,
             issued \subseteq issued', boot' = boot,
             \A a \in ArrayRef : t \in ToSet(heap'[a]) => t \in ToSet(heap[a])
      PROVE  Goal
  <2>1. \A d \in Caller : op'[d] = IF d = c THEN x ELSE op[d]
    BY <1>1, <1>2
  <2> QED BY <1>2, <2>1
<1>3. ASSUME NEW c \in Caller, NEW u \in Turn, PushBegin(c, u) PROVE Goal
  <2> DEFINE x == Sent("push", u, IF cur = NoArray THEN u ELSE cur, 0, 0)
  <2>1. op' = [op EXCEPT ![c] = x] /\ x.id = u /\ u # t /\ issued \subseteq issued'
        /\ boot' = boot /\ heap' = heap
    BY <1>3 DEF PushBegin, Sent
  <2> HIDE DEF x
  <2> QED BY <1>2, <2>1
<1>4. ASSUME NEW c \in Caller, NEW u \in Turn, PrioritizeBegin(c, u) PROVE Goal
  <2>1. PICK i \in DOMAIN Mem : op' = [op EXCEPT ![c] = Sent("prioritize", u, cur, i, 0)]
    BY <1>4 DEF PrioritizeBegin
  <2> DEFINE x == Sent("prioritize", u, cur, i, 0)
  <2>2. op' = [op EXCEPT ![c] = x] /\ x.kind = "prioritize" /\ UNCHANGED <<issued, boot, heap>>
    BY <1>4, <2>1 DEF PrioritizeBegin, Sent
  <2> HIDE DEF x
  <2> QED BY <1>2, <2>2
<1>5. ASSUME NEW c \in Caller, NEW u \in Turn, NEW up \in BOOLEAN, ReorderBegin(c, u, up) PROVE Goal
  <2>1. PICK i \in DOMAIN Mem, j \in DOMAIN Mem : op' = [op EXCEPT ![c] = Sent("reorder", u, cur, i, j)]
    BY <1>5 DEF ReorderBegin
  <2> DEFINE x == Sent("reorder", u, cur, i, j)
  <2>2. op' = [op EXCEPT ![c] = x] /\ x.kind = "reorder" /\ UNCHANGED <<issued, boot, heap>>
    BY <1>5, <2>1 DEF ReorderBegin, Sent
  <2> HIDE DEF x
  <2> QED BY <1>2, <2>2
<1>6. ASSUME NEW c \in Caller, NEW u \in Turn, RemoveBegin(c, u) PROVE Goal
  <2> DEFINE x == Sent("remove", u, cur, 0, 0)
  <2>1. op' = [op EXCEPT ![c] = x] /\ x.kind = "remove" /\ UNCHANGED <<issued, boot>>
    BY <1>6 DEF RemoveBegin, Sent
  <2>2. PICK i \in DOMAIN Mem : heap' = [heap EXCEPT ![cur] = RemoveAt(@, i)]
    BY <1>6 DEF RemoveBegin
  <2>3. cur \in ArrayRef /\ Mem = heap[cur] /\ Mem \in Seq(Turn \cup {Hole})
    BY <1>1, <2>2 DEF Mem, QueueInv, QueueTypeOK
  <2>4. ToSet(RemoveAt(Mem, i)) \subseteq ToSet(Mem)
    BY <2>3, TakenOut
  <2>5. \A a \in ArrayRef : ToSet(heap'[a]) \subseteq ToSet(heap[a])
    BY <1>1, <2>2, <2>3, <2>4
  <2> HIDE DEF x
  <2> QED BY <1>2, <2>1, <2>5
<1>7. ASSUME NEW c \in Caller, ShiftBegin(c) PROVE Goal
  <2>1. Mem \in Seq(Turn \cup {Hole})
    BY DEF QueueInv, QueueTypeOK, Mem
  <2>2. Head(Mem) \in Turn /\ RemoveBegin(c, Head(Mem))
    BY <1>7, <2>1 DEF ShiftBegin
  <2> QED BY <1>6, <2>2
<1>8. ASSUME NEW c \in Caller, StoreStep(c) PROVE Goal
  <2>1. PICK p : op' = [op EXCEPT ![c].phase = p]
    BY <1>8 DEF StoreStep, StorePush, StoreRemove, StorePrioritize, StoreReorder
  <2>2. UNCHANGED <<issued, boot, heap>>
    BY <1>8 DEF StoreStep, StorePush, StoreRemove, StorePrioritize, StoreReorder
  <2>3. \A d \in Caller : op'[d].kind = op[d].kind /\ op'[d].id = op[d].id
    BY <1>1, <2>1 DEF Call
  <2> QED BY <2>2, <2>3
<1>9. ASSUME NEW c \in Caller, ReturnStep(c) \/ CallRejects(c) PROVE Goal
  <2>1. op' = [op EXCEPT ![c] = Idle] /\ UNCHANGED <<issued, boot>>
    BY <1>9 DEF ReturnStep, PushReturn, RemoveReturn, PrioritizeReturn, ReorderReturn, CallRejects
  <2>2. RemoveReturn(c) \/ CallRejects(c) => heap' = heap
    BY DEF RemoveReturn, CallRejects
  <2>3. PushReturn(c) => op[c].id # t
    BY DEF PushReturn
  <2>4. PushReturn(c) \/ PrioritizeReturn(c) \/ ReorderReturn(c)
          => \A a \in ArrayRef : ToSet(heap'[a]) \subseteq ToSet(heap[a]) \cup {op[c].id, Hole}
    BY ReturnsOwn
  <2>5. PrioritizeReturn(c) \/ ReorderReturn(c)
          => \A a \in ArrayRef : ToSet(heap'[a]) \subseteq ToSet(heap[a]) \cup {Hole}
    BY MovesOwn
  <2>6. \A a \in ArrayRef : t \in ToSet(heap'[a]) => t \in ToSet(heap[a])
    BY <1>1, <1>9, <2>2, <2>3, <2>4, <2>5 DEF ReturnStep
  <2> QED BY <1>1, <1>2, <2>1, <2>6
<1>10. ASSUME \/ StoreList \/ RestoreReturn \/ QueueRestart PROVE FALSE
  BY <1>1, <1>10 DEF StoreList, RestoreReturn, QueueRestart
<1>11. ASSUME Resume \/ UNCHANGED queueVars \/ Elsewhere PROVE Goal
  BY <1>11 DEF Resume, queueVars, Elsewhere, Bypass
<1> HIDE DEF Goal
<1>12. Goal
  BY <1>3, <1>4, <1>5, <1>6, <1>7, <1>8, <1>9, <1>10, <1>11 DEF QueueNext
<1> QED BY <1>12 DEF Goal

LEMMA DownStep ==
  ASSUME HandedInv, DownInv, ~EarlyCalls, [HostNext]_vars
  PROVE  DownInv'
<1>1. /\ HostInv /\ KeepInv /\ HandInv /\ QueueInv /\ OnceInv /\ Drainer \in Caller
      /\ Client \subseteq Caller /\ HostTypes
      /\ status \in [Id -> Status] /\ op \in [Caller -> Call] /\ NoArray \notin ArrayRef
      /\ [QueueNext]_queueVars \/ Elsewhere
  BY HostStepsQueue, HostAssumption, QueueAssumption
     DEF HandedInv, HostInv, HostTypes, TurnTypes, Client, QueueInv, QueueTypeOK, NoArray, ArrayRef, Boot
<1>2. CASE HostRestart
  <2>1. \A t \in Turn : status'[t] = "unknown"
    BY <1>2, RunIds DEF HostRestart
  <2> QED BY <2>1 DEF DownInv
<1>3. ASSUME ~HostRestart, NEW t \in Turn
      PROVE  /\ status'[t] \in {"queued", "canceled"} => Down(t)'
             /\ status'[t] = "canceled" => \A a \in ArrayRef : t \notin ToSet(heap'[a])
  <2> DEFINE Gone0 == \A a \in ArrayRef : t \notin ToSet(heap[a])
             Gone1 == \A a \in ArrayRef : t \notin ToSet(heap'[a])
  <2>1. UNCHANGED restarts
    BY <1>3, OnlyRestart
  <2>2. ASSUME Down(t) PROVE /\ Gone0 => Gone1
                             /\ ~(DrainStarted /\ port[Drainer].turn = t) => Down(t)'
    <3>1. /\ t \in issued' /\ boot' = "ready"
          /\ \A c \in Caller : op'[c].kind = "push" => op'[c].id # t
          /\ Gone0 => Gone1
      BY <1>1, <2>1, <2>2, StaysDown DEF Down
    <3>2. ~(DrainStarted /\ port[Drainer].turn = t) => t \notin alias'
      BY <1>3, <2>2, LoopMoves DEF Down, DrainStarted
    <3> QED BY <3>1, <3>2 DEF Down
  <2>3. DrainStarted /\ port[Drainer].turn = t => status'[t] = "running"
    BY <1>1, RunIds DEF DrainStarted
  <2>4. ASSUME NEW c \in Caller, op[c].id = t, op[c].kind \in {"push", "remove"},
               op' = [op EXCEPT ![c] = Idle], UNCHANGED <<issued, boot, alias>>
        PROVE  Down(t)' /\ Gone0
    <3>1. t \notin alias /\ t \in issued /\ boot = "ready"
      BY <1>1, <2>4, NotRunning
    <3>2. Gone0 /\ \A d \in Caller \ {c} : op[d].kind = "push" => op[d].id # t
      BY <1>1, <2>4 DEF OnceInv, Carried, Carries
    <3>3. \A d \in Caller : op'[d] = IF d = c THEN Idle ELSE op[d]
      BY <1>1, <2>4
    <3>4. \A d \in Caller : op'[d].kind = "push" => op'[d].id # t
      BY <3>2, <3>3 DEF Idle
    <3> QED BY <2>4, <3>1, <3>2, <3>4 DEF Down
  <2>5. CASE status'[t] = status[t]
    BY <2>2, <2>3, <2>5 DEF DownInv
  <2>6. ASSUME NEW c \in Client, QueuedReturn(c), op[c].id = t PROVE Down(t)'
    BY <1>1, <2>4, <2>6 DEF QueuedReturn, PushReturn
  <2>7. CASE DrainShifted /\ op[Drainer].id = t
    BY <1>1, <2>4, <2>7 DEF DrainShifted, RemoveReturn
  <2>8. ASSUME NEW c \in Client, RemovedReturn(c), op[c].id = t PROVE Down(t)' /\ Gone1
    BY <1>1, <2>4, <2>8 DEF RemovedReturn, RemoveReturn
  <2>9. ASSUME t \in ToSet(Mem), status'[t] = "queued" PROVE Down(t)'
    <3>1. t \notin alias /\ t \in issued /\ boot = "ready"
      BY <1>1, <2>9, NotRunning
    <3>2. cur \in ArrayRef /\ t \in ToSet(heap[cur])
      BY <1>1, <2>9 DEF Mem, QueueInv, QueueTypeOK, ToSet
    <3>3. \A c \in Caller : op[c].kind = "push" => op[c].id # t
      BY <1>1, <3>2 DEF OnceInv, Carried, Carries
    <3> QED BY <2>2, <2>3, <2>9, <3>1, <3>3 DEF Down
  <2>10. ASSUME NEW c \in Client, CancelStarting(c, t), status'[t] = "canceled" PROVE Down(t)' /\ Gone1
    <3>1. Down(t) /\ t \notin ToSet(Mem)
      BY <2>10 DEF CancelStarting, Gone, DownInv
    <3>2. \A a \in ArrayRef : a # cur => t \notin ToSet(heap[a])
      BY <1>1, QueueAssumption DEF KeepInv
    <3>3. Gone0
      BY <1>1, <3>1, <3>2 DEF Mem
    <3> QED BY <2>2, <2>3, <2>10, <3>1, <3>3
  <2> HIDE DEF Gone0
  <2> QED BY <1>1, <1>3, <2>5, <2>6, <2>7, <2>8, <2>9, <2>10, StatusMoves
<1> QED BY <1>2, <1>3 DEF DownInv

\* Who becomes active.
LEMMA ActiveMoves ==
  ASSUME HostInv, [HostNext]_vars, NEW t \in Turn, active' = t
  PROVE  \/ active = t
         \/ DrainStarted /\ port[Drainer].turn = t
         \/ ReadEvent /\ t \in alias \cup ToSet(Mem)
<1>1. /\ QueueInv /\ LoopTypes /\ RunTypes /\ Client \subseteq Caller /\ NoTurn # t
  BY HostAssumption, QueueAssumption DEF HostInv, HostTypes, Client
<1>2. ASSUME NEW c \in Client, NEW u \in Turn, ClientCall(c, u) PROVE active' = active
  BY <1>2 DEF ClientCall, StartQueued, StartDirect, SteerBegin, CancelBegin, CancelStarting,
              SendNow, SendNowMiss, hostVars, turnState
<1>3. ASSUME NEW c \in Client, ClientReturn(c) \/ ClientRejected(c) PROVE active' = active
  <2>1. ~DirectReturn(c)
    <3>1. ASSUME DirectReturn(c) PROVE FALSE
      <4>1. port[c].turn \in Turn /\ active' = RunId(port[c].turn)
        BY <1>1, <3>1 DEF DirectReturn, LoopTypes
      <4> QED BY <4>1, RunIds
    <3> QED BY <3>1
  <2> QED BY <1>3, <2>1 DEF ClientReturn, QueuedReturn, DirectRejected, RemovedReturn,
                            SendNowReturn, ClientRejected, turnState
<1>4. CASE DrainStep \/ DrainLost
  BY <1>4 DEF DrainStep, ResumeHeld, DrainEnter, DrainShifted, DrainStarted, DrainAborts,
              DrainAborted, DrainFailed, DrainLost, turnState
<1>5. CASE ReadEvent
  <2>1. wire # <<>> /\ (active' = active \/ active' = NoTurn \/ active' = Resolve(Head(wire).turn))
    BY <1>5 DEF ReadEvent, IngestStart, IngestEnd, IngestError, Close, Read
  <2> QED BY <1>1, <1>5, <2>1, EventsName
<1>6. ~HostRestart
  BY <1>1 DEF HostRestart
<1>7. ASSUME \/ \E c \in Client, i \in Id : Interrupt(c, i)
             \/ \E u \in Turn : LocalPrompt(u)
             \/ \E c \in Caller : MainAccepts(c) \/ MainRefuses(c)
             \/ Attach \/ RunEnds \/ FinishDone \/ SidecarExit \/ PlanningChanges \/ StoreWorks
             \/ UNCHANGED vars
      PROVE  active' = active
  BY <1>7 DEF Interrupt, LocalPrompt, MainAccepts, MainRefuses, Attach, RunEnds, FinishDone,
              SidecarExit, PlanningChanges, StoreWorks, vars, hostVars, turnState
<1> QED BY <1>2, <1>3, <1>4, <1>5, <1>6, <1>7 DEF HostNext

\* A canceled turn stays canceled, but for the one whose prompt Main refuses.
LEMMA CanceledStep ==
  ASSUME HandedInv, DownInv, [HostNext]_vars, NEW t \in Turn, status[t] = "canceled"
  PROVE  \/ /\ status'[t] \in {"canceled", "unknown"} /\ t \notin alias'
            /\ active' = t => active = t
         \/ status'[t] = "failed" /\ port[Drainer].turn = t /\ port[Drainer].phase = "failed"
<1>1. /\ HostInv /\ OnceInv /\ QueueInv /\ Down(t) /\ Client \subseteq Caller
      /\ \A a \in ArrayRef : t \notin ToSet(heap[a])
  BY DEF HandedInv, HostInv, DownInv, Client
<1>2. t \notin alias \cup ToSet(Mem)
  BY <1>1 DEF Down, Mem, QueueInv, QueueTypeOK, ToSet
<1>3. ~(DrainStarted /\ port[Drainer].turn = t)
  BY DEF DrainStarted
<1>4. t \notin alias'
  BY <1>2, <1>3, LoopMoves DEF DrainStarted, HostRestart
<1>5. active' = t => active = t
  BY <1>1, <1>2, <1>3, ActiveMoves
<1>6. ASSUME NEW c \in Client, QueuedReturn(c) PROVE op[c].id # t
  BY <1>1, <1>6 DEF QueuedReturn, PushReturn, Down
<1>7. DrainFailed => port[Drainer].phase = "failed"
  BY DEF DrainFailed, Prompted
<1>8. \/ status'[t] \in {"canceled", "unknown"}
      \/ DrainFailed /\ port[Drainer].turn = t /\ status'[t] = "failed"
  BY <1>1, <1>2, <1>3, <1>6, StatusMoves
<1> QED BY <1>4, <1>5, <1>7, <1>8

\* "Never resurrect a turn that the user canceled during that window": whenever
\* the cancel comes, whatever events, answers and restarts follow it, a canceled
\* turn does not run or finish.  The one way in which it changes is named: the
\* prompt that was starting it is rejected.  One client and the drain loop.
THEOREM CanceledStaysCanceled ==
  ASSUME ~EarlyCalls, OwnKeys, \A c, d \in Client : c = d
  PROVE  HostSpec => NeverResurrected
<1>1. HostInit => HandedInv /\ DownInv
  <2> SUFFICES ASSUME HostInit PROVE HandedInv /\ DownInv
    OBVIOUS
  <2>1. \A t \in Turn : status[t] = "unknown"
    BY RunIds DEF HostInit
  <2> QED BY <2>1, HandedInvInit DEF DownInv
<1>2. HandedInv /\ DownInv /\ [HostNext]_vars
        => /\ (HandedInv /\ DownInv)'
           /\ \A t \in Turn : status[t] = "canceled" =>
                \/ status'[t] \in {"canceled", "unknown"} /\ t \notin alias' /\ (active' = t => active = t)
                \/ status'[t] = "failed" /\ port[Drainer].turn = t /\ port[Drainer].phase = "failed"
  BY HandedInvStep, DownStep, CanceledStep
<1> QED BY <1>1, <1>2, PTL DEF HostSpec, NeverResurrected

-----------------------------------------------------------------------------
(***************************************************************************)
(* The order of turns.  One turn runs at a time, when events come after    *)
(* the continuation of the prompt they belong to, a run ends once and      *)
(* nobody cancels or interrupts.                                           *)
(***************************************************************************)

OrderBounds ==
  /\ ~EarlyCalls /\ ~EarlyEvents /\ MaxCrashes = 0
  /\ Calls \cap {"cancel", "interrupt"} = {}
  /\ \A tail \in Tails : Len(tail) = 1

\* Main holds the session for the run that is streamed, and what is on the
\* wire is its beginning, its end, or both.
Streams ==
  /\ main.phase # "open" => streaming = NoTurn /\ wire = <<>>
  /\ main.phase = "open" =>
       /\ main.run \in Turn /\ used[main.run] = 1 /\ streaming \in {main.run, NoTurn}
       /\ Len(wire) <= 2 /\ \A k \in DOMAIN wire : wire[k].turn = main.run
       /\ Len(wire) = 1 => wire[1].type = "start" \/ streaming = NoTurn
       /\ Len(wire) = 2 => /\ wire[1].type = "start" /\ wire[2].type # "start"
                           /\ streaming = NoTurn

\* A prompt in hand has left the queue, and one caller has it.
Apart ==
  \A c \in Caller : port[c].phase # "none" =>
    /\ Spent(port[c].turn)
    /\ \A e \in Caller : port[e].phase # "none" /\ port[e].turn = port[c].turn => e = c

Refused == \A c \in Caller : port[c].phase = "failed" => used[port[c].turn] = 0

\* The prompt that Main has accepted is the run that Main holds the session
\* for, and no event names it yet.
Admitted ==
  \A c \in Caller : port[c].phase = "ok" =>
    /\ main.phase = "open" /\ main.run = port[c].turn
    /\ port[c].turn \notin alias /\ status[RunId(port[c].turn)] = "unknown"

\* The loop has one prompt in hand, whose turn has not ended.
Loop ==
  /\ drain # "aborting"
  /\ op[Drainer].kind # "idle" => drain = "shifting"
  /\ port[Drainer].phase # "none" =>
       drain = "prompting" /\ status[port[Drainer].turn] \notin Terminal

\* A prompt that was never given to the runtime is not known by its run, and
\* the turn of a queued one has not ended.
Names ==
  \A t \in Turn :
    /\ used[t] = 0 => t \notin alias
    /\ used[t] = 0 \/ t \in alias => status[RunId(t)] = "unknown"
    /\ ~Spent(t) => status[t] \notin Terminal

\* The turn of the run that Main holds the session for has not ended; once its
\* start is read, the loop does not take it for another one.
Begun ==
  \/ wire # <<>> /\ Head(wire).type = "start"
  \/ active # NoTurn \/ status[RunId(main.run)] # "unknown" \/ main.run \in alias
  \/ \E c \in Caller : port[c].phase = "ok"
Goes ==
  main.phase = "open" =>
    /\ status[RunId(main.run)] \notin Terminal
    /\ main.run \in alias => status[main.run] \notin Terminal
    /\ Begun

OrderInv ==
  HostInv /\ Streams /\ Apart /\ Refused /\ Admitted /\ Loop /\ Names /\ Goes

-----------------------------------------------------------------------------

\* An event is one of the run that Main holds the session for, and of no prompt
\* in hand.  It is taken for that run, by its name or its record's, unless it is
\* a start that is taken for the head of the queue.
LEMMA Attributed ==
  ASSUME OrderInv, ~EarlyEvents, ReadEvent
  PROVE  /\ main.phase = "open" /\ main.run \in Turn /\ Spent(main.run) /\ used[main.run] = 1
         /\ wire # <<>> /\ Head(wire).turn = main.run
         /\ \A c \in Caller : port[c].phase # "ok"
         /\ \/ main.run \in alias /\ Resolve(main.run) = main.run
            \/ main.run \notin alias /\ Resolve(main.run) = RunId(main.run)
            \/ /\ IngestStart /\ Head(wire).type = "start" /\ Mem # <<>>
               /\ Resolve(main.run) = Head(Mem) /\ Head(Mem) # Hole
               /\ main.run \notin alias
<1>1. /\ wire # <<>> /\ Settled(Head(wire).turn)
      /\ IngestStart <=> Head(wire).type = "start"
  BY DEF ReadEvent, IngestStart, IngestEnd, IngestError, Read
<1>2. wire \in Seq(Event) /\ LoopTypes /\ UseInv /\ UsedType
  BY DEF OrderInv, HostInv, HostTypes, RunTypes
<1>3. main.phase = "open" /\ main.run \in Turn /\ used[main.run] = 1 /\ Head(wire).turn = main.run
  BY <1>1, <1>2 DEF OrderInv, Streams
<1>4. \A c \in Caller : port[c].phase # "ok"
  BY <1>1, <1>3 DEF OrderInv, Admitted, Settled
<1>5. Spent(main.run)
  BY <1>2, <1>3 DEF UseInv
<1>6. Begun
  BY <1>3 DEF OrderInv, Goes
<1>7. \/ main.run \in alias /\ Resolve(main.run) = main.run
      \/ main.run \notin alias /\ Resolve(main.run) = RunId(main.run)
      \/ /\ main.run \notin alias /\ Mem # <<>> /\ Head(Mem) # Hole /\ active = NoTurn
         /\ status[RunId(main.run)] = "unknown" /\ Resolve(main.run) = Head(Mem)
  BY DEF Resolve
<1> QED BY <1>1, <1>3, <1>4, <1>5, <1>6, <1>7 DEF Begun

\* What is left out of the model under these bounds.
LEMMA NotTaken ==
  ASSUME OrderBounds, HostTypes, Loop
  PROVE  /\ ~SidecarExit /\ ~DrainAborts /\ ~DrainAborted
         /\ \A c \in Client, i \in Id : ~Interrupt(c, i)
         /\ \A c \in Client, t \in Turn : ~CancelBegin(c, t) /\ ~CancelStarting(c, t)
<1>1. ~SidecarExit
  BY DEF SidecarExit, OrderBounds, HostTypes, RunTypes
<1>2. ~DrainAborts /\ ~DrainAborted
  BY DEF DrainAborts, DrainAborted, Prompted, Loop, Terminal
<1>3. \A c \in Client, i \in Id : ~Interrupt(c, i)
  BY DEF OrderBounds, Interrupt, Ask
<1>4. \A c \in Client, t \in Turn : ~CancelBegin(c, t) /\ ~CancelStarting(c, t)
  BY DEF OrderBounds, CancelBegin, CancelStarting, Ask
<1> QED BY <1>1, <1>2, <1>3, <1>4

\* What the runtime port shows changes in few steps.
LEMMA RunMoves ==
  ASSUME OrderBounds, HostTypes, Loop, [HostNext]_vars
  PROVE  \/ UNCHANGED <<main, streaming, wire>>
         \/ \E c \in Caller : MainAccepts(c)
         \/ \E t \in Turn : LocalPrompt(t)
         \/ RunEnds \/ ReadEvent \/ FinishDone \/ HostRestart
<1>1. ASSUME NEW c \in Client, \/ ClientReturn(c) \/ ClientRejected(c)
                               \/ \E t \in Turn : ClientCall(c, t)
      PROVE  UNCHANGED <<main, streaming, wire>>
  BY <1>1 DEF ClientCall, StartQueued, StartDirect, SteerBegin, CancelBegin, CancelStarting,
       SendNow, SendNowMiss, ClientReturn, QueuedReturn, DirectReturn, DirectRejected,
       RemovedReturn, SendNowReturn, ClientRejected, hostVars, runState
<1>2. ASSUME DrainStep \/ DrainLost PROVE UNCHANGED <<main, streaming, wire>>
  BY <1>2, NotTaken DEF DrainStep, ResumeHeld, DrainEnter, DrainShifted, DrainStarted,
               DrainFailed, DrainLost, runState
<1>3. ASSUME \/ \E c \in Caller : MainRefuses(c)
             \/ Attach \/ PlanningChanges \/ StoreWorks \/ UNCHANGED vars
      PROVE  UNCHANGED <<main, streaming, wire>>
  BY <1>3 DEF MainRefuses, Attach, PlanningChanges, StoreWorks, vars, hostVars, runState
<1> QED BY <1>1, <1>2, <1>3, NotTaken DEF HostNext

LEMMA StreamsStart ==
  ASSUME HostInv, Streams, NEW t \in Turn, StartRun(t), used[t] = 0, main.phase # "open"
  PROVE  Streams'
<1>1. streaming = NoTurn /\ wire = <<>>
  BY DEF Streams
<1>3. /\ main' = [run |-> t, phase |-> "open"] /\ streaming' = t
      /\ wire' = Append(<<>>, [type |-> "start", turn |-> t]) /\ used' = [used EXCEPT ![t] = @ + 1]
  BY <1>1 DEF StartRun
<1>4. wire' = <<[type |-> "start", turn |-> t]>>
  BY <1>3
<1>2. used'[t] = 1
  BY <1>3 DEF HostInv, HostTypes, UsedType
<1> QED BY <1>2, <1>3, <1>4 DEF Streams

LEMMA StreamsStep ==
  ASSUME OrderInv, OrderBounds, [HostNext]_vars
  PROVE  Streams'
<1>1. /\ HostInv /\ Streams /\ HostTypes /\ UseInv /\ UsedType /\ wire \in Seq(Event)
      /\ Loop /\ LoopTypes
  BY DEF OrderInv, HostInv, HostTypes, RunTypes
<1>2. ASSUME NEW t \in Turn, used[t] = 1 PROVE used'[t] = 1
  <2>1. CASE used' = used
    BY <1>2, <2>1
  <2>2. ASSUME NEW u \in Turn, used' = [used EXCEPT ![u] = @ + 1], used[u] = 0 PROVE used'[t] = 1
    BY <1>1, <1>2, <2>2 DEF UsedType
  <2> QED BY <1>1, <2>1, <2>2, UsedStep
<1>3. CASE UNCHANGED <<main, streaming, wire>>
  BY <1>1, <1>2, <1>3 DEF Streams
<1>4. ASSUME NEW c \in Caller, MainAccepts(c) PROVE Streams'
  <2>1. StartRun(port[c].turn) /\ port[c].turn \in Turn /\ main.phase # "open" /\ Waits(c, port[c].turn)
    BY <1>1, <1>4 DEF MainAccepts, LoopTypes, Waits
  <2>2. used[port[c].turn] = 0
    BY <1>1, <2>1 DEF UseInv
  <2> QED BY <1>1, <2>1, <2>2, StreamsStart
<1>5. ASSUME NEW t \in Turn, LocalPrompt(t) PROVE Streams'
  <2>1. StartRun(t) /\ main.phase # "open" /\ ~Spent(t)
    BY <1>1, <1>5, NotYetSpent DEF LocalPrompt, HostInv
  <2>2. used[t] = 0
    BY <1>1, <2>1 DEF UseInv, UsedType
  <2> QED BY <1>1, <2>1, <2>2, StreamsStart
<1>6. CASE RunEnds
  <2>1. /\ streaming # NoTurn /\ main' = main /\ streaming' = NoTurn /\ main.phase = "open"
        /\ streaming = main.run /\ main.run \in Turn
        /\ Len(wire) <= 1 /\ (Len(wire) = 1 => wire[1].type = "start")
        /\ \A k \in DOMAIN wire : wire[k].turn = main.run
    <3>1. streaming # NoTurn /\ main' = main /\ streaming' = NoTurn
      BY <1>6 DEF RunEnds
    <3>2. Len(wire) \in Nat
      BY <1>1
    <3>3. main.phase = "open"
      BY <1>1, <3>1 DEF Streams
    <3>4. /\ main.run \in Turn /\ streaming \in {main.run, NoTurn} /\ Len(wire) <= 2
          /\ (Len(wire) = 1 => wire[1].type = "start" \/ streaming = NoTurn)
          /\ (Len(wire) = 2 => streaming = NoTurn)
          /\ \A k \in DOMAIN wire : wire[k].turn = main.run
      BY <1>1, <3>3 DEF Streams
    <3>6. Len(wire) <= 2 /\ Len(wire) # 2
      BY <3>1, <3>4
    <3>7. \A n \in Nat : n <= 2 /\ n # 2 => n <= 1
      OBVIOUS
    <3>5. Len(wire) <= 1
      BY <3>2, <3>6, <3>7, Zenon
    <3> QED BY <3>1, <3>3, <3>4, <3>5
  <2>2. PICK tail \in Tails :
          wire' = wire \o [i \in DOMAIN tail |-> [type |-> tail[i], turn |-> streaming]]
    BY <1>6 DEF RunEnds
  <2>3. tail \in Seq({"end", "error"}) /\ Len(tail) = 1
    BY HostAssumption DEF OrderBounds
  <2>4. PICK e : e \in Event /\ e.type # "start" /\ e.turn = main.run /\ wire' = wire \o <<e>>
    <3>1. DOMAIN tail = 1..1 /\ tail[1] \in {"end", "error"}
      BY <2>3
    <3>2. [i \in DOMAIN tail |-> [type |-> tail[i], turn |-> streaming]]
            = <<[type |-> tail[1], turn |-> streaming]>>
      BY <3>1
    <3> QED BY <2>1, <2>2, <3>1, <3>2 DEF Event
  <2>5. /\ wire' \in Seq(Event) /\ Len(wire') = Len(wire) + 1 /\ wire'[Len(wire) + 1] = e
        /\ \A k \in DOMAIN wire : wire'[k] = wire[k]
    BY <1>1, <2>4
  <2>6. \A k \in DOMAIN wire' : wire'[k].turn = main.run
    BY <1>1, <2>1, <2>4, <2>5
  <2>7. Len(wire) \in Nat /\ (Len(wire) = 1 => wire'[1] = wire[1])
    BY <1>1, <2>5
  <2>8. used'[main.run] = 1
    BY <1>1, <1>2, <2>1 DEF Streams
  <2> QED BY <2>1, <2>4, <2>5, <2>6, <2>7, <2>8 DEF Streams
<1>7. CASE ReadEvent
  <2>1. /\ main.phase = "open" /\ main.run \in Turn /\ used[main.run] = 1 /\ wire # <<>>
    BY <1>7, Attributed DEF OrderBounds
  <2>2. wire' = Tail(wire) /\ UNCHANGED streaming /\ Head(wire) = wire[1]
    BY <1>7 DEF ReadEvent, IngestStart, IngestEnd, IngestError, Read
  <2>3. /\ Len(wire) \in Nat \ {0} /\ Len(wire') = Len(wire) - 1
        /\ \A k \in 1..Len(wire') : wire'[k] = wire[k + 1] /\ k + 1 \in DOMAIN wire
        /\ DOMAIN wire' = 1..Len(wire')
    BY <1>1, <2>1, <2>2
  <2>4. used'[main.run] = 1
    BY <1>2, <2>1
  <2>5. CASE IngestStart
    <3>1. main' = main
      BY <2>5 DEF IngestStart
    <3>2. Len(wire') <= 1 /\ (Len(wire') = 1 => wire'[1].type # "start" /\ streaming = NoTurn)
      BY <1>1, <2>1, <2>3 DEF Streams
    <3>3. \A k \in DOMAIN wire' : wire'[k].turn = main.run
      BY <1>1, <2>1, <2>3 DEF Streams
    <3>4. streaming \in {main.run, NoTurn} /\ Len(wire') # 2 /\ Len(wire') <= 2
      BY <1>1, <2>1, <2>3, <3>2 DEF Streams
    <3> QED BY <2>1, <2>2, <2>4, <3>1, <3>2, <3>3, <3>4 DEF Streams
  <2>6. CASE IngestEnd \/ IngestError
    <3>1. main' = [main EXCEPT !.phase = "closing"] /\ Head(wire).type # "start"
      BY <2>1, <2>6 DEF IngestEnd, IngestError, MainCloses, Read
    <3>2. Len(wire) = 1 /\ streaming = NoTurn
      BY <1>1, <2>1, <2>2, <2>3, <3>1 DEF Streams
    <3>3. wire' = <<>>
      BY <1>1, <2>2, <3>2
    <3>4. main'.phase = "closing"
      BY <1>1, <3>1 DEF HostTypes, RunTypes
    <3> QED BY <2>2, <3>2, <3>3, <3>4 DEF Streams
  <2> QED BY <1>7, <2>5, <2>6 DEF ReadEvent
<1>8. CASE FinishDone
  BY <1>1, <1>8 DEF FinishDone, Streams, NoMain
<1>9. CASE HostRestart
  BY <1>9 DEF HostRestart, Streams, NoMain
<1> QED BY <1>1, <1>3, <1>4, <1>5, <1>6, <1>7, <1>8, <1>9, RunMoves

\* What is known of the turns changes in few steps.
LEMMA TurnMoves ==
  ASSUME OrderBounds, HostTypes, Loop, [HostNext]_vars
  PROVE  \/ UNCHANGED <<status, active, alias>>
         \/ \E c \in Client : QueuedReturn(c) \/ DirectReturn(c) \/ RemovedReturn(c)
         \/ Attach \/ DrainShifted \/ DrainStarted \/ DrainFailed \/ ReadEvent \/ HostRestart
<1>1. ASSUME NEW c \in Client, NEW t \in Turn, ClientCall(c, t)
      PROVE  UNCHANGED <<status, active, alias>>
  BY <1>1, NotTaken DEF ClientCall, StartQueued, StartDirect, SteerBegin, SendNow, SendNowMiss,
                        hostVars, turnState
<1>2. ASSUME NEW c \in Client, DirectRejected(c) \/ SendNowReturn(c) \/ ClientRejected(c)
      PROVE  UNCHANGED <<status, active, alias>>
  BY <1>2 DEF DirectRejected, SendNowReturn, ClientRejected, turnState
<1>3. ASSUME ResumeHeld \/ DrainEnter \/ DrainLost PROVE UNCHANGED <<status, active, alias>>
  BY <1>3 DEF ResumeHeld, DrainEnter, DrainLost, turnState
<1>4. ASSUME \/ \E t \in Turn : LocalPrompt(t)
             \/ \E c \in Caller : MainAccepts(c) \/ MainRefuses(c)
             \/ RunEnds \/ FinishDone \/ PlanningChanges \/ StoreWorks \/ UNCHANGED vars
      PROVE  UNCHANGED <<status, active, alias>>
  BY <1>4 DEF LocalPrompt, MainAccepts, MainRefuses, RunEnds, FinishDone, PlanningChanges,
              StoreWorks, vars, hostVars, turnState
<1> QED BY <1>1, <1>2, <1>3, <1>4, NotTaken DEF HostNext, ClientReturn, DrainStep

\* How an event changes a turn.
LEMMA EventStep ==
  ASSUME OrderInv, OrderBounds, ReadEvent
  PROVE  LET i == Resolve(main.run)
         IN  /\ \A j \in Id \ {i} : status'[j] = status[j]
             /\ IngestStart => status'[i] = "running" /\ active' = i /\ main' = main
             /\ ~IngestStart =>
                  /\ main' = [main EXCEPT !.phase = "closing"]
                  /\ status'[i] = status[i]
                     \/ (status[i] # "unknown" /\ status'[i] \in Terminal)
             /\ ~IngestStart /\ status[i] = "running" => status'[i] \in Terminal
             /\ i \in Id /\ UNCHANGED alias
<1> DEFINE i == Resolve(main.run)
<1>1. QueueInv /\ TurnTypes
  BY DEF OrderInv, HostInv, HostTypes
<1>2. main.phase = "open" /\ main.run \in Turn /\ Head(wire).turn = main.run
  BY Attributed DEF OrderBounds
<1>3. i \in Id /\ status \in [Id -> Status]
  BY <1>1, <1>2, ResolvesToId DEF TurnTypes
<1>4. CASE IngestStart
  <2>1. status' = [status EXCEPT ![i] = "running"] /\ active' = i /\ UNCHANGED <<alias, main>>
    BY <1>2, <1>4 DEF IngestStart
  <2> HIDE DEF i
  <2>2. \A j \in Id \ {i} : status'[j] = status[j]
    BY <1>3, <2>1
  <2>3. status'[i] = "running"
    BY <1>3, <2>1
  <2> QED BY <1>3, <1>4, <2>1, <2>2, <2>3 DEF i
<1>5. ASSUME NEW s \in Terminal, Close(i, s)
      PROVE  /\ \A j \in Id \ {i} : status'[j] = status[j]
             /\ status'[i] = status[i] \/ (status[i] # "unknown" /\ status'[i] \in Terminal)
             /\ status[i] = "running" => status'[i] \in Terminal
  <2> HIDE DEF i
  <2> QED BY <1>3, <1>5 DEF Close
<1>6. CASE IngestEnd
  <2>1. Close(i, "completed") /\ main' = [main EXCEPT !.phase = "closing"] /\ UNCHANGED alias
        /\ ~IngestStart
    BY <1>2, <1>6 DEF IngestEnd, IngestStart, Read, MainCloses
  <2> HIDE DEF i
  <2> QED BY <1>3, <1>5, <2>1 DEF i, Terminal
<1>7. CASE IngestError
  <2>1. /\ main' = [main EXCEPT !.phase = "closing"] /\ UNCHANGED alias /\ ~IngestStart
        /\ IF IsActive(status[i]) THEN Close(i, "failed") ELSE UNCHANGED <<status, active, wake>>
    BY <1>2, <1>7 DEF IngestError, IngestStart, Read, MainCloses
  <2> HIDE DEF i
  <2>2. CASE IsActive(status[i])
    BY <1>3, <1>5, <2>1, <2>2 DEF i, Terminal
  <2>3. CASE ~IsActive(status[i])
    BY <1>3, <2>1, <2>3 DEF i, IsActive
  <2> QED BY <2>2, <2>3
<1> QED BY <1>4, <1>6, <1>7 DEF ReadEvent

\* How the turn of a run changes.
LEMMA RunNameStep ==
  ASSUME OrderInv, OrderBounds, [HostNext]_vars, NEW t \in Turn
  PROVE  \/ status'[RunId(t)] = status[RunId(t)]
         \/ /\ \E c \in Client : DirectReturn(c) /\ port[c].turn = t
            /\ status'[RunId(t)] = "running"
         \/ /\ ReadEvent /\ main.run = t /\ t \notin alias
            /\ \/ IngestStart /\ status'[RunId(t)] = "running"
               \/ ~IngestStart /\ status[RunId(t)] # "unknown"
         \/ HostRestart /\ status'[RunId(t)] = "unknown"
<1>1. /\ QueueInv /\ OnceInv /\ HostTypes /\ Loop /\ LoopTypes /\ status \in [Id -> Status]
      /\ Client \subseteq Caller /\ Drainer \in Caller
  BY HostAssumption DEF OrderInv, HostInv, HostTypes, TurnTypes, Client
<1>2. RunId(t) \in Id /\ RunId(t) \notin Turn \cup {Hole}
  BY RunIds
<1>3. ASSUME NEW u \in Turn, NEW s, status' = [status EXCEPT ![u] = s]
      PROVE  status'[RunId(t)] = status[RunId(t)]
  BY <1>1, <1>2, <1>3
<1>4. ASSUME NEW c \in Client, QueuedReturn(c) \/ RemovedReturn(c)
      PROVE  status'[RunId(t)] = status[RunId(t)]
  <2>1. op[c].kind \in {"push", "remove"}
    BY <1>4 DEF QueuedReturn, PushReturn, RemovedReturn, RemoveReturn
  <2>2. op[c].id \in Turn
    BY <1>1, <2>1, CarriedNotSpent
  <2> QED BY <1>3, <1>4, <2>2 DEF QueuedReturn, RemovedReturn
<1>5. ASSUME NEW c \in Client, DirectReturn(c)
      PROVE  status'[RunId(t)] = status[RunId(t)] \/ (port[c].turn = t /\ status'[RunId(t)] = "running")
  <2>1. port[c].turn \in Turn /\ status' = [status EXCEPT ![RunId(port[c].turn)] = "running"]
    BY <1>1, <1>5 DEF DirectReturn, LoopTypes
  <2>2. port[c].turn # t => RunId(port[c].turn) # RunId(t)
    BY <2>1, RunIds
  <2> QED BY <1>1, <1>2, <2>1, <2>2
<1>6. CASE Attach
  <2>1. Mem \in Seq(Turn \cup {Hole})
    BY <1>1 DEF QueueInv, QueueTypeOK, Mem
  <2>2. RunId(t) \notin ToSet(Mem)
    BY <1>2, <2>1 DEF ToSet
  <2> QED BY <1>2, <1>6, <2>2 DEF Attach
<1>7. CASE DrainShifted
  <2>1. op[Drainer].kind = "remove"
    BY <1>7 DEF DrainShifted, RemoveReturn
  <2>2. op[Drainer].id \in Turn
    BY <1>1, <2>1, CarriedNotSpent
  <2> QED BY <1>3, <1>7, <2>2 DEF DrainShifted
<1>8. CASE DrainStarted \/ DrainFailed
  <2>1. port[Drainer].turn \in Turn
    BY <1>1, <1>8 DEF DrainStarted, DrainFailed, Prompted, LoopTypes
  <2> QED BY <1>3, <1>8, <2>1 DEF DrainStarted, DrainFailed
<1>9. CASE ReadEvent
  <2> DEFINE i == Resolve(main.run)
  <2>1. /\ \A j \in Id \ {i} : status'[j] = status[j]
        /\ IngestStart => status'[i] = "running"
        /\ ~IngestStart => status'[i] = status[i] \/ status[i] # "unknown"
    BY <1>9, EventStep
  <2>2. \/ i = main.run /\ main.run \in Turn
        \/ i = RunId(main.run) /\ main.run \notin alias /\ main.run \in Turn
        \/ i = Head(Mem) /\ Head(Mem) # Hole /\ Mem # <<>>
    BY <1>9, Attributed DEF OrderBounds
  <2>3. i = Head(Mem) /\ Head(Mem) # Hole /\ Mem # <<>> => i \in Turn
    BY <1>1, HeadIsQueued
  <2>4. main.run \in Turn /\ RunId(main.run) = RunId(t) => main.run = t
    BY RunIds
  <2> HIDE DEF i
  <2> QED BY <1>2, <1>9, <2>1, <2>2, <2>3, <2>4
<1>10. CASE HostRestart
  BY <1>2, <1>10 DEF HostRestart
<1> QED BY <1>1, <1>4, <1>5, <1>6, <1>7, <1>8, <1>9, <1>10, TurnMoves

\* How the turn of a record changes.
LEMMA RecordStep ==
  ASSUME OrderInv, OrderBounds, [HostNext]_vars, NEW t \in Turn
  PROVE  \/ status'[t] = status[t]
         \/ status'[t] = "queued" /\ (status[t] = "unknown" \/ ~Spent(t))
         \/ status'[t] = "canceled" /\ ~Spent(t) /\ Spent(t)' /\ UNCHANGED <<main, alias, port>>
         \/ DrainStarted /\ t = port[Drainer].turn /\ status'[t] = "running"
         \/ DrainFailed /\ t = port[Drainer].turn /\ status'[t] = "failed"
         \/ /\ ReadEvent /\ ~IngestStart /\ main.run = t /\ t \in alias /\ status'[t] \in Terminal
         \/ /\ IngestStart /\ status'[t] = "running" /\ Resolve(main.run) = t
            /\ (main.run = t /\ t \in alias) \/ ~Spent(t)
         \/ HostRestart /\ status'[t] = "unknown"
<1>1. /\ QueueInv /\ OnceInv /\ HostTypes /\ Loop /\ LoopTypes /\ status \in [Id -> Status]
      /\ Client \subseteq Caller /\ Drainer \in Caller /\ t \in Id
  BY HostAssumption, RunIds DEF OrderInv, HostInv, HostTypes, TurnTypes, Client
<1>2. ASSUME NEW c \in Client, QueuedReturn(c) \/ RemovedReturn(c)
      PROVE  \/ status'[t] = status[t]
             \/ status'[t] = "queued" /\ ~Spent(t)
             \/ status'[t] = "canceled" /\ ~Spent(t) /\ Spent(t)' /\ UNCHANGED <<main, alias, port>>
  <2>1. op[c].kind \in {"push", "remove"}
    BY <1>2 DEF QueuedReturn, PushReturn, RemovedReturn, RemoveReturn
  <2>2. op[c].id \in Turn /\ ~Spent(op[c].id)
    BY <1>1, <2>1, CarriedNotSpent
  <2>3. CASE op[c].id # t
    BY <1>1, <1>2, <2>3 DEF QueuedReturn, RemovedReturn
  <2>4. CASE op[c].id = t /\ QueuedReturn(c)
    BY <1>1, <2>2, <2>4 DEF QueuedReturn
  <2>5. CASE op[c].id = t /\ RemovedReturn(c)
    <3>1. status'[t] = "canceled" /\ UNCHANGED <<main, alias, port>>
      BY <1>1, <2>5 DEF RemovedReturn, runState
    <3>2. claims' = [claims EXCEPT ![t] = @ + 1] /\ claims \in [Turn -> 0..2]
      BY <1>1, <2>5 DEF RemovedReturn, RemoveReturn, QueueInv, QueueTypeOK
    <3>3. Spent(t)'
      BY <3>2 DEF Spent
    <3> QED BY <2>2, <2>5, <3>1, <3>3
  <2> QED BY <1>2, <2>3, <2>4, <2>5
<1>3. ASSUME NEW c \in Client, DirectReturn(c) PROVE status'[t] = status[t]
  <2>1. port[c].turn \in Turn /\ status' = [status EXCEPT ![RunId(port[c].turn)] = "running"]
    BY <1>1, <1>3 DEF DirectReturn, LoopTypes
  <2>2. RunId(port[c].turn) # t
    BY <2>1, RunIds
  <2> QED BY <1>1, <2>1, <2>2
<1>4. CASE Attach
  BY <1>1, <1>4 DEF Attach
<1>5. CASE DrainShifted
  <2>1. op[Drainer].kind = "remove"
    BY <1>5 DEF DrainShifted, RemoveReturn
  <2>2. op[Drainer].id \in Id
    BY <1>1, <2>1, CarriedNotSpent, RunIds
  <2> QED BY <1>1, <1>5, <2>2 DEF DrainShifted
<1>6. CASE DrainStarted \/ DrainFailed
  <2>1. port[Drainer].turn \in Id
    BY <1>1, <1>6, RunIds DEF DrainStarted, DrainFailed, Prompted, LoopTypes
  <2>2. CASE port[Drainer].turn # t
    BY <1>1, <1>6, <2>1, <2>2 DEF DrainStarted, DrainFailed
  <2>3. CASE port[Drainer].turn = t
    BY <1>1, <1>6, <2>3 DEF DrainStarted, DrainFailed
  <2> QED BY <2>2, <2>3
<1>7. CASE ReadEvent
  <2> DEFINE i == Resolve(main.run)
  <2>1. /\ \A j \in Id \ {i} : status'[j] = status[j]
        /\ IngestStart => status'[i] = "running"
        /\ ~IngestStart => status'[i] = status[i] \/ status'[i] \in Terminal
    BY <1>7, EventStep
  <2>2. \/ i = main.run /\ main.run \in alias
        \/ i = RunId(main.run) /\ main.run \in Turn
        \/ i = Head(Mem) /\ Head(Mem) # Hole /\ Mem # <<>> /\ IngestStart
    BY <1>7, Attributed DEF OrderBounds
  <2>3. i = Head(Mem) /\ Head(Mem) # Hole /\ Mem # <<>> => ~Spent(i)
    BY <1>1, HeadIsQueued
  <2>4. main.run \in Turn => RunId(main.run) # t
    BY RunIds
  <2>5. CASE i # t
    BY <1>1, <2>1, <2>5
  <2>6. CASE i = t
    <3> HIDE DEF i
    <3> QED BY <1>7, <2>1, <2>2, <2>3, <2>4, <2>6 DEF i
  <2> QED BY <2>5, <2>6
<1>8. CASE HostRestart
  BY <1>1, <1>8 DEF HostRestart
<1> QED BY <1>1, <1>2, <1>3, <1>4, <1>5, <1>6, <1>7, <1>8, TurnMoves

\* What is in hand changes in few steps.
LEMMA PortMoves ==
  ASSUME OrderBounds, HostTypes, Loop, [HostNext]_vars
  PROVE  \/ UNCHANGED port
         \/ \E c \in Client, t \in Turn : StartDirect(c, t)
         \/ \E c \in Client : DirectReturn(c) \/ DirectRejected(c)
         \/ DrainShifted \/ DrainStarted \/ DrainFailed
         \/ \E c \in Caller : MainAccepts(c) \/ MainRefuses(c)
         \/ HostRestart
<1>1. ASSUME NEW c \in Client, NEW t \in Turn, ClientCall(c, t), ~StartDirect(c, t)
      PROVE  UNCHANGED port
  BY <1>1, NotTaken DEF ClientCall, StartQueued, SteerBegin, SendNow, SendNowMiss, hostVars
<1>2. ASSUME NEW c \in Client, QueuedReturn(c) \/ RemovedReturn(c) \/ SendNowReturn(c) \/ ClientRejected(c)
      PROVE  UNCHANGED port
  BY <1>2 DEF QueuedReturn, RemovedReturn, SendNowReturn, ClientRejected
<1>3. ASSUME \/ Attach \/ ResumeHeld \/ DrainEnter \/ DrainLost
             \/ \E t \in Turn : LocalPrompt(t)
             \/ RunEnds \/ ReadEvent \/ FinishDone \/ PlanningChanges \/ StoreWorks
             \/ UNCHANGED vars
      PROVE  UNCHANGED port
  BY <1>3 DEF Attach, ResumeHeld, DrainEnter, DrainLost, LocalPrompt, RunEnds, ReadEvent, IngestStart,
              IngestEnd, IngestError, FinishDone, PlanningChanges, StoreWorks, vars, hostVars, loopState
<1> QED BY <1>1, <1>2, <1>3, NotTaken DEF HostNext, ClientReturn, DrainStep

\* Somebody gets a prompt that nobody had.
LEMMA ApartAfresh ==
  ASSUME LoopTypes, Apart, \A u \in Turn : Spent(u) => Spent(u)',
         NEW t \in Turn, ~Spent(t), Spent(t)', NEW c \in Caller,
         port' = [port EXCEPT ![c] = [phase |-> "sent", turn |-> t]]
  PROVE  Apart'
<1>1. port'[c] = [phase |-> "sent", turn |-> t] /\ \A d \in Caller \ {c} : port'[d] = port[d]
  BY DEF LoopTypes
<1>2. \A d \in Caller : port[d].phase # "none" => port[d].turn \in Turn /\ Spent(port[d].turn)
                                                  /\ port[d].turn # t
  BY DEF LoopTypes, Apart
<1>3. ASSUME NEW d \in Caller, port'[d].phase # "none" PROVE Spent(port[d].turn)'
  BY <1>1, <1>2, <1>3
<1>4. ASSUME NEW d \in Caller, NEW e \in Caller, port'[d].phase # "none", port'[e].phase # "none",
             port'[e].turn = port'[d].turn
      PROVE  e = d
  BY <1>1, <1>2, <1>4 DEF Apart
<1> QED BY <1>3, <1>4 DEF Apart

\* Nobody gets one.
LEMMA ApartKept ==
  ASSUME LoopTypes, Apart, \A u \in Turn : Spent(u) => Spent(u)',
         \A d \in Caller : port'[d].phase # "none" =>
           port[d].phase # "none" /\ port'[d].turn = port[d].turn
  PROVE  Apart'
<1>1. ASSUME NEW d \in Caller, port'[d].phase # "none" PROVE Spent(port[d].turn)'
  BY <1>1 DEF Apart, LoopTypes
<1>2. ASSUME NEW d \in Caller, NEW e \in Caller, port'[d].phase # "none", port'[e].phase # "none",
             port'[e].turn = port'[d].turn
      PROVE  e = d
  BY <1>2 DEF Apart
<1> QED BY <1>1, <1>2 DEF Apart

LEMMA ApartStep ==
  ASSUME OrderInv, OrderBounds, [HostNext]_vars
  PROVE  Apart'
<1>1. /\ QueueInv /\ OnceInv /\ HostTypes /\ Loop /\ LoopTypes /\ Apart
      /\ Client \subseteq Caller /\ Drainer \in Caller
      /\ \A u \in Turn : Spent(u) => Spent(u)'
  BY HostAssumption, SpentStays DEF OrderInv, HostInv, HostTypes, Client
<1>2. CASE UNCHANGED port
  BY <1>1, <1>2, ApartKept
<1>3. ASSUME NEW c \in Client, NEW t \in Turn, StartDirect(c, t) PROVE Apart'
  <2>1. Bypass(t) /\ port' = [port EXCEPT ![c] = [phase |-> "sent", turn |-> t]]
    BY <1>3 DEF StartDirect, Bypass
  <2>2. ~Spent(t) /\ Spent(t)'
    BY <1>1, <2>1, NotYetSpent, NewIsOutside DEF Bypass, Spent
  <2> QED BY <1>1, <2>1, <2>2, ApartAfresh
<1>4. ASSUME NEW c \in Caller, NEW p, port' = [port EXCEPT ![c] = p],
             p.phase = "none" \/ (port[c].phase # "none" /\ p.turn = port[c].turn)
      PROVE  Apart'
  <2>1. port'[c] = p /\ \A d \in Caller \ {c} : port'[d] = port[d]
    BY <1>1, <1>4 DEF LoopTypes
  <2> QED BY <1>1, <1>4, <2>1, ApartKept
<1>5. NoPort.phase = "none"
  BY DEF NoPort
<1>6. ASSUME NEW c \in Client, DirectReturn(c) \/ DirectRejected(c) PROVE Apart'
  BY <1>1, <1>4, <1>5, <1>6 DEF DirectReturn, DirectRejected
<1>7. CASE DrainStarted \/ DrainFailed
  BY <1>1, <1>4, <1>5, <1>7 DEF DrainStarted, DrainFailed
<1>8. CASE DrainShifted
  <2>1. op[Drainer].kind = "remove" /\ claims \in [Turn -> 0..2]
    BY <1>1, <1>8 DEF DrainShifted, RemoveReturn, QueueInv, QueueTypeOK
  <2>2. PICK t \in Turn : t = op[Drainer].id /\ ~Spent(t)
    BY <1>1, <2>1, CarriedNotSpent
  <2>3. /\ claims' = [claims EXCEPT ![t] = @ + 1]
        /\ port' = [port EXCEPT ![Drainer] = [phase |-> "sent", turn |-> t]]
    BY <1>8, <2>2 DEF DrainShifted, RemoveReturn
  <2>4. Spent(t)'
    BY <2>1, <2>3 DEF Spent
  <2> QED BY <1>1, <2>2, <2>3, <2>4, ApartAfresh
<1>9. ASSUME NEW c \in Caller, MainAccepts(c) \/ MainRefuses(c) PROVE Apart'
  <2>1. /\ port[c].phase = "sent" /\ port[c] \in [phase : {"none", "sent", "ok", "failed"}, turn : Turn \cup {NoTurn}]
        /\ \E p : port' = [port EXCEPT ![c].phase = p]
    BY <1>1, <1>9 DEF MainAccepts, MainRefuses, LoopTypes
  <2> QED BY <1>1, <1>4, <2>1
<1>10. CASE HostRestart
  BY <1>5, <1>10 DEF HostRestart, Apart
<1> QED BY <1>1, <1>2, <1>3, <1>6, <1>7, <1>8, <1>9, <1>10, PortMoves

LEMMA RefusedStep ==
  ASSUME OrderInv, OrderBounds, [HostNext]_vars
  PROVE  Refused'
<1>1. /\ HostInv /\ HostTypes /\ UseInv /\ Loop /\ LoopTypes /\ Apart /\ Refused
      /\ Client \subseteq Caller /\ Drainer \in Caller /\ UsedType
  BY HostAssumption DEF OrderInv, HostInv, HostTypes, Client
\* A refused prompt is not given to the runtime by anybody else.
<1>2. ASSUME NEW c \in Caller, port[c].phase = "failed" PROVE used'[port[c].turn] = 0
  <2>1. port[c].turn \in Turn /\ Spent(port[c].turn) /\ used[port[c].turn] = 0
    BY <1>1, <1>2 DEF LoopTypes, Apart, Refused
  <2>2. ASSUME NEW d \in Caller, Waits(d, port[c].turn) PROVE FALSE
    BY <1>1, <1>2, <2>2 DEF Waits, Apart
  <2>3. CASE used' = used
    BY <2>1, <2>3
  <2>4. ASSUME NEW u \in Turn, used' = [used EXCEPT ![u] = @ + 1], u # port[c].turn
        PROVE  used'[port[c].turn] = 0
    BY <1>1, <2>1, <2>4 DEF UsedType
  <2> QED BY <1>1, <2>1, <2>2, <2>3, <2>4, UsedStep
<1>3. CASE \A c \in Caller : port'[c].phase = "failed" => port'[c] = port[c]
  BY <1>2, <1>3 DEF Refused
<1>4. ASSUME NEW c \in Caller, NEW p, port' = [port EXCEPT ![c] = p], p.phase # "failed" PROVE Refused'
  <2>1. port'[c] = p /\ \A d \in Caller \ {c} : port'[d] = port[d]
    BY <1>1, <1>4 DEF LoopTypes
  <2> QED BY <1>3, <1>4, <2>1
<1>5. NoPort.phase = "none"
  BY DEF NoPort
<1>6. ASSUME NEW c \in Client, NEW t \in Turn, StartDirect(c, t) PROVE Refused'
  <2>1. port' = [port EXCEPT ![c] = [phase |-> "sent", turn |-> t]] /\ c \in Caller
    BY <1>1, <1>6 DEF StartDirect
  <2>2. [phase |-> "sent", turn |-> t].phase # "failed"
    OBVIOUS
  <2> DEFINE p == [phase |-> "sent", turn |-> t]
  <2> HIDE DEF p
  <2>3. port' = [port EXCEPT ![c] = p] /\ p.phase # "failed" /\ c \in Caller
    BY <2>1, <2>2 DEF p
  <2> QED BY <1>4, <2>3
<1>7. ASSUME NEW c \in Client, DirectReturn(c) \/ DirectRejected(c) PROVE Refused'
  BY <1>1, <1>4, <1>5, <1>7 DEF DirectReturn, DirectRejected
<1>8. CASE DrainShifted \/ DrainStarted \/ DrainFailed
  BY <1>1, <1>4, <1>5, <1>8 DEF DrainShifted, DrainStarted, DrainFailed
<1>9. ASSUME NEW c \in Caller, MainAccepts(c) PROVE Refused'
  <2>1. port' = [port EXCEPT ![c].phase = "ok"]
    BY <1>9 DEF MainAccepts
  <2>2. port'[c].phase = "ok" /\ \A d \in Caller \ {c} : port'[d] = port[d]
    BY <1>1, <2>1 DEF LoopTypes
  <2> QED BY <1>3, <2>2
<1>10. ASSUME NEW c \in Caller, MainRefuses(c) PROVE Refused'
  <2>1. port' = [port EXCEPT ![c].phase = "failed"] /\ used' = used /\ port[c].phase = "sent"
    BY <1>10 DEF MainRefuses
  <2>2. port'[c].turn = port[c].turn /\ \A d \in Caller \ {c} : port'[d] = port[d]
    BY <1>1, <2>1 DEF LoopTypes
  <2>3. used[port[c].turn] = 0
    BY <1>1, <2>1 DEF UseInv, Waits, LoopTypes
  <2> QED BY <1>1, <2>1, <2>2, <2>3 DEF Refused
<1>11. CASE HostRestart
  BY <1>5, <1>11 DEF HostRestart, Refused
<1>12. CASE UNCHANGED port
  BY <1>3, <1>12
<1> QED BY <1>1, <1>6, <1>7, <1>8, <1>9, <1>10, <1>11, <1>12, PortMoves

\* Aliases are added by the loop.
LEMMA AliasStep ==
  ASSUME OrderBounds, HostTypes, Loop, [HostNext]_vars
  PROVE  alias' = alias \/ (DrainStarted /\ alias' = alias \cup {port[Drainer].turn})
         \/ (HostRestart /\ alias' = {})
<1>1. ReadEvent => alias' = alias
  BY DEF ReadEvent, IngestStart, IngestEnd, IngestError
<1>2. \A c \in Client : QueuedReturn(c) \/ DirectReturn(c) \/ RemovedReturn(c) => alias' = alias
  BY DEF QueuedReturn, DirectReturn, RemovedReturn
<1>3. /\ Attach \/ DrainShifted \/ DrainFailed => alias' = alias
      /\ DrainStarted => alias' = alias \cup {port[Drainer].turn}
      /\ HostRestart => alias' = {}
  BY DEF Attach, DrainShifted, DrainFailed, DrainStarted, HostRestart
<1> QED BY <1>1, <1>2, <1>3, TurnMoves

LEMMA AdmittedStep ==
  ASSUME OrderInv, OrderBounds, [HostNext]_vars
  PROVE  Admitted'
<1>1. /\ HostInv /\ HostTypes /\ UseInv /\ Loop /\ LoopTypes /\ RunTypes /\ Apart /\ Admitted /\ Names
      /\ Client \subseteq Caller /\ Drainer \in Caller
  BY HostAssumption DEF OrderInv, HostInv, HostTypes, Client
<1>2. SUFFICES ASSUME NEW c \in Caller, port'[c].phase = "ok"
               PROVE  /\ main'.phase = "open" /\ main'.run = port'[c].turn
                      /\ port'[c].turn \notin alias' /\ status'[RunId(port'[c].turn)] = "unknown"
  BY DEF Admitted
\* Main has just accepted it.
<1>3. CASE MainAccepts(c)
  <2>1. PICK t \in Turn : t = port[c].turn /\ used[t] = 0
    BY <1>1, <1>3 DEF MainAccepts, LoopTypes, UseInv, Waits
  <2>2. /\ main' = [run |-> t, phase |-> "open"] /\ port' = [port EXCEPT ![c].phase = "ok"]
        /\ alias' = alias /\ status' = status
    BY <1>3, <2>1 DEF MainAccepts, StartRun, turnState
  <2>3. port'[c].turn = t
    BY <1>1, <2>1, <2>2 DEF LoopTypes
  <2> QED BY <1>1, <2>1, <2>2, <2>3 DEF Names
\* Otherwise it was in hand before, and nobody else's.
<1>4. CASE ~MainAccepts(c)
  <2>1. port[c].phase = "ok" /\ port'[c] = port[c] /\ ~HostRestart
    <3>1. ASSUME NEW d \in Caller, NEW p, p.phase # "ok", port' = [port EXCEPT ![d] = p]
          PROVE  port'[c] = port[c]
      BY <1>1, <1>2, <3>1 DEF LoopTypes
    <3>2. NoPort.phase = "none"
      BY DEF NoPort
    <3>3. ASSUME NEW d \in Client, NEW t \in Turn, StartDirect(d, t) PROVE port'[c] = port[c]
      <4>1. port' = [port EXCEPT ![d] = [phase |-> "sent", turn |-> t]] /\ d \in Caller
        BY <1>1, <3>3 DEF StartDirect
      <4> QED BY <3>1, <4>1
    <3>4. ASSUME NEW d \in Client, DirectReturn(d) \/ DirectRejected(d) PROVE port'[c] = port[c]
      BY <1>1, <3>1, <3>2, <3>4 DEF DirectReturn, DirectRejected
    <3>5. ASSUME DrainShifted \/ DrainStarted \/ DrainFailed PROVE port'[c] = port[c]
      BY <1>1, <3>1, <3>2, <3>5 DEF DrainShifted, DrainStarted, DrainFailed
    <3>6. ASSUME NEW d \in Caller, MainRefuses(d) PROVE port'[c] = port[c]
      BY <1>1, <1>2, <3>6 DEF MainRefuses, LoopTypes
    <3>7. ASSUME NEW d \in Caller, MainAccepts(d) PROVE port'[c] = port[c]
      BY <1>1, <1>4, <3>7 DEF MainAccepts, LoopTypes
    <3>8. ~HostRestart
      BY <1>2, <3>2 DEF HostRestart
    <3>9. port'[c] = port[c]
      BY <1>1, <3>3, <3>4, <3>5, <3>6, <3>7, <3>8, PortMoves
    <3> QED BY <1>2, <3>8, <3>9
  <2>2. PICK t \in Turn : t = port[c].turn
    BY <1>1, <2>1 DEF LoopTypes
  <2>3. main.phase = "open" /\ main.run = t /\ t \notin alias /\ status[RunId(t)] = "unknown"
    BY <1>1, <2>1, <2>2 DEF Admitted
  <2>4. ~ReadEvent
    BY <2>1, Attributed DEF OrderBounds
  <2>5. main' = main
    <3>1. ~FinishDone /\ (\A d \in Caller : ~MainAccepts(d)) /\ \A u \in Turn : ~LocalPrompt(u)
      BY <2>3 DEF FinishDone, MainAccepts, LocalPrompt
    <3>2. RunEnds => main' = main
      BY DEF RunEnds
    <3> QED BY <1>1, <2>1, <2>4, <3>1, <3>2, RunMoves
  <2>6. ~DrainStarted /\ \A d \in Client : ~DirectReturn(d) \/ port[d].turn # t
    <3>1. ASSUME NEW d \in Caller, port[d].phase = "ok", port[d].turn = t PROVE d = c
      BY <1>1, <2>1, <2>2, <3>1 DEF Apart
    <3>2. ASSUME NEW d \in Caller, port' = [port EXCEPT ![d] = NoPort] PROVE d # c
      BY <1>1, <1>2, <3>2 DEF LoopTypes, NoPort
    <3>3. ASSUME DrainStarted PROVE FALSE
      <4>1. /\ port[Drainer].phase = "ok" /\ port' = [port EXCEPT ![Drainer] = NoPort]
        BY <3>3 DEF DrainStarted, Prompted
      <4>2. port[Drainer].turn = main.run
        BY <1>1, <4>1 DEF Admitted
      <4> QED BY <1>1, <2>3, <3>1, <3>2, <4>1, <4>2
    <3>4. ASSUME NEW d \in Client, DirectReturn(d), port[d].turn = t PROVE FALSE
      <4>1. port[d].phase = "ok" /\ port' = [port EXCEPT ![d] = NoPort] /\ d \in Caller
        BY <1>1, <3>4 DEF DirectReturn
      <4> QED BY <3>1, <3>2, <3>4, <4>1
    <3> QED BY <3>3, <3>4
  <2>7. alias' = alias
    BY <1>1, <2>1, <2>6, AliasStep
  <2>8. status'[RunId(t)] = "unknown"
    BY <2>1, <2>3, <2>4, <2>6, RunNameStep
  <2> QED BY <2>1, <2>2, <2>3, <2>5, <2>7, <2>8
<1> QED BY <1>3, <1>4

LEMMA NamesStep ==
  ASSUME OrderInv, OrderBounds, [HostNext]_vars
  PROVE  Names'
<1>1. /\ HostInv /\ HostTypes /\ UseInv /\ UsedType /\ Loop /\ LoopTypes /\ Apart /\ Admitted /\ Names
      /\ QueueInv /\ Drainer \in Caller
  BY HostAssumption DEF OrderInv, HostInv, HostTypes
<1>2. SUFFICES ASSUME NEW t \in Turn
               PROVE  /\ used'[t] = 0 => t \notin alias'
                      /\ used'[t] = 0 \/ t \in alias' => status'[RunId(t)] = "unknown"
                      /\ ~Spent(t)' => status'[t] \notin Terminal
  BY DEF Names
<1>3. Spent(t) => Spent(t)'
  BY <1>1, SpentStays
<1>4. used'[t] = 0 => used[t] = 0
  <2>1. ASSUME NEW u \in Turn, used' = [used EXCEPT ![u] = @ + 1], used[t] # 0 PROVE used'[t] # 0
    BY <1>1, <2>1 DEF UsedType
  <2> QED BY <1>1, <2>1, UsedStep
\* The loop learns the name of the run that Main holds the session for.
<1>5. ASSUME DrainStarted
      PROVE  /\ port[Drainer].turn \in Turn /\ used[port[Drainer].turn] = 1
             /\ status[RunId(port[Drainer].turn)] = "unknown" /\ used' = used
             /\ status'[RunId(t)] = status[RunId(t)]
  <2>1. port[Drainer].phase = "ok" /\ used' = used /\ status' = [status EXCEPT ![port[Drainer].turn] = "running"]
    BY <1>5 DEF DrainStarted, Prompted
  <2>2. port[Drainer].turn \in Turn /\ main.phase = "open" /\ main.run = port[Drainer].turn
        /\ status[RunId(port[Drainer].turn)] = "unknown"
    BY <1>1, <2>1 DEF LoopTypes, Admitted
  <2>3. used[port[Drainer].turn] = 1
    BY <2>2 DEF OrderInv, Streams
  <2>4. RunId(t) # port[Drainer].turn
    BY <2>2, RunIds
  <2>5. status'[RunId(t)] = status[RunId(t)]
    BY <1>1, <2>1, <2>4, RunIds DEF HostTypes, TurnTypes
  <2> QED BY <2>1, <2>2, <2>3, <2>5
<1>6. used'[t] = 0 => t \notin alias'
  BY <1>1, <1>4, <1>5, AliasStep DEF Names
<1>7. ASSUME used'[t] = 0 \/ t \in alias' PROVE status'[RunId(t)] = "unknown"
  <2>1. CASE DrainStarted
    <3>1. alias' = alias \cup {port[Drainer].turn}
      BY <2>1 DEF DrainStarted
    <3> QED BY <1>1, <1>4, <1>5, <1>7, <2>1, <3>1 DEF Names
  <2>2. CASE HostRestart
    BY <2>2, RunIds DEF HostRestart
  <2>3. CASE ~DrainStarted /\ ~HostRestart
    <3>1. (used[t] = 0 \/ t \in alias) /\ status[RunId(t)] = "unknown"
      BY <1>1, <1>4, <1>7, <2>3, AliasStep DEF Names
    <3>2. ASSUME NEW c \in Client, DirectReturn(c), port[c].turn = t PROVE FALSE
      <4>1. port[c].phase = "ok" /\ c \in Caller
        BY <3>2 DEF DirectReturn, Client
      <4>2. main.phase = "open" /\ main.run = t /\ t \notin alias
        BY <1>1, <3>2, <4>1 DEF Admitted
      <4> QED BY <3>1, <4>2 DEF OrderInv, Streams
    <3>3. ASSUME ReadEvent, main.run = t, t \notin alias PROVE FALSE
      <4>1. used[t] = 1
        BY <3>3, Attributed DEF OrderBounds
      <4> QED BY <3>1, <3>3, <4>1
    <3> QED BY <2>3, <3>1, <3>2, <3>3, RunNameStep
  <2> QED BY <2>1, <2>2, <2>3
<1>8. ASSUME ~Spent(t)' PROVE status'[t] \notin Terminal
  <2>1. ~Spent(t) /\ status[t] \notin Terminal
    BY <1>1, <1>3, <1>8 DEF Names
  <2>2. ASSUME DrainFailed PROVE t # port[Drainer].turn
    BY <1>1, <2>1, <2>2 DEF DrainFailed, Prompted, Apart
  <2>3. ASSUME ReadEvent PROVE t # main.run
    BY <2>1, <2>3, Attributed DEF OrderBounds
  <2>4. "queued" \notin Terminal /\ "running" \notin Terminal /\ "unknown" \notin Terminal
    BY DEF Terminal
  <2> QED BY <1>8, <2>1, <2>2, <2>3, <2>4, RecordStep
<1> QED BY <1>6, <1>7, <1>8

\* The loop has its record, then its prompt, and never both.
LEMMA LoopStep ==
  ASSUME OrderInv, OrderBounds, [HostNext]_vars
  PROVE  Loop'
<1>1. /\ HostInv /\ HostTypes /\ UseInv /\ UsedType /\ Loop /\ LoopTypes /\ Apart /\ Admitted /\ Refused
      /\ Names /\ QueueInv /\ OnceInv /\ Drainer \in Caller /\ Client \subseteq Caller
      /\ op \in [Caller -> Call] /\ Drainer \notin Client
  BY HostAssumption DEF OrderInv, HostInv, HostTypes, QueueInv, QueueTypeOK, Client
\* The turn of a prompt that stays in hand does not end.
<1>2. ASSUME port[Drainer].phase # "none", port'[Drainer].phase # "none",
             port'[Drainer].turn = port[Drainer].turn
      PROVE  status'[port'[Drainer].turn] \notin Terminal
  <2>1. PICK t \in Turn : t = port[Drainer].turn
    BY <1>1, <1>2 DEF LoopTypes
  <2>2. Spent(t) /\ status[t] \notin Terminal
    BY <1>1, <1>2, <2>1 DEF Apart, Loop
  <2>3. ~DrainFailed
    BY <1>1, <1>2 DEF DrainFailed, LoopTypes, NoPort
  <2>4. ReadEvent => t # main.run
    <3>1. ReadEvent => used[main.run] = 1 /\ port[Drainer].phase # "ok"
      BY <1>1, Attributed DEF OrderBounds
    <3>2. port[Drainer].phase \in {"sent", "failed"} => used[t] = 0
      BY <1>1, <2>1 DEF UseInv, Waits, Refused
    <3> QED BY <1>1, <1>2, <3>1, <3>2 DEF LoopTypes
  <2>5. "queued" \notin Terminal /\ "running" \notin Terminal /\ "unknown" \notin Terminal
    BY DEF Terminal
  <2> QED BY <1>2, <2>1, <2>2, <2>3, <2>4, <2>5, RecordStep
<1>3. ASSUME drain' = drain, op'[Drainer].kind = op[Drainer].kind, port'[Drainer] = port[Drainer]
      PROVE  Loop'
  BY <1>1, <1>2, <1>3 DEF Loop
\* A client's step.
<1>4. ASSUME NEW c \in Client, \/ ClientReturn(c) \/ ClientRejected(c)
                               \/ \E t \in Turn : ClientCall(c, t)
      PROVE  Loop'
  <2>1. drain' = drain
    BY <1>4 DEF ClientCall, StartQueued, StartDirect, SteerBegin, CancelBegin, CancelStarting,
         SendNow, SendNowMiss, ClientReturn, QueuedReturn, DirectReturn, DirectRejected,
         RemovedReturn, SendNowReturn, ClientRejected, hostVars, loopState
  <2>2. op' = op \/ \E x : op' = [op EXCEPT ![c] = x]
    BY <1>4 DEF ClientCall, StartQueued, StartDirect, SteerBegin, CancelBegin, CancelStarting,
         SendNow, SendNowMiss, ClientReturn, QueuedReturn, DirectReturn, DirectRejected,
         RemovedReturn, SendNowReturn, ClientRejected, PushBegin, RemoveBegin, PrioritizeBegin,
         PushReturn, RemoveReturn, PrioritizeReturn, CallRejects, queueVars
  <2>3. port' = port \/ \E x : port' = [port EXCEPT ![c] = x]
    BY <1>4 DEF ClientCall, StartQueued, StartDirect, SteerBegin, CancelBegin, CancelStarting,
         SendNow, SendNowMiss, ClientReturn, QueuedReturn, DirectReturn, DirectRejected,
         RemovedReturn, SendNowReturn, ClientRejected, hostVars, loopState
  <2>4. op'[Drainer] = op[Drainer] /\ port'[Drainer] = port[Drainer]
    BY <1>1, <2>2, <2>3 DEF LoopTypes
  <2> QED BY <1>3, <2>1, <2>4
<1>5. CASE ResumeHeld
  BY <1>3, <1>5 DEF ResumeHeld, Resume
<1>6. CASE DrainEnter
  <2>1. port' = port /\ ((CanShift /\ drain' = "shifting") \/ (drain' = drain /\ op' = op))
    BY <1>6 DEF DrainEnter, queueVars
  <2>2. CASE CanShift /\ drain' = "shifting"
    BY <1>1, <2>1, <2>2 DEF Loop, CanShift
  <2> QED BY <1>3, <2>1, <2>2
<1>7. CASE DrainShifted
  <2>1. /\ op[Drainer].kind = "remove" /\ op' = [op EXCEPT ![Drainer] = Idle] /\ drain' = "prompting"
        /\ port' = [port EXCEPT ![Drainer] = [phase |-> "sent", turn |-> op[Drainer].id]]
        /\ status' = [status EXCEPT ![op[Drainer].id] = IF @ = "unknown" THEN "queued" ELSE @]
    BY <1>7 DEF DrainShifted, RemoveReturn
  <2>2. PICK t \in Turn : t = op[Drainer].id /\ ~Spent(t)
    BY <1>1, <2>1, CarriedNotSpent
  <2>3. status[t] \notin Terminal
    BY <1>1, <2>2 DEF Names
  <2>4. status'[t] \notin Terminal
    BY <1>1, <2>1, <2>2, <2>3, RunIds DEF HostTypes, TurnTypes, Terminal
  <2>5. op'[Drainer].kind = "idle" /\ port'[Drainer].turn = t
    BY <1>1, <2>1, <2>2 DEF Idle, LoopTypes
  <2> QED BY <2>1, <2>4, <2>5 DEF Loop
<1>8. CASE DrainLost
  <2>1. op' = [op EXCEPT ![Drainer] = Idle] /\ drain' = "off" /\ port' = port /\ op[Drainer].phase # "none"
    BY <1>8 DEF DrainLost, CallRejects
  <2>2. drain = "shifting"
    BY <1>1, <2>1 DEF Loop, QueueInv, Placed
  <2>3. op'[Drainer].kind = "idle"
    BY <1>1, <2>1 DEF Idle
  <2> QED BY <1>1, <2>1, <2>2, <2>3 DEF Loop
<1>9. CASE DrainStarted \/ DrainFailed
  <2>1. /\ drain' = "off" /\ op' = op /\ port' = [port EXCEPT ![Drainer] = NoPort] /\ drain = "prompting"
    BY <1>9 DEF DrainStarted, DrainFailed, Prompted, queueVars
  <2>2. port'[Drainer].phase = "none"
    BY <1>1, <2>1 DEF LoopTypes, NoPort
  <2> QED BY <1>1, <2>1, <2>2 DEF Loop
<1>10. ASSUME NEW c \in Caller, MainAccepts(c) \/ MainRefuses(c) PROVE Loop'
  <2>1. /\ drain' = drain /\ op' = op /\ port[c].phase = "sent"
        /\ \E p : port' = [port EXCEPT ![c].phase = p]
    BY <1>10 DEF MainAccepts, MainRefuses, queueVars
  <2>2. CASE c # Drainer
    BY <1>1, <1>3, <2>1, <2>2 DEF LoopTypes
  <2>3. CASE c = Drainer
    <3>1. port'[Drainer].turn = port[Drainer].turn /\ port[Drainer].phase # "none"
      BY <1>1, <2>1, <2>3 DEF LoopTypes
    <3> QED BY <1>1, <1>2, <2>1, <3>1 DEF Loop
  <2> QED BY <2>2, <2>3
<1>11. CASE StoreWorks
  <2>1. drain' = drain /\ port' = port
    BY <1>11 DEF StoreWorks, hostVars
  <2>2. op' = op \/ \E c \in Caller, p \in Phase : op' = [op EXCEPT ![c].phase = p]
    BY <1>11 DEF StoreWorks, StoreStep, StorePush, StoreRemove, StorePrioritize, StoreReorder, StoreList,
       RestoreReturn, Phase
  <2>3. op'[Drainer].kind = op[Drainer].kind
    BY <1>1, <2>2 DEF Call
  <2> QED BY <1>3, <2>1, <2>3
<1>12. CASE HostRestart
  <2>1. drain' = "off" /\ op'[Drainer].kind = "idle" /\ port'[Drainer].phase = "none"
    BY <1>1, <1>12 DEF HostRestart, QueueRestart, Idle, NoPort
  <2> QED BY <2>1 DEF Loop
<1>13. ASSUME \/ Attach \/ RunEnds \/ ReadEvent \/ FinishDone \/ PlanningChanges
              \/ \E t \in Turn : LocalPrompt(t)
              \/ UNCHANGED vars
       PROVE  Loop'
  BY <1>3, <1>13 DEF Attach, RunEnds, ReadEvent, IngestStart, IngestEnd, IngestError, FinishDone,
       PlanningChanges, LocalPrompt, vars, hostVars, loopState, queueVars
<1> QED BY <1>1, <1>4, <1>5, <1>6, <1>7, <1>8, <1>9, <1>10, <1>11, <1>12, <1>13, NotTaken
        DEF HostNext, DrainStep

\* Main has just been given a run that nobody knows.
LEMMA GoesAfresh ==
  ASSUME Names, NEW t \in Turn, used[t] = 0, main.phase # "open", Streams, StartRun(t),
         UNCHANGED <<status, alias>>
  PROVE  Goes'
<1>1. main' = [run |-> t, phase |-> "open"] /\ wire = <<>> /\ streaming = NoTurn
  BY DEF StartRun, Streams
<1>2. wire' = Append(<<>>, [type |-> "start", turn |-> t])
  BY <1>1 DEF StartRun
<1>3. wire' # <<>> /\ Head(wire').type = "start"
  BY <1>2
<1>4. t \notin alias /\ status[RunId(t)] = "unknown"
  BY DEF Names
<1> QED BY <1>1, <1>3, <1>4 DEF Goes, Begun, Terminal

LEMMA GoesStep ==
  ASSUME OrderInv, OrderBounds, [HostNext]_vars
  PROVE  Goes'
<1>1. /\ HostInv /\ HostTypes /\ UseInv /\ UsedType /\ Loop /\ LoopTypes /\ RunTypes /\ TurnTypes
      /\ Apart /\ Admitted /\ Refused /\ Streams /\ Goes
      /\ Names /\ QueueInv /\ OnceInv /\ Drainer \in Caller /\ Client \subseteq Caller
  BY HostAssumption DEF OrderInv, HostInv, HostTypes, Client
<1>2. ASSUME NEW c \in Caller, MainAccepts(c) PROVE Goes'
  <2>1. /\ StartRun(port[c].turn) /\ port[c].turn \in Turn /\ main.phase # "open"
        /\ Waits(c, port[c].turn) /\ UNCHANGED <<status, alias>>
    BY <1>1, <1>2 DEF MainAccepts, LoopTypes, Waits, turnState
  <2>2. used[port[c].turn] = 0
    BY <1>1, <2>1 DEF UseInv
  <2> QED BY <1>1, <2>1, <2>2, GoesAfresh
<1>3. ASSUME NEW t \in Turn, LocalPrompt(t) PROVE Goes'
  <2>1. StartRun(t) /\ main.phase # "open" /\ ~Spent(t) /\ UNCHANGED <<status, alias>>
    BY <1>1, <1>3, NotYetSpent DEF LocalPrompt, turnState
  <2>2. used[t] = 0
    BY <1>1, <2>1 DEF UseInv, UsedType
  <2> QED BY <1>1, <2>1, <2>2, GoesAfresh
<1>4. CASE FinishDone \/ HostRestart
  BY <1>4 DEF FinishDone, HostRestart, NoMain, Goes
<1>5. CASE IngestEnd \/ IngestError
  <2>1. ReadEvent /\ ~IngestStart
    BY <1>5 DEF ReadEvent, IngestStart, IngestEnd, IngestError, Read
  <2>2. main' = [main EXCEPT !.phase = "closing"]
    BY <2>1, EventStep
  <2>3. main'.phase = "closing"
    BY <1>1, <2>2 DEF RunTypes
  <2> QED BY <2>3 DEF Goes
\* The run that Main holds the session for is the one it held it for.
<1>6. ASSUME main' = main, main.phase = "open", wire' = wire \/ RunEnds \/ IngestStart,
             ~HostRestart, ~IngestEnd, ~IngestError
      PROVE  Goes'
  <2>1. PICK t \in Turn : main.run = t /\ used[t] = 1
    BY <1>1, <1>6 DEF Streams
  <2>2. /\ Spent(t) /\ status[RunId(t)] \notin Terminal /\ (t \in alias => status[t] \notin Terminal)
        /\ Begun
    BY <1>1, <1>6, <2>1 DEF UseInv, Goes
  <2>3. ReadEvent => IngestStart
    BY <1>6 DEF ReadEvent
  <2>4. "running" \notin Terminal /\ "queued" \notin Terminal /\ "unknown" \notin Terminal
    BY DEF Terminal
  <2>5. status'[RunId(t)] \notin Terminal
    BY <2>2, <2>3, <2>4, RunNameStep
  <2>6. t \in alias' => status'[t] \notin Terminal
    <3>1. CASE DrainStarted
      <4>1. /\ port[Drainer].phase = "ok" /\ status' = [status EXCEPT ![port[Drainer].turn] = "running"]
        BY <3>1 DEF DrainStarted, Prompted
      <4>2. port[Drainer].turn = t
        BY <1>1, <2>1, <4>1 DEF Admitted
      <4> QED BY <1>1, <2>4, <4>1, <4>2, RunIds DEF TurnTypes
    <3>2. CASE ~DrainStarted
      <4>1. t \in alias' => t \in alias
        BY <1>1, <3>2, AliasStep
      <4>2. DrainFailed => t # port[Drainer].turn
        BY <1>1, <2>1 DEF DrainFailed, Prompted, Refused
      <4> QED BY <1>6, <2>2, <2>3, <2>4, <3>2, <4>1, <4>2, RecordStep
    <3> QED BY <3>1, <3>2
  <2>7. Begun'
    <3>1. CASE wire # <<>> /\ Head(wire).type = "start"
      <4>1. CASE wire' = wire
        BY <3>1, <4>1 DEF Begun
      <4>2. CASE RunEnds
        <5>1. PICK tail \in Tails :
                wire' = wire \o [i \in DOMAIN tail |-> [type |-> tail[i], turn |-> streaming]]
          BY <4>2 DEF RunEnds
        <5> DEFINE sent == [i \in DOMAIN tail |-> [type |-> tail[i], turn |-> streaming]]
        <5>2. sent \in Seq(Event)
          <6>1. tail \in Seq({"end", "error"}) /\ streaming \in Turn
            BY <1>1, <4>2, HostAssumption DEF RunEnds, RunTypes
          <6>2. /\ Len(tail) \in Nat /\ DOMAIN tail = 1..Len(tail)
                /\ \A i \in 1..Len(tail) : [type |-> tail[i], turn |-> streaming] \in Event
            BY <6>1 DEF Event
          <6> QED BY <6>2, IsASeq
        <5> HIDE DEF sent
        <5>3. wire' # <<>> /\ Head(wire') = Head(wire)
          BY <1>1, <3>1, <5>1, <5>2 DEF sent, RunTypes
        <5> QED BY <3>1, <5>3 DEF Begun
      <4>3. CASE IngestStart
        <5>1. active' = Resolve(main.run) /\ Resolve(main.run) \in Id
          BY <4>3, EventStep DEF ReadEvent
        <5>2. NoTurn \notin Id
          BY QueueAssumption, HostAssumption DEF Id
        <5> QED BY <5>1, <5>2 DEF Begun
      <4> QED BY <1>6, <4>1, <4>2, <4>3
    <3>2. CASE active # NoTurn
      <4>1. NoTurn \notin Id
        BY QueueAssumption, HostAssumption DEF Id
      <4>2. active' # NoTurn
        <5>1. IngestStart => active' # NoTurn
          BY <4>1, EventStep DEF ReadEvent
        <5>2. ASSUME NEW c \in Client, DirectReturn(c) PROVE active' # NoTurn
          <6>1. port[c].turn \in Turn /\ active' = RunId(port[c].turn)
            BY <1>1, <5>2 DEF DirectReturn, LoopTypes
          <6> QED BY <4>1, <6>1, RunIds
        <5>3. DrainStarted => active' # NoTurn
          BY <1>1, QueueAssumption DEF DrainStarted, Prompted, LoopTypes
        <5>4. ASSUME \/ \E c \in Client : QueuedReturn(c) \/ RemovedReturn(c)
                     \/ Attach \/ DrainShifted \/ DrainFailed
              PROVE  active' = active
          BY <5>4 DEF QueuedReturn, RemovedReturn, Attach, DrainShifted, DrainFailed
        <5> QED BY <1>1, <1>6, <2>3, <3>2, <5>1, <5>2, <5>3, <5>4, TurnMoves
      <4> QED BY <4>2 DEF Begun
    <3>3. CASE status[RunId(t)] # "unknown"
      <4>1. status'[RunId(t)] # "unknown"
        BY <1>6, <2>3, <3>3, RunNameStep
      <4> QED BY <1>6, <2>1, <4>1 DEF Begun
    <3>4. CASE t \in alias
      <4>1. t \in alias'
        BY <1>1, <1>6, <3>4, AliasStep
      <4> QED BY <1>6, <2>1, <4>1 DEF Begun
    <3>5. ASSUME NEW c \in Caller, port[c].phase = "ok" PROVE Begun'
      <4>1. CASE DrainStarted
        <5>1. active' \in Turn
          BY <1>1, <4>1 DEF DrainStarted, Prompted, LoopTypes
        <5> QED BY <5>1, QueueAssumption DEF Begun
      <4>2. ASSUME NEW d \in Client, DirectReturn(d) PROVE Begun'
        <5>1. port[d].turn \in Turn /\ active' = RunId(port[d].turn)
          BY <1>1, <4>2 DEF DirectReturn, LoopTypes
        <5> QED BY <5>1, RunIds DEF Begun
      <4>3. CASE ~DrainStarted /\ \A d \in Client : ~DirectReturn(d)
        <5>1. ASSUME NEW d \in Caller, NEW p, port[d].phase # "ok", port' = [port EXCEPT ![d] = p]
              PROVE  port'[c] = port[c]
          BY <1>1, <3>5, <5>1 DEF LoopTypes
        <5>2. ASSUME NEW d \in Client, NEW u \in Turn, StartDirect(d, u) PROVE port'[c] = port[c]
          <6> DEFINE p == [phase |-> "sent", turn |-> u]
          <6>1. port' = [port EXCEPT ![d] = p] /\ d \in Caller /\ port[d].phase # "ok"
            BY <1>1, <5>2 DEF StartDirect, Ask, Free, NoPort
          <6> HIDE DEF p
          <6> QED BY <5>1, <6>1
        <5>3. ASSUME NEW d \in Client, DirectRejected(d) PROVE port'[c] = port[c]
          BY <1>1, <5>1, <5>3 DEF DirectRejected
        <5>4. DrainShifted => port'[c] = port[c]
          <6>1. DrainShifted => op[Drainer].kind # "idle"
            BY DEF DrainShifted, RemoveReturn
          <6>2. DrainShifted => port[Drainer].phase # "ok"
            BY <1>1, <6>1 DEF Loop
          <6> QED BY <1>1, <5>1, <6>2 DEF DrainShifted
        <5>5. DrainFailed => port'[c] = port[c]
          BY <1>1, <5>1 DEF DrainFailed, Prompted
        <5>6. ASSUME NEW d \in Caller, MainAccepts(d) \/ MainRefuses(d) PROVE port'[c] = port[c]
          BY <1>1, <3>5, <5>6 DEF MainAccepts, MainRefuses, LoopTypes
        <5>7. port'[c] = port[c]
          BY <1>1, <1>6, <4>3, <5>2, <5>3, <5>4, <5>5, <5>6, PortMoves
        <5> QED BY <3>5, <5>7 DEF Begun
      <4> QED BY <4>1, <4>2, <4>3
    <3> QED BY <2>1, <2>2, <3>1, <3>2, <3>3, <3>4, <3>5 DEF Begun
  <2> QED BY <1>6, <2>1, <2>5, <2>6, <2>7 DEF Goes
<1>7. CASE main' = main /\ main.phase # "open"
  BY <1>7 DEF Goes
<1>8. RunEnds \/ IngestStart => main' = main
  BY DEF RunEnds, IngestStart
<1> QED BY <1>1, <1>2, <1>3, <1>4, <1>5, <1>6, <1>7, <1>8, RunMoves DEF ReadEvent

LEMMA OrderInvInit == ASSUME HostInit PROVE OrderInv
<1>1. QueueInv /\ OnceInv /\ HostTypes
  BY QueueInvInit, OnceInit, HostTypesInit DEF HostInit
<1>2. /\ status = [i \in Id |-> "unknown"] /\ alias = {} /\ used = [t \in Turn |-> 0]
      /\ port = [c \in Caller |-> NoPort] /\ NoPort.phase = "none" /\ main.phase = "none"
      /\ streaming = NoTurn /\ wire = <<>> /\ drain = "off" /\ op = [c \in Caller |-> Idle]
      /\ Idle.kind = "idle"
  BY DEF HostInit, QueueInit, NoPort, NoMain, Idle
<1>3. UseInv
  BY <1>2 DEF UseInv, Waits
<1>4. Streams /\ Apart /\ Refused /\ Admitted /\ Goes
  BY <1>2 DEF Streams, Apart, Refused, Admitted, Goes
<1>5. Loop
  BY <1>2, HostAssumption DEF Loop
<1>6. Names
  BY <1>2, RunIds DEF Names, Terminal
<1> QED BY <1>1, <1>3, <1>4, <1>5, <1>6 DEF OrderInv, HostInv

LEMMA OrderInvStep ==
  ASSUME OrderInv, OrderBounds, [HostNext]_vars
  PROVE  OrderInv'
<1>1. HostInv'
  BY HostInvStep DEF OrderInv, OrderBounds
<1> QED BY <1>1, StreamsStep, ApartStep, RefusedStep, AdmittedStep, LoopStep, NamesStep, GoesStep
        DEF OrderInv

\* While no event was taken for another prompt's, what runs is what Main holds
\* the session for, under the name of its record or of its run.
Right ==
  ~astray => \A i \in Id : status[i] = "running" =>
    /\ main.phase = "open"
    /\ i = RunId(main.run) \/ (i = main.run /\ main.run \in alias)

LEMMA RightStep ==
  ASSUME OrderInv, OrderBounds, Right, [OrderNext]_orderVars
  PROVE  Right'
<1>1. /\ HostTypes /\ LoopTypes /\ RunTypes /\ TurnTypes /\ Loop /\ Admitted /\ Names /\ Streams
      /\ Drainer \in Caller /\ Client \subseteq Caller
      /\ [HostNext]_vars
  BY HostAssumption DEF OrderInv, HostInv, HostTypes, Client, OrderNext, orderVars
<1>2. CASE HostRestart
  BY <1>2 DEF HostRestart, Right
<1>3. ASSUME ~HostRestart, ~astray, ~Misread, NEW i \in Id, status'[i] = "running"
      PROVE  /\ main'.phase = "open"
             /\ i = RunId(main'.run) \/ (i = main'.run /\ main'.run \in alias')
  <2>1. "running" \notin Terminal
    BY DEF Terminal
  <2>2. ReadEvent => /\ main.phase = "open" /\ main.run \in Turn /\ Head(wire).turn = main.run
                     /\ Spent(main.run)
    BY Attributed DEF OrderBounds
\* The run of a turn that goes on running does not end.
  <2>3. ASSUME status[i] = "running" PROVE ~ReadEvent \/ IngestStart
    <3>1. CASE ReadEvent /\ ~IngestStart
      <4>1. i = RunId(main.run) \/ (i = main.run /\ main.run \in alias)
        BY <1>3, <2>3 DEF Right
      <4>2. main.run \in alias => status[RunId(main.run)] = "unknown"
        BY <1>1, <2>2, <3>1 DEF Names
      <4>3. i = Resolve(main.run)
        <5>1. i = RunId(main.run) => main.run \notin alias
          BY <2>3, <4>2
        <5> QED BY <3>1, <4>1, <5>1, Attributed DEF OrderBounds
      <4>4. status'[i] \in Terminal
        BY <2>3, <3>1, <4>3, EventStep
      <4> QED BY <1>3, <2>1, <4>4
    <3> QED BY <3>1
  <2>4. ASSUME status[i] = "running" PROVE main' = main /\ main.phase = "open" /\ main.run \in Turn
    <3>1. main.phase = "open" /\ main.run \in Turn
      BY <1>1, <1>3, <2>4 DEF Right, Streams
    <3>2. /\ \A c \in Caller : ~MainAccepts(c)
          /\ \A t \in Turn : ~LocalPrompt(t)
          /\ ~FinishDone
      BY <3>1 DEF MainAccepts, LocalPrompt, FinishDone
    <3>3. RunEnds \/ IngestStart => main' = main
      BY DEF RunEnds, IngestStart
    <3> QED BY <1>1, <1>3, <2>3, <2>4, <3>1, <3>2, <3>3, RunMoves
  <2>5. CASE status[i] = "running"
    <3>1. i = RunId(main.run) \/ (i = main.run /\ main.run \in alias)
      BY <1>3, <2>5 DEF Right
    <3>2. alias \subseteq alias'
      BY <1>1, <1>3, AliasStep
    <3> QED BY <2>4, <2>5, <3>1, <3>2
  <2>6. ASSUME ReadEvent, status[i] # "running" PROVE IngestStart /\ main' = main /\ i = Resolve(main.run)
    <3>1. i = Resolve(main.run)
      BY <1>3, <2>6, EventStep
    <3>2. IngestStart
      BY <1>3, <2>1, <2>6, <3>1, EventStep
    <3> QED BY <2>6, <3>1, <3>2, EventStep
  <2>7. CASE i \in Turn /\ status[i] # "running"
    <3>1. CASE DrainStarted /\ i = port[Drainer].turn
      <4>1. main.phase = "open" /\ main.run = i /\ main' = main /\ i \in alias'
        BY <1>1, <3>1 DEF DrainStarted, Prompted, Admitted, runState
      <4> QED BY <4>1
    <3>2. CASE IngestStart /\ Resolve(main.run) = i /\ ((main.run = i /\ i \in alias) \/ ~Spent(i))
      <4>1. ReadEvent
        BY <3>2 DEF ReadEvent
      <4>2. i = main.run \/ i = RunId(main.run)
        BY <1>3, <2>2, <3>2, <4>1 DEF Misread
      <4>3. i = main.run
        BY <2>2, <2>7, <4>1, <4>2, RunIds
      <4>4. main.run \in alias /\ alias' = alias
        BY <2>2, <3>2, <4>1, <4>3, EventStep
      <4> QED BY <2>2, <2>6, <2>7, <4>1, <4>3, <4>4
    <3>3. IngestStart => ReadEvent
      BY DEF ReadEvent
    <3> QED BY <1>1, <1>3, <2>1, <2>6, <2>7, <3>1, <3>2, <3>3, RecordStep
  <2>8. ASSUME NEW t \in Turn, i = RunId(t), status[i] # "running"
        PROVE  main'.phase = "open" /\ i = RunId(main'.run)
    <3>1. ASSUME NEW c \in Client, DirectReturn(c), port[c].turn = t
          PROVE  main.phase = "open" /\ main.run = t /\ main' = main
      BY <1>1, <3>1 DEF DirectReturn, Admitted, runState
    <3>2. CASE ReadEvent /\ main.run = t
      BY <2>2, <2>6, <2>8, <3>2
    <3> QED BY <1>1, <1>3, <2>8, <3>1, <3>2, RunNameStep
  <2> QED BY <2>5, <2>7, <2>8 DEF Id, Run
<1>4. CASE UNCHANGED orderVars
  BY <1>4 DEF orderVars, vars, hostVars, Right
<1>5. CASE OrderNext /\ ~HostRestart /\ ~astray'
  <2>1. ~astray /\ ~Misread
    BY <1>5 DEF OrderNext
  <2> QED BY <1>3, <1>5, <2>1 DEF Right
<1> QED BY <1>2, <1>4, <1>5 DEF Right

LEMMA RightMeansOne ==
  ASSUME OrderInv, Right
  PROVE  OneRunning
<1>1. SUFFICES ASSUME ~astray, NEW i \in Id, NEW j \in Id, status[i] = "running", status[j] = "running"
               PROVE  i = j
  BY DEF OneRunning, IsActive
<1>2. /\ main.phase = "open"
      /\ i = RunId(main.run) \/ (i = main.run /\ main.run \in alias)
      /\ j = RunId(main.run) \/ (j = main.run /\ main.run \in alias)
  BY <1>1 DEF Right
<1>3. main.run \in alias => status[RunId(main.run)] = "unknown"
  BY <1>2 DEF OrderInv, Streams, Names
<1> QED BY <1>1, <1>2, <1>3

\* One turn of a session runs, for any number of clients that start, steer and
\* send now, of prompts that go past the Agent Host, of refusals, lost answers
\* and restarts, as long as no event was taken for another prompt's turn.
THEOREM TurnsRunOneByOne ==
  ASSUME OrderBounds PROVE OrderSpec => []OneRunning
<1>1. OrderInit => OrderInv /\ Right
  <2> SUFFICES ASSUME OrderInit PROVE OrderInv /\ Right
    OBVIOUS
  <2>1. OrderInv
    BY OrderInvInit DEF OrderInit
  <2>2. Right
    BY DEF OrderInit, HostInit, Right
  <2> QED BY <2>1, <2>2
<1>2. OrderInv /\ Right /\ [OrderNext]_orderVars => (OrderInv /\ Right)'
  <2> SUFFICES ASSUME OrderInv, Right, [OrderNext]_orderVars PROVE (OrderInv /\ Right)'
    OBVIOUS
  <2>1. [HostNext]_vars
    BY DEF OrderNext, orderVars
  <2> QED BY <2>1, OrderInvStep, RightStep
<1>3. OrderInv /\ Right => OneRunning
  BY RightMeansOne
<1> QED BY <1>1, <1>2, <1>3, PTL DEF OrderSpec

-----------------------------------------------------------------------------
(* The queue does not fall asleep *)

\* What the queue can also be stopped by: a remove that the store lost, and the
\* hole that a send-now leaves at the head.
WakeBounds == OrderBounds /\ ~StoreFaults /\ "send_now" \notin Calls

\* Calls push and remove; a push may be refused.
Plain ==
  \A c \in Caller : /\ op[c].kind \in {"idle", "push", "remove"}
                    /\ op[c].phase = "refused" => op[c].kind = "push"

NoHoles == \A a \in ArrayRef : Hole \notin ToSet(heap[a])

\* A released queue whose loop is off has somebody to wake it.
Awake ==
  boot = "ready" /\ ~held /\ Mem # <<>> /\ wake = "no" /\ drain = "off" =>
    late \/ planning \/ main.phase # "none" \/ astray

WakeInv == OrderInv /\ Right /\ DrainRemoves /\ Plain /\ NoHoles /\ Awake

\* What these hosts do to the queue.
LEMMA PlainMoves ==
  ASSUME WakeBounds, Plain, HostTypes, Loop, [HostNext]_vars
  PROVE  \/ UNCHANGED <<op, heap, cur, boot, held>>
         \/ \E c \in Caller, t \in Turn : PushBegin(c, t)
         \/ \E c \in Caller : \E t : RemoveBegin(c, t)
         \/ \E c \in Caller : StorePush(c) \/ StoreRemove(c) \/ RemoveReturn(c) \/ CallRejects(c)
         \/ \E c \in Client : QueuedReturn(c)
         \/ StoreList \/ RestoreReturn \/ QueueRestart \/ ResumeHeld
<1>1. Client \subseteq Caller /\ Drainer \in Caller
  BY HostAssumption DEF Client
<1>2. OrderBounds
  BY DEF WakeBounds
<1>3. ASSUME NEW c \in Client, NEW t \in Turn, ClientCall(c, t)
      PROVE  \/ UNCHANGED <<op, heap, cur, boot, held>>
             \/ PushBegin(c, t) \/ RemoveBegin(c, t)
  <2>1. ~SendNow(c, t) /\ ~SendNowMiss(c, t) /\ ~CancelBegin(c, t) /\ ~CancelStarting(c, t)
    BY <1>2, NotTaken DEF WakeBounds, SendNow, SendNowMiss, Ask
  <2> QED BY <1>3, <2>1 DEF ClientCall, StartQueued, StartDirect, SteerBegin
<1>4. ASSUME NEW c \in Client, ClientReturn(c) \/ ClientRejected(c)
      PROVE  \/ UNCHANGED <<op, heap, cur, boot, held>>
             \/ QueuedReturn(c) \/ RemoveReturn(c) \/ CallRejects(c)
  <2>1. ~SendNowReturn(c)
    BY <1>1 DEF Plain, SendNowReturn, PrioritizeReturn
  <2>2. DirectReturn(c) \/ DirectRejected(c) => UNCHANGED <<op, heap, cur, boot, held>>
    BY DEF DirectReturn, DirectRejected, queueVars
  <2> QED BY <1>4, <2>1, <2>2 DEF ClientReturn, RemovedReturn, ClientRejected
<1>5. ASSUME DrainStep \/ DrainLost
      PROVE  \/ UNCHANGED <<op, heap, cur, boot, held>> \/ ResumeHeld
             \/ \E t : RemoveBegin(Drainer, t)
             \/ RemoveReturn(Drainer) \/ CallRejects(Drainer)
  <2>1. DrainEnter => UNCHANGED <<op, heap, cur, boot, held>> \/ \E t : RemoveBegin(Drainer, t)
    BY DEF DrainEnter, ShiftBegin, queueVars
  <2>2. DrainStarted \/ DrainAborts \/ DrainAborted \/ DrainFailed => UNCHANGED <<op, heap, cur, boot, held>>
    BY DEF DrainStarted, DrainAborts, DrainAborted, DrainFailed, queueVars
  <2> QED BY <1>5, <2>1, <2>2 DEF DrainStep, DrainShifted, DrainLost
<1>6. ASSUME NEW c \in Caller, MainAccepts(c) \/ MainRefuses(c) PROVE UNCHANGED <<op, heap, cur, boot, held>>
  BY <1>6 DEF MainAccepts, MainRefuses, queueVars
<1>7. ASSUME \/ \E c \in Client, i \in Id : Interrupt(c, i)
             \/ \E t \in Turn : LocalPrompt(t)
             \/ Attach \/ RunEnds \/ ReadEvent \/ FinishDone \/ SidecarExit \/ PlanningChanges
             \/ UNCHANGED vars
      PROVE  UNCHANGED <<op, heap, cur, boot, held>>
  BY <1>7 DEF Interrupt, LocalPrompt, Attach, RunEnds, ReadEvent, IngestStart, IngestEnd, IngestError,
              FinishDone, SidecarExit, PlanningChanges, vars, queueVars
<1>8. ASSUME StoreWorks \/ HostRestart
      PROVE  \/ \E c \in Caller : StorePush(c) \/ StoreRemove(c)
             \/ StoreList \/ RestoreReturn \/ QueueRestart
  <2>1. \A c \in Caller : ~StorePrioritize(c) /\ ~StoreReorder(c)
    BY DEF Plain, StorePrioritize, StoreReorder
  <2> QED BY <1>8, <2>1 DEF StoreWorks, HostRestart, StoreStep
<1> QED BY <1>1, <1>3, <1>4, <1>5, <1>6, <1>7, <1>8 DEF HostNext

LEMMA PlainStep ==
  ASSUME WakeBounds, QueueInv, HostTypes, Loop, Plain, [HostNext]_vars
  PROVE  Plain'
<1>1. op \in [Caller -> Call] /\ Client \subseteq Caller
  BY DEF QueueInv, QueueTypeOK, Client
<1>2. ASSUME NEW c \in Caller, NEW x, op' = [op EXCEPT ![c] = x],
             x.kind \in {"idle", "push", "remove"}, x.phase = "refused" => x.kind = "push"
      PROVE  Plain'
  <2>1. op'[c] = x /\ \A d \in Caller \ {c} : op'[d] = op[d]
    BY <1>1, <1>2
  <2> QED BY <1>2, <2>1 DEF Plain
<1>3. Idle.kind = "idle" /\ Idle.phase = "none"
  BY DEF Idle
<1>4. \A kind, id, a : /\ Sent(kind, id, a, 0, 0).kind = kind
                       /\ Sent(kind, id, a, 0, 0).phase = "sent"
  BY DEF Sent
<1>5. ASSUME NEW c \in Caller, NEW t \in Turn, PushBegin(c, t) PROVE Plain'
  BY <1>2, <1>4, <1>5 DEF PushBegin
<1>6. ASSUME NEW c \in Caller, NEW t, RemoveBegin(c, t) PROVE Plain'
  BY <1>2, <1>4, <1>6 DEF RemoveBegin
<1>7. ASSUME NEW c \in Caller, StorePush(c) \/ StoreRemove(c) PROVE Plain'
  <2>1. CASE StorePush(c)
    <3>1. op[c].kind = "push" /\ \E p \in Phase : op' = [op EXCEPT ![c].phase = p]
      BY <2>1 DEF StorePush, Phase
    <3>2. op'[c].kind = "push" /\ \A d \in Caller \ {c} : op'[d] = op[d]
      BY <1>1, <3>1 DEF Call
    <3> QED BY <3>2 DEF Plain
  <2>2. CASE StoreRemove(c)
    <3>1. op[c].kind = "remove" /\ op' = [op EXCEPT ![c].phase = "ok"]
      BY <2>2 DEF StoreRemove
    <3>2. op'[c].kind = "remove" /\ op'[c].phase = "ok" /\ \A d \in Caller \ {c} : op'[d] = op[d]
      BY <1>1, <3>1 DEF Call
    <3> QED BY <3>2 DEF Plain
  <2> QED BY <1>7, <2>1, <2>2
<1>8. ASSUME NEW c \in Caller, RemoveReturn(c) \/ CallRejects(c) \/ QueuedReturn(c) PROVE Plain'
  <2>1. op' = [op EXCEPT ![c] = Idle]
    BY <1>8 DEF RemoveReturn, CallRejects, QueuedReturn, PushReturn
  <2> QED BY <1>2, <1>3, <2>1
<1>9. ASSUME StoreList \/ RestoreReturn \/ ResumeHeld \/ UNCHANGED <<op, heap, cur, boot, held>> PROVE Plain'
  BY <1>9 DEF StoreList, RestoreReturn, ResumeHeld, Resume, Plain
<1>10. CASE QueueRestart
  BY <1>3, <1>10 DEF QueueRestart, Plain
<1> QED BY <1>1, <1>5, <1>6, <1>7, <1>8, <1>9, <1>10, PlainMoves

LEMMA NoHolesStep ==
  ASSUME WakeBounds, QueueInv, HostTypes, Loop, Plain, NoHoles, [HostNext]_vars
  PROVE  NoHoles'
<1>1. /\ heap \in [ArrayRef -> Seq(Turn \cup {Hole})] /\ cur \in ArrayRef \cup {NoArray}
      /\ listed \in Seq(Turn) /\ Hole \notin Turn /\ Boot \in ArrayRef /\ ToSet(<<>>) = {}
      /\ Client \subseteq Caller
  BY QueueAssumption DEF QueueInv, QueueTypeOK, ArrayRef, ToSet, Client
<1>2. CASE heap' = heap
  BY <1>2 DEF NoHoles
<1>3. ASSUME NEW a \in ArrayRef, NEW s, heap' = [heap EXCEPT ![a] = s], Hole \notin ToSet(s)
      PROVE  NoHoles'
  <2>1. heap'[a] = s /\ \A b \in ArrayRef \ {a} : heap'[b] = heap[b]
    BY <1>1, <1>3
  <2> QED BY <1>3, <2>1 DEF NoHoles
<1>4. ASSUME NEW c \in Caller, NEW t, RemoveBegin(c, t) PROVE NoHoles'
  <2>1. PICK i \in DOMAIN Mem : heap' = [heap EXCEPT ![cur] = RemoveAt(@, i)]
    BY <1>4 DEF RemoveBegin
  <2>2. cur \in ArrayRef /\ Mem = heap[cur]
    BY <1>1, <2>1 DEF Mem
  <2>3. ToSet(RemoveAt(heap[cur], i)) \subseteq ToSet(heap[cur])
    BY <1>1, <2>1, <2>2, TakenOut
  <2> QED BY <1>3, <2>1, <2>2, <2>3 DEF NoHoles
<1>5. ASSUME NEW c \in Client, QueuedReturn(c) PROVE NoHoles'
  <2>1. op[c].kind = "push" /\ heap' = [heap EXCEPT ![op[c].arr] = Append(@, op[c].id)]
    BY <1>5 DEF QueuedReturn, PushReturn
  <2>2. op[c].arr \in ArrayRef /\ op[c].id \in Turn
    BY <1>1, <2>1, CallsNameTurns DEF QueueInv, Issued
  <2>3. ToSet(Append(heap[op[c].arr], op[c].id)) = ToSet(heap[op[c].arr]) \cup {op[c].id}
    BY <1>1, <2>2, Appended
  <2> QED BY <1>1, <1>3, <2>1, <2>2, <2>3 DEF NoHoles
<1>6. CASE RestoreReturn
  <2>1. Hole \notin ToSet(listed)
    BY <1>1 DEF ToSet
  <2> QED BY <1>1, <1>3, <1>6, <2>1 DEF RestoreReturn
<1>7. CASE QueueRestart
  BY <1>1, <1>7 DEF QueueRestart, NoHoles
<1>8. ASSUME \/ \E c \in Caller, t \in Turn : PushBegin(c, t)
             \/ \E c \in Caller : StorePush(c) \/ StoreRemove(c) \/ RemoveReturn(c) \/ CallRejects(c)
             \/ StoreList \/ ResumeHeld
      PROVE  heap' = heap
  BY <1>8 DEF PushBegin, StorePush, StoreRemove, RemoveReturn, CallRejects, StoreList, ResumeHeld, Resume
<1> QED BY <1>2, <1>4, <1>5, <1>6, <1>7, <1>8, PlainMoves

\* While drain() has just been called, nothing else happens.
LEMMA WakeFirst ==
  ASSUME wake # "no", [HostNext]_vars
  PROVE  ResumeHeld \/ DrainEnter \/ HostRestart \/ UNCHANGED vars
<1>1. \A c \in Client, t \in Turn : ~ClientCall(c, t)
  BY DEF ClientCall, StartQueued, StartDirect, SteerBegin, CancelBegin, CancelStarting, SendNow,
         SendNowMiss, Ask, Free
<1>2. \A c \in Client : ~ClientReturn(c) /\ ~ClientRejected(c)
  BY DEF ClientReturn, QueuedReturn, DirectReturn, DirectRejected, RemovedReturn, SendNowReturn,
         ClientRejected
<1>3. \A c \in Client, i \in Id : ~Interrupt(c, i)
  BY DEF Interrupt, Ask, Free
<1>4. ~Attach /\ ~DrainLost /\ (DrainStep => ResumeHeld \/ DrainEnter)
  BY DEF Attach, DrainLost, DrainStep, DrainShifted, DrainStarted, DrainAborts, DrainAborted,
         DrainFailed, Prompted
<1>5. (\A c \in Caller : ~MainAccepts(c) /\ ~MainRefuses(c)) /\ \A t \in Turn : ~LocalPrompt(t)
  BY DEF MainAccepts, MainRefuses, LocalPrompt
<1>6. ~RunEnds /\ ~ReadEvent /\ ~FinishDone /\ ~SidecarExit /\ ~PlanningChanges /\ ~StoreWorks
  BY DEF RunEnds, ReadEvent, IngestStart, IngestEnd, IngestError, Read, FinishDone, SidecarExit,
         PlanningChanges, StoreWorks
<1> QED BY <1>1, <1>2, <1>3, <1>4, <1>5, <1>6 DEF HostNext

\* A queue that has been empty gets a record when a push returns or when it is
\* restored, and it is released when a controller comes or when it is restored.
LEMMA QueueFills ==
  ASSUME WakeBounds, QueueInv, HostTypes, Loop, Plain, [HostNext]_vars,
         boot' = "ready", ~held', Mem' # <<>>, ~ResumeHeld
  PROVE  /\ boot = "ready" /\ ~held
         /\ Mem # <<>> \/ \E c \in Client : QueuedReturn(c)
<1>1. ~RestoreReturn
  <2>1. RestoreReturn => (held' <=> listed # <<>>) /\ (listed = <<>> => cur' = NoArray)
    BY DEF RestoreReturn
  <2> QED BY <2>1 DEF Mem
<1>2. ~StoreList /\ ~QueueRestart
  BY DEF StoreList, QueueRestart
<1>3. /\ heap \in [ArrayRef -> Seq(Turn \cup {Hole})]
      /\ cur \in ArrayRef \cup {NoArray}
  BY DEF QueueInv, QueueTypeOK
<1>4. ASSUME NEW c \in Caller, NEW t, RemoveBegin(c, t)
      PROVE  boot' = boot /\ held' = held /\ Mem # <<>>
  <2>1. \E i \in DOMAIN Mem : TRUE
    BY <1>4 DEF RemoveBegin
  <2>2. Mem # <<>>
    BY <2>1
  <2> QED BY <1>4, <2>2 DEF RemoveBegin
<1>5. ASSUME NEW c \in Client, QueuedReturn(c) PROVE boot' = boot /\ held' = held
  BY <1>5 DEF QueuedReturn, PushReturn
<1>6. ASSUME \/ UNCHANGED <<op, heap, cur, boot, held>>
             \/ \E c \in Caller, t \in Turn : PushBegin(c, t)
             \/ \E c \in Caller : StorePush(c) \/ StoreRemove(c) \/ RemoveReturn(c) \/ CallRejects(c)
      PROVE  boot' = boot /\ held' = held /\ Mem' = Mem
  BY <1>6 DEF PushBegin, StorePush, StoreRemove, RemoveReturn, CallRejects, Mem
<1> QED BY <1>1, <1>2, <1>4, <1>5, <1>6, PlainMoves

\* The loop goes off with a run that Main holds the session for, or it goes
\* round again.
LEMMA LoopEnds ==
  ASSUME WakeBounds, OrderInv, DrainRemoves, Plain, [HostNext]_vars, drain # "off", drain' = "off"
  PROVE  \/ main.phase = "open" /\ main' = main
         \/ wake' = "drain" \/ HostRestart
<1>1. Loop /\ HostTypes /\ Admitted /\ Drainer \in Caller /\ OrderBounds /\ LoopTypes
  BY HostAssumption DEF OrderInv, HostInv, WakeBounds, HostTypes
<1>2. ASSUME NEW c \in Client, \/ ClientReturn(c) \/ ClientRejected(c)
                               \/ \E t \in Turn : ClientCall(c, t)
      PROVE  drain' = drain
  BY <1>2 DEF ClientCall, StartQueued, StartDirect, SteerBegin, CancelBegin, CancelStarting,
       SendNow, SendNowMiss, ClientReturn, QueuedReturn, DirectReturn, DirectRejected,
       RemovedReturn, SendNowReturn, ClientRejected, hostVars, loopState
<1>3. CASE DrainStarted
  BY <1>1, <1>3 DEF DrainStarted, Prompted, Admitted, runState
<1>4. CASE DrainFailed
  BY <1>4 DEF DrainFailed
<1>5. ~DrainLost
  BY <1>1 DEF DrainLost, CallRejects, WakeBounds, Plain, DrainRemoves
<1>6. ResumeHeld \/ DrainEnter \/ DrainShifted => drain' # "off"
  BY DEF ResumeHeld, DrainEnter, DrainShifted
<1>7. ASSUME \/ \E c \in Caller : MainAccepts(c) \/ MainRefuses(c)
             \/ \E t \in Turn : LocalPrompt(t)
             \/ Attach \/ RunEnds \/ ReadEvent \/ FinishDone \/ PlanningChanges
             \/ StoreWorks \/ UNCHANGED vars
      PROVE  drain' = drain
  BY <1>7 DEF MainAccepts, MainRefuses, LocalPrompt, Attach, RunEnds, ReadEvent, IngestStart, IngestEnd,
              IngestError, FinishDone, PlanningChanges, StoreWorks, vars, hostVars, loopState
<1> QED BY <1>1, <1>2, <1>3, <1>4, <1>5, <1>6, <1>7, NotTaken DEF HostNext, DrainStep

\* What keeps the session is over when the queue is kicked.
LEMMA SessionEnds ==
  ASSUME WakeBounds, OrderInv, [HostNext]_vars, wake = "no", wake' = "no", ~HostRestart
  PROVE  /\ late => late'
         /\ planning => planning'
         /\ main.phase # "none" => main'.phase # "none"
<1>1. Loop /\ HostTypes /\ OrderBounds /\ LoopTypes /\ RunTypes
  BY DEF OrderInv, HostInv, WakeBounds, HostTypes
<1>2. ASSUME main.phase # "none" PROVE main'.phase # "none"
  <2>1. (\A c \in Caller : ~MainAccepts(c)) /\ (\A t \in Turn : ~LocalPrompt(t)) /\ ~FinishDone
    BY <1>2 DEF MainAccepts, LocalPrompt, FinishDone
  <2>2. RunEnds => main' = main
    BY DEF RunEnds
  <2>3. ReadEvent => main' = main \/ main' = [main EXCEPT !.phase = "closing"]
    BY DEF ReadEvent, IngestStart, IngestEnd, IngestError, MainCloses
  <2>4. [main EXCEPT !.phase = "closing"].phase = "closing"
    BY <1>1 DEF RunTypes
  <2> QED BY <1>1, <1>2, <2>1, <2>2, <2>3, <2>4, RunMoves
<1>3. (late => late') /\ (planning => planning')
  <2>1. ASSUME NEW c \in Client, \/ ClientReturn(c) /\ ~QueuedReturn(c)
                                 \/ ClientRejected(c) \/ \E t \in Turn : ClientCall(c, t)
        PROVE  planning' = planning /\ late' = late
    BY <2>1 DEF ClientCall, StartQueued, StartDirect, SteerBegin, CancelBegin, CancelStarting,
         SendNow, SendNowMiss, ClientReturn, DirectReturn, DirectRejected,
         RemovedReturn, SendNowReturn, ClientRejected, hostVars, loopState
  <2>2. ASSUME NEW c \in Client, QueuedReturn(c) PROVE planning' = planning /\ (late => late')
    BY <2>2 DEF QueuedReturn
  <2>3. DrainStep \/ DrainLost => planning' = planning /\ late' = late
    BY <1>1, NotTaken DEF DrainStep, ResumeHeld, DrainEnter, DrainShifted, DrainStarted, DrainFailed, DrainLost
  <2>4. PlanningChanges => late' = late /\ (planning => planning')
    BY DEF PlanningChanges
  <2>5. ASSUME \/ \E c \in Caller : MainAccepts(c) \/ MainRefuses(c)
               \/ \E t \in Turn : LocalPrompt(t)
               \/ Attach \/ RunEnds \/ ReadEvent \/ FinishDone
               \/ StoreWorks \/ UNCHANGED vars
        PROVE  planning' = planning /\ late' = late
    BY <2>5 DEF MainAccepts, MainRefuses, LocalPrompt, Attach, RunEnds, ReadEvent, IngestStart, IngestEnd,
                IngestError, FinishDone, StoreWorks, vars, hostVars, loopState
  <2> QED BY <1>1, <2>1, <2>2, <2>3, <2>4, <2>5, NotTaken DEF HostNext
<1> QED BY <1>2, <1>3

\* The turn that runs is what Main holds the session for.
LEMMA ActiveIsHeld ==
  ASSUME TurnTypes, Right, ~astray, HasActive
  PROVE  main.phase = "open"
<1>1. active \in Id /\ status[active] = "running"
  BY DEF TurnTypes, HasActive, IsActive
<1> QED BY <1>1 DEF Right

LEMMA AwakeStep ==
  ASSUME WakeInv, WakeBounds, [OrderNext]_orderVars
  PROVE  Awake'
<1>1. /\ OrderInv /\ Right /\ DrainRemoves /\ Plain /\ NoHoles /\ Awake /\ QueueInv /\ HostTypes /\ Loop
      /\ TurnTypes /\ [HostNext]_vars
  BY DEF WakeInv, OrderInv, HostInv, HostTypes, OrderNext, orderVars
<1>2. SUFFICES ASSUME boot' = "ready", ~held', Mem' # <<>>, wake' = "no", drain' = "off",
                      ~late', ~planning', main'.phase = "none", ~astray'
               PROVE  FALSE
  BY DEF Awake
<1>3. ~HostRestart
  BY <1>2 DEF HostRestart, QueueRestart
<1>4. ~astray
  BY <1>2, <1>3 DEF OrderNext, orderVars
<1>5. HasActive => main.phase = "open"
  BY <1>1, <1>4, ActiveIsHeld
<1>6. CASE wake = "no"
  <2>1. ~late /\ ~planning /\ main.phase = "none"
    BY <1>1, <1>2, <1>3, <1>6, SessionEnds
  <2>2. drain = "off"
    BY <1>1, <1>2, <1>3, <2>1, LoopEnds
  <2>3. ~ResumeHeld
    BY <1>6 DEF ResumeHeld
  <2>4. boot = "ready" /\ ~held /\ (Mem # <<>> \/ \E c \in Client : QueuedReturn(c))
    BY <1>1, <1>2, <2>3, QueueFills
\* A push returns late, unless the session is occupied.
  <2>5. ASSUME NEW c \in Client, QueuedReturn(c) PROVE FALSE
    BY <1>2, <1>5, <2>1, <2>2, <2>5 DEF QueuedReturn, Occupied
  <2> QED BY <1>1, <1>4, <1>6, <2>1, <2>2, <2>4, <2>5 DEF Awake
<1>7. CASE wake # "no"
  <2>1. DrainEnter
    BY <1>1, <1>2, <1>3, <1>7, WakeFirst DEF ResumeHeld, vars, hostVars
  <2>2. ~CanShift /\ UNCHANGED queueVars /\ drain' = drain
    BY <1>2, <2>1 DEF DrainEnter
  <2>3. planning' = planning /\ main' = main
    BY <2>1 DEF DrainEnter, runState
  <2>4. Mem # <<>> /\ ~held
    BY <1>2, <2>2 DEF queueVars, Mem
  <2>5. Head(Mem) # Hole
    <3>1. Mem \in Seq(Turn \cup {Hole}) /\ cur \in ArrayRef \cup {NoArray}
      BY <1>1 DEF QueueInv, QueueTypeOK, Mem
    <3>2. Head(Mem) \in ToSet(Mem)
      BY <2>4, <3>1, HeadLeaves
    <3>3. cur \in ArrayRef /\ Mem = heap[cur]
      BY <2>4, <3>1 DEF Mem
    <3> QED BY <1>1, <3>2, <3>3 DEF NoHoles
  <2> QED BY <1>2, <1>5, <2>2, <2>3, <2>4, <2>5 DEF CanShift, Occupied
<1> QED BY <1>6, <1>7

\* What would run the queue is still to come, for any number of clients that
\* start and steer, of plans that wait for approval, of refusals and restarts:
\* an active turn is backed by what will end it, and a released prompt is left
\* asleep only by a push that returns to a session that has become idle.
THEOREM QueueIsWoken ==
  ASSUME WakeBounds PROVE OrderSpec => []SomethingWakes
<1>1. OrderBounds
  BY DEF WakeBounds
<1>2. OrderInit => WakeInv
  <2> SUFFICES ASSUME OrderInit PROVE WakeInv
    OBVIOUS
  <2>1. OrderInv
    BY <1>1, OrderInvInit DEF OrderInit
  <2>2. Right
    BY DEF OrderInit, HostInit, Right
  <2>3. DrainRemoves /\ Plain
    BY HostAssumption DEF OrderInit, HostInit, QueueInit, DrainRemoves, Plain, Idle
  <2>4. NoHoles
    BY DEF OrderInit, HostInit, QueueInit, NoHoles, ToSet
  <2>5. Awake
    BY DEF OrderInit, HostInit, QueueInit, Awake
  <2> QED BY <2>1, <2>2, <2>3, <2>4, <2>5 DEF WakeInv
<1>3. WakeInv /\ [OrderNext]_orderVars => WakeInv'
  <2> SUFFICES ASSUME WakeInv, [OrderNext]_orderVars PROVE WakeInv'
    OBVIOUS
  <2>1. /\ [HostNext]_vars /\ OrderInv /\ Right /\ DrainRemoves /\ Plain /\ NoHoles
        /\ QueueInv /\ HostTypes /\ Loop
    BY DEF OrderNext, orderVars, WakeInv, OrderInv, HostInv
  <2>2. OrderInv' /\ Right'
    BY <1>1, <2>1, OrderInvStep, RightStep
  <2>3. DrainRemoves' /\ Plain' /\ NoHoles'
    BY <2>1, DrainRemovesStep, PlainStep, NoHolesStep
  <2> QED BY <2>2, <2>3, AwakeStep DEF WakeInv
<1>4. WakeInv => SomethingWakes
  <2> SUFFICES ASSUME WakeInv, ~astray PROVE ActiveHasRun /\ (Asleep => late)
    BY DEF SomethingWakes
  <2>1. HasActive => main.phase = "open"
    BY ActiveIsHeld DEF WakeInv, OrderInv, HostInv, HostTypes
  <2>2. ActiveHasRun
    BY <2>1 DEF ActiveHasRun
  <2>3. Asleep => late
    BY DEF Asleep, WakeInv, Awake, NoMain
  <2> QED BY <2>2, <2>3
<1> QED BY <1>2, <1>3, <1>4, PTL DEF OrderSpec

-----------------------------------------------------------------------------
(***************************************************************************)
(* The runtime port.  What the Agent Host is modelled over is the port     *)
(* that MainTurns implements.                                              *)
(***************************************************************************)

Shown == <<main, restarts>>

\* The steps that do not show.
LEMMA HostUnseen ==
  ASSUME [HostNext]_vars, ~HostRestart, ~FinishDone, ~SidecarExit, ~IngestEnd, ~IngestError,
         ~DrainAborts, \A c \in Client, i \in Id : ~Interrupt(c, i),
         \A c \in Caller : ~MainAccepts(c), \A t \in Turn : ~LocalPrompt(t)
  PROVE  UNCHANGED Shown
<1>1. CASE UNCHANGED vars
  BY <1>1 DEF vars, hostVars, queueVars, runState, Shown
<1>2. CASE StoreWorks
  <2>1. UNCHANGED main
    BY <1>2 DEF StoreWorks, hostVars, runState
  <2>2. ASSUME NEW c \in Caller, StoreStep(c) PROVE UNCHANGED restarts
    BY <2>2 DEF StoreStep, StorePush, StoreRemove, StorePrioritize, StoreReorder
  <2>3. StoreList \/ RestoreReturn => UNCHANGED restarts
    BY DEF StoreList, RestoreReturn
  <2> QED BY <1>2, <2>1, <2>2, <2>3 DEF StoreWorks, Shown
<1>3. CASE ResumeHeld
  BY <1>3 DEF ResumeHeld, Resume, queueVars, runState, Shown
<1>4. CASE HostNext /\ ~StoreWorks /\ ~ResumeHeld
  <2>1. UNCHANGED restarts
    BY <1>4, HeldStays
  <2>2. ASSUME NEW c \in Client, NEW t \in Turn, ClientCall(c, t) PROVE UNCHANGED main
    BY <2>2 DEF ClientCall, StartQueued, StartDirect, SteerBegin, CancelBegin, CancelStarting,
         SendNow, SendNowMiss, hostVars, runState
  <2>3. ASSUME NEW c \in Client, ClientReturn(c) \/ ClientRejected(c) PROVE UNCHANGED main
    BY <2>3 DEF ClientReturn, QueuedReturn, DirectReturn, DirectRejected, RemovedReturn,
         SendNowReturn, ClientRejected, hostVars, runState
  <2>4. ASSUME DrainStep \/ DrainLost PROVE UNCHANGED main
    BY <2>4, <1>4 DEF DrainStep, DrainEnter, DrainShifted, DrainStarted, DrainAborted,
         DrainFailed, DrainLost, runState
  <2>5. ASSUME \/ \E c \in Caller : MainRefuses(c)
               \/ Attach \/ PlanningChanges \/ RunEnds \/ IngestStart
        PROVE  UNCHANGED main
    BY <2>5 DEF MainRefuses, Attach, PlanningChanges, RunEnds, IngestStart, runState
  <2> QED BY <1>4, <2>1, <2>2, <2>3, <2>4, <2>5 DEF HostNext, ReadEvent, Shown
<1> QED BY <1>1, <1>2, <1>3, <1>4

PortUse == Port!PortNext /\ main'.phase # "overtaken"

LEMMA HostCloses ==
  ASSUME RunTypes, MainCloses, UNCHANGED restarts
  PROVE  [PortUse]_(Port!portVars)
<1>1. CASE main.phase = "open"
  <2>1. main'.phase = "closing" /\ main'.run = main.run
    BY <1>1 DEF MainCloses, RunTypes
  <2> QED BY <1>1, <2>1 DEF PortUse, Port!PortNext, Port!Closes
<1>2. CASE main.phase # "open"
  BY <1>2 DEF MainCloses, Port!portVars
<1> QED BY <1>1, <1>2

LEMMA HostOpens ==
  ASSUME NEW t \in Turn, StartRun(t), main.phase = "none", UNCHANGED restarts
  PROVE  PortUse
<1>1. main'.phase = "open" /\ main'.run = t
  BY DEF StartRun
<1> QED BY <1>1 DEF PortUse, Port!PortNext, Port!Opens

LEMMA HostPortStep ==
  ASSUME HostTypes, [HostNext]_vars
  PROVE  [PortUse]_(Port!portVars)
<1>0. RunTypes /\ LoopTypes
  BY DEF HostTypes
<1>1. CASE HostRestart
  <2>1. main'.phase = "none" /\ main'.run = NoTurn /\ restarts' = restarts + 1
    BY <1>1 DEF HostRestart, QueueRestart, NoMain
  <2> QED BY <2>1 DEF PortUse, Port!PortNext, Port!Reboots
<1>2. CASE FinishDone
  <2>1. main'.phase = "none" /\ main'.run = NoTurn /\ main.phase = "closing" /\ restarts' = restarts
    BY <1>2 DEF FinishDone, NoMain, queueVars
  <2> QED BY <2>1 DEF PortUse, Port!PortNext, Port!Frees
<1>3. CASE SidecarExit \/ IngestEnd \/ IngestError \/ DrainAborts
  <2>1. MainCloses /\ UNCHANGED restarts
    BY <1>3 DEF SidecarExit, IngestEnd, IngestError, DrainAborts, MainCloses, queueVars
  <2> QED BY <1>0, <2>1, HostCloses
<1>4. ASSUME NEW c \in Client, NEW i \in Id, Interrupt(c, i)
      PROVE  [PortUse]_(Port!portVars)
  <2>1. MainCloses /\ UNCHANGED restarts
    BY <1>4 DEF Interrupt, MainCloses, queueVars
  <2> QED BY <1>0, <2>1, HostCloses
<1>5. ASSUME NEW c \in Caller, MainAccepts(c) PROVE PortUse
  <2>1. /\ port[c].turn \in Turn /\ StartRun(port[c].turn) /\ main.phase = "none"
        /\ UNCHANGED restarts
    BY <1>0, <1>5 DEF MainAccepts, LoopTypes, queueVars
  <2> QED BY <2>1, HostOpens
<1>6. ASSUME NEW t \in Turn, LocalPrompt(t) PROVE PortUse
  BY <1>6, HostOpens DEF LocalPrompt
<1>7. UNCHANGED Shown => UNCHANGED Port!portVars
  BY DEF Shown, Port!portVars
<1> QED BY <1>1, <1>2, <1>3, <1>4, <1>5, <1>6, <1>7, HostUnseen

\* The Agent Host asks of Main only what the runtime port promises: what the
\* model of the queue, the loop and the events is built over takes the steps of
\* the port that MainTurns implements, a restart included, except that no run
\* overtakes another there.
THEOREM HostUsesPort == HostSpec => UsesPort
<1>1. HostInit => QueueInv /\ HostTypes /\ Port!PortInit
  <2>1. HostInit => Port!PortInit
    BY DEF HostInit, QueueInit, NoMain, Port!PortInit
  <2> QED BY <2>1, QueueInvInit, HostTypesInit DEF HostInit
<1>2. QueueInv /\ HostTypes /\ [HostNext]_vars =>
        (QueueInv /\ HostTypes)' /\ [PortUse]_(Port!portVars)
  BY HostKeepsQueue, HostTypesStep, HostPortStep
<1> QED BY <1>1, <1>2, PTL DEF HostSpec, UsesPort, PortUse

=============================================================================
