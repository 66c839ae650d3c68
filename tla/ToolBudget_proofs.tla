-------------------------- MODULE ToolBudget_proofs --------------------------
(***************************************************************************)
(* Proofs about ToolBudget, for every finite set of calls and every value  *)
(* of the limits.                                                          *)
(***************************************************************************)
EXTENDS ToolBudget, FiniteSetTheorems, QueueLemmas

\* The counter is of the phases alone, so no semaphore is part of it.
QueueInv ==
  /\ phase \in [Call -> Phase] /\ queued \in Nat
  /\ QueueBounded

\* The two sets of calls that the queue is about are finite, one in the other.
LEMMA QueueFinite ==
  /\ IsFiniteSet(Counted) /\ IsFiniteSet(InQueue) /\ InQueue \subseteq Counted
  /\ Cardinality(Counted) \in Nat /\ Cardinality(InQueue) \in Nat
  /\ Cardinality(InQueue) <= Cardinality(Counted)
<1>1. Counted \subseteq Call /\ InQueue \subseteq Counted
  BY DEF Counted, InQueue
<1>2. IsFiniteSet(Counted) /\ IsFiniteSet(InQueue)
  BY <1>1, FS_Subset, BudgetAssumption
<1> QED BY <1>1, <1>2, FS_Subset, FS_CardinalityType

\* Who is in the queue after a step of c from one phase to another.
LEMMA QueueAfterStep ==
  ASSUME phase \in [Call -> Phase], NEW c \in Call, NEW to \in Phase,
         phase' = [phase EXCEPT ![c] = to]
  PROVE  /\ phase' \in [Call -> Phase]
         /\ Counted' = IF to \in {"waiting", "refused", "expired"}
                       THEN Counted \cup {c} ELSE Counted \ {c}
         /\ InQueue' = IF to = "waiting" THEN InQueue \cup {c} ELSE InQueue \ {c}
         /\ c \in Counted <=> phase[c] \in {"waiting", "refused", "expired"}
         /\ c \in InQueue <=> phase[c] = "waiting"
BY DEF Counted, InQueue

\* A step of acquire() keeps the counter and the bound.
LEMMA QueueStep ==
  ASSUME QueueInv, [BudgetNext]_budgetVars
  PROVE  QueueInv'
<1> USE DEF QueueInv
<1>1. CASE UNCHANGED <<phase, queued>>
  BY <1>1 DEF QueueBounded, Counted, InQueue
<1>2. ASSUME NEW c \in Call, NEW to \in Phase, phase' = [phase EXCEPT ![c] = to],
             queued' = queued,
             phase[c] \notin {"waiting", "refused", "expired"},
             to \notin {"waiting", "refused", "expired"}
      PROVE  QueueInv'
  <2>1. Counted' = Counted /\ InQueue' = InQueue /\ phase' \in [Call -> Phase]
    BY <1>2, QueueAfterStep, ZenonT(60)
  <2> QED BY <2>1, <1>2 DEF QueueBounded
<1>3. ASSUME NEW c \in Call, Enqueue(c) PROVE QueueInv'
  <2>1. phase[c] = "backing_off" /\ queued' = queued + 1
    BY <1>3 DEF Enqueue, Go
  <2>2. CASE queued + 1 > MaxQueued
    <3>1. phase' = [phase EXCEPT ![c] = "refused"]
      BY <1>3, <2>2 DEF Enqueue, Go
    <3>4. /\ Counted' = Counted \cup {c} /\ c \notin Counted
          /\ InQueue' = InQueue \ {c} /\ c \notin InQueue /\ phase' \in [Call -> Phase]
      BY <3>1, <2>1, QueueAfterStep DEF Phase
    <3>2. /\ Counted' = Counted \cup {c} /\ c \notin Counted /\ InQueue' = InQueue
          /\ phase' \in [Call -> Phase]
      BY <3>4
    <3>3. Cardinality(Counted') = Cardinality(Counted) + 1
      BY <3>2, QueueFinite, FS_AddElement
    <3> QED BY <3>2, <3>3, <2>1 DEF QueueBounded
  <2>3. CASE ~(queued + 1 > MaxQueued)
    <3>1. phase' = [phase EXCEPT ![c] = "waiting"]
      BY <1>3, <2>3 DEF Enqueue, Go
    <3>2. /\ Counted' = Counted \cup {c} /\ c \notin Counted
          /\ InQueue' = InQueue \cup {c} /\ c \notin InQueue
          /\ phase' \in [Call -> Phase]
      BY <3>1, <2>1, QueueAfterStep DEF Phase
    <3>3. /\ Cardinality(Counted') = Cardinality(Counted) + 1
          /\ Cardinality(InQueue') = Cardinality(InQueue) + 1
      BY <3>2, QueueFinite, FS_AddElement
    <3>4. Cardinality(InQueue') <= MaxQueued
      BY <3>3, <2>3, QueueFinite, BudgetAssumption DEF QueueBounded
    <3> QED BY <3>2, <3>3, <3>4, <2>1 DEF QueueBounded
  <2> QED BY <2>2, <2>3
<1>4. ASSUME NEW c \in Call, WaitSucceeds(c) PROVE QueueInv'
  <2>1. /\ phase[c] = "waiting" /\ queued' = queued - 1
        /\ phase' = [phase EXCEPT ![c] = "running"]
    BY <1>4 DEF WaitSucceeds, Go
  <2>2. /\ Counted' = Counted \ {c} /\ c \in Counted
        /\ InQueue' = InQueue \ {c} /\ c \in InQueue /\ phase' \in [Call -> Phase]
    BY <2>1, QueueAfterStep DEF Phase
  <2>3. /\ Cardinality(Counted') = Cardinality(Counted) - 1
        /\ Cardinality(InQueue') = Cardinality(InQueue) - 1
        /\ Cardinality(Counted') \in Nat
    BY <2>2, QueueFinite, FS_RemoveElement, FS_CardinalityType
  <2> QED BY <2>1, <2>2, <2>3, QueueFinite, BudgetAssumption DEF QueueBounded
<1>5. ASSUME NEW c \in Call, WaitExpires(c) PROVE QueueInv'
  <2>1. /\ phase[c] = "waiting" /\ queued' = queued
        /\ phase' = [phase EXCEPT ![c] = "expired"]
    BY <1>5 DEF WaitExpires, Go
  <2>4. /\ Counted' = Counted \cup {c} /\ c \in Counted
        /\ InQueue' = InQueue \ {c} /\ c \in InQueue /\ phase' \in [Call -> Phase]
    BY <2>1, QueueAfterStep DEF Phase
  <2>2. /\ Counted' = Counted /\ InQueue' = InQueue \ {c} /\ c \in InQueue
        /\ phase' \in [Call -> Phase]
    BY <2>4
  <2>3. Cardinality(InQueue') = Cardinality(InQueue) - 1
    BY <2>2, QueueFinite, FS_RemoveElement
  <2> QED BY <2>1, <2>2, <2>3, QueueFinite, BudgetAssumption DEF QueueBounded
<1>6. ASSUME NEW c \in Call, Leave(c) PROVE QueueInv'
  <2>1. /\ phase[c] \in {"refused", "expired"} /\ queued' = queued - 1
        /\ phase' = [phase EXCEPT ![c] = "done"]
    BY <1>6 DEF Leave
  <2>4. /\ Counted' = Counted \ {c} /\ c \in Counted
        /\ InQueue' = InQueue \ {c} /\ c \notin InQueue /\ phase' \in [Call -> Phase]
    BY <2>1, QueueAfterStep DEF Phase
  <2>2. /\ Counted' = Counted \ {c} /\ c \in Counted /\ InQueue' = InQueue
        /\ phase' \in [Call -> Phase]
    BY <2>4
  <2>3. Cardinality(Counted') = Cardinality(Counted) - 1 /\ Cardinality(Counted') \in Nat
    BY <2>2, QueueFinite, FS_RemoveElement, FS_CardinalityType
  <2> QED BY <2>1, <2>2, <2>3 DEF QueueBounded
<1>7. ASSUME NEW c \in Call,
             Begin(c) \/ TrySucceeds(c) \/ TryFails(c) \/ Finish(c) \/ Released(c)
      PROVE  QueueInv'
  <2>1. CASE Begin(c)
    BY <2>1, <1>2 DEF Begin, Go, Phase
  <2>2. CASE TrySucceeds(c)
    BY <2>2, <1>2 DEF TrySucceeds, Go, Phase
  <2>3. CASE TryFails(c)
    BY <2>3, <1>2 DEF TryFails, Go, Phase
  <2>4. CASE Finish(c)
    BY <2>4, <1>2 DEF Finish, Go, Phase
  <2>5. CASE Released(c)
    BY <2>5, <1>2 DEF Released, Go, Phase
  <2> QED BY <1>7, <2>1, <2>2, <2>3, <2>4, <2>5
<1>8. ASSUME NEW c \in Call, TryNext(c) \/ WaitNext(c) \/ Release(c) PROVE QueueInv'
  BY <1>1, <1>8 DEF TryNext, WaitNext, Release
<1>9. CASE UNCHANGED budgetVars
  BY <1>1, <1>9 DEF budgetVars
<1> QED BY <1>3, <1>4, <1>5, <1>6, <1>7, <1>8, <1>9 DEF BudgetNext, CallStep

\* Nobody is in the queue at first.
LEMMA QueueStart == ASSUME BudgetInit PROVE QueueInv
<1>1. Counted = {} /\ InQueue = {}
  BY DEF BudgetInit, Counted, InQueue
<1> QED BY <1>1, FS_EmptySet, BudgetAssumption
        DEF BudgetInit, QueueInv, QueueBounded, Phase

\* fetch_add, fetch_sub and the check between them, on every interleaving of
\* the threads: `queued' is exactly the calls that are waiting or leaving, so it
\* never leaks, and at most MAX_QUEUED_TOOLS calls wait.
THEOREM QueueIsBounded == BudgetSpec => []QueueBounded
<1>1. QueueInv => QueueBounded
  BY DEF QueueInv
<1> QED BY <1>1, QueueStart, QueueStep, PTL DEF BudgetSpec

-----------------------------------------------------------------------------
(* Permits *)

\* A plan has no semaphore twice, and a mutation slot comes first.
LEMMA PlanFacts ==
  ASSUME NEW c \in Call
  PROVE  /\ Plan(c) \in Seq(Sems) /\ Len(Plan(c)) \in Nat /\ DOMAIN Plan(c) = 1..Len(Plan(c))
         /\ NoTwice(Plan(c))
         /\ \A i \in DOMAIN Plan(c) : Plan(c)[i].kind = "mutation" => i = 1
<1> DEFINE t == Sem("total", "all")
           k == Sem("class", ClassOf[c])
           e == Sem("session", SessionOf[c])
           m == Sem("mutation", SessionOf[c])
<1>1. t \in Sems /\ k \in Sems /\ e \in Sems /\ m \in Sems
  BY BudgetAssumption DEF Sems
<1>2. t.kind = "total" /\ k.kind = "class" /\ e.kind = "session" /\ m.kind = "mutation"
  BY DEF Sem
<1> HIDE DEF t, k, e, m
<1>3. CASE ClassOf[c] = "mutation"
  <2>1. Plan(c) = <<m>> \o <<t, k, e>>
    BY <1>3, Zenon DEF Plan, t, k, e, m
  <2>2. <<m>> \in Seq(Sems) /\ <<t, k, e>> \in Seq(Sems) /\ Len(<<m>>) = 1 /\ Len(<<t, k, e>>) = 3
    BY <1>1
  <2>3. /\ Plan(c) \in Seq(Sems) /\ Len(Plan(c)) = 4
        /\ \A i \in 1..4 : Plan(c)[i] = IF i <= 1 THEN <<m>>[i] ELSE <<t, k, e>>[i - 1]
    BY <2>1, <2>2, ConcatProperties
  <2>4. Plan(c)[1] = m /\ Plan(c)[2] = t /\ Plan(c)[3] = k /\ Plan(c)[4] = e
    BY <2>3
  <2>5. DOMAIN Plan(c) = 1..4 /\ \A i \in 1..4 : i = 1 \/ i = 2 \/ i = 3 \/ i = 4
    BY <2>3
  <2> QED BY <1>2, <2>3, <2>4, <2>5 DEF NoTwice
<1>4. CASE ClassOf[c] # "mutation"
  <2>1. Plan(c) = <<>> \o <<t, k, e>>
    BY <1>4, Zenon DEF Plan, t, k, e
  <2>2. <<>> \o <<t, k, e>> = <<t, k, e>>
    OBVIOUS
  <2> QED BY <1>1, <1>2, <2>1, <2>2 DEF NoTwice
<1> QED BY <1>3, <1>4

LEMMA PermitsAreNat == \A s \in Sems : Permits(s) \in Nat
<1>1. ASSUME NEW k \in ToolClass PROVE Permits(Sem("class", k)) \in Nat
  BY BudgetAssumption DEF Permits, Sem
<1>2. Permits(Sem("total", "all")) \in Nat
  BY BudgetAssumption DEF Permits, Sem
<1>3. ASSUME NEW c \in Call
      PROVE  Permits(Sem("session", SessionOf[c])) \in Nat /\ Permits(Sem("mutation", SessionOf[c])) \in Nat
  BY BudgetAssumption DEF Permits, Sem
<1> QED BY <1>1, <1>2, <1>3 DEF Sems

\* A call that is after its permits holds the first ones of its plan.
HoldsFirst(c) ==
  \E k \in 0..Len(Plan(c)) : hold[c] = {Plan(c)[j] : j \in 1..k}

\* Who waits is after its permits, waits for the next one, and once.
OneWait(s) ==
  /\ NoTwice(waiters[s])
  /\ \A c \in Call : Waits(c, s) => phase[c] = "waiting" /\ Lacks(c, s)

Acquires(c) ==
  /\ phase[c] \in {"trying", "waiting"} => HoldsFirst(c)
  /\ phase[c] = "idle" => hold[c] = {}

PermitInv ==
  /\ BudgetInv
  /\ \A s \in Sems : OneWait(s)
  /\ \A c \in Call : Acquires(c)

\* A call lacks one semaphore at a time, and none when it has all.
LEMMA LacksOne ==
  ASSUME NEW c \in Call, NEW s, Lacks(c, s)
  PROVE  /\ s \notin hold[c] /\ s \in ToSet(Plan(c)) /\ ~HasAll(c)
         /\ \A r : Lacks(c, r) => r = s
<1>1. PICK i \in DOMAIN Plan(c) :
        Plan(c)[i] = s /\ s \notin hold[c] /\ \A j \in 1..(i - 1) : Plan(c)[j] \in hold[c]
  BY DEF Lacks
<1>2. ASSUME NEW r, Lacks(c, r) PROVE r = s
  <2>1. PICK j \in DOMAIN Plan(c) :
          Plan(c)[j] = r /\ r \notin hold[c] /\ \A l \in 1..(j - 1) : Plan(c)[l] \in hold[c]
    BY <1>2 DEF Lacks
  <2>2. i \in Nat \ {0} /\ j \in Nat \ {0}
    BY PlanFacts
  <2>3. ~(i < j) /\ ~(j < i)
    BY <1>1, <2>1, <2>2
  <2> QED BY <1>1, <2>1, <2>2, <2>3
<1>3. s \in ToSet(Plan(c))
  BY <1>1 DEF ToSet
<1> QED BY <1>1, <1>2, <1>3 DEF HasAll

\* The permit a call lacks is the next one of its plan.
LEMMA NextPermit ==
  ASSUME NEW c \in Call, NEW s, Lacks(c, s), HoldsFirst(c)
  PROVE  \E k \in 0..(Len(Plan(c)) - 1) :
            /\ hold[c] = {Plan(c)[j] : j \in 1..k} /\ s = Plan(c)[k + 1]
            /\ hold[c] \cup {s} = {Plan(c)[j] : j \in 1..(k + 1)}
<1>1. PICK i \in DOMAIN Plan(c) :
        Plan(c)[i] = s /\ s \notin hold[c] /\ \A j \in 1..(i - 1) : Plan(c)[j] \in hold[c]
  BY DEF Lacks
<1>2. PICK k \in 0..Len(Plan(c)) : hold[c] = {Plan(c)[j] : j \in 1..k}
  BY DEF HoldsFirst
<1>3. Len(Plan(c)) \in Nat /\ i \in 1..Len(Plan(c))
  BY PlanFacts
<1>4. ~(i <= k)
  BY <1>1, <1>2, <1>3
<1>5. ~(i > k + 1)
  <2>1. SUFFICES ASSUME i > k + 1 PROVE FALSE
    OBVIOUS
  <2>2. Plan(c)[k + 1] \in hold[c]
    BY <1>1, <1>3, <2>1
  <2>3. PICK j \in 1..k : Plan(c)[j] = Plan(c)[k + 1]
    BY <1>2, <2>2
  <2>4. j \in DOMAIN Plan(c) /\ k + 1 \in DOMAIN Plan(c) /\ j # k + 1
    BY <1>3, <2>1, <2>3, PlanFacts
  <2> QED BY <2>3, <2>4, PlanFacts DEF NoTwice
<1>6. i = k + 1 /\ k \in 0..(Len(Plan(c)) - 1)
  BY <1>3, <1>4, <1>5
<1>7. hold[c] \cup {s} = {Plan(c)[j] : j \in 1..(k + 1)}
  <2>1. 1..(k + 1) = 1..k \cup {k + 1}
    BY <1>6
  <2> QED BY <1>1, <1>2, <1>6, <2>1
<1> QED BY <1>1, <1>2, <1>6, <1>7

\* A step that leaves a call's permits alone, or gives it the next one.
LEMMA HoldsFirstKept ==
  ASSUME NEW c \in Call, HoldsFirst(c),
         hold'[c] = hold[c] \/ (\E s : Lacks(c, s) /\ hold'[c] = hold[c] \cup {s})
  PROVE  HoldsFirst(c)'
<1>1. CASE hold'[c] = hold[c]
  BY <1>1 DEF HoldsFirst
<1>2. ASSUME NEW s, Lacks(c, s), hold'[c] = hold[c] \cup {s} PROVE HoldsFirst(c)'
  <2>1. PICK k \in 0..(Len(Plan(c)) - 1) :
          hold[c] \cup {s} = {Plan(c)[j] : j \in 1..(k + 1)}
    BY <1>2, NextPermit
  <2>2. k + 1 \in 0..Len(Plan(c))
    BY PlanFacts
  <2> QED BY <1>2, <2>1, <2>2 DEF HoldsFirst
<1> QED BY <1>1, <1>2

\* A step of one call that moves no permit.
LEMMA PhaseStep ==
  ASSUME PermitInv, NEW c \in Call, NEW to \in Phase,
         phase' = [phase EXCEPT ![c] = to], UNCHANGED <<hold, avail, waiters>>, queued' \in Nat,
         phase[c] = "waiting" => HasAll(c),
         to \in {"trying", "waiting"} => HoldsFirst(c), to # "idle"
  PROVE  PermitInv'
<1>1. BudgetInv'
  BY DEF PermitInv, BudgetInv, BudgetTypeOK, PermitsConserved, Holders
<1>2. \A d \in Call : phase'[d] = IF d = c THEN to ELSE phase[d]
  BY DEF PermitInv, BudgetInv, BudgetTypeOK
<1>3. ASSUME NEW s \in Sems PROVE OneWait(s)'
  <2>1. \A d \in Call : Waits(d, s) => phase[d] = "waiting" /\ Lacks(d, s) /\ d # c
    BY LacksOne DEF PermitInv, OneWait
  <2> QED BY <1>2, <2>1 DEF PermitInv, OneWait, Waits, Lacks
<1>4. ASSUME NEW d \in Call PROVE Acquires(d)'
  BY <1>2 DEF PermitInv, Acquires, HoldsFirst
<1> QED BY <1>1, <1>3, <1>4 DEF PermitInv

\* How many calls hold a semaphore when one more takes it, or one gives it back.
LEMMA HoldersCounted ==
  ASSUME BudgetTypeOK, NEW s \in Sems
  PROVE  /\ IsFiniteSet(Holders(s)) /\ Cardinality(Holders(s)) \in Nat
         /\ \A c \in Call \ Holders(s) :
              /\ Cardinality(Holders(s) \cup {c}) = Cardinality(Holders(s)) + 1
              /\ \A d \in Holders(s) :
                   Cardinality((Holders(s) \ {d}) \cup {c}) = Cardinality(Holders(s))
         /\ \A c \in Holders(s) : Cardinality(Holders(s) \ {c}) = Cardinality(Holders(s)) - 1
<1>1. IsFiniteSet(Holders(s))
  BY FS_Subset, BudgetAssumption DEF Holders
<1>2. Cardinality(Holders(s)) \in Nat
  BY <1>1, FS_CardinalityType
<1>3. ASSUME NEW c \in Call \ Holders(s), NEW d \in Holders(s)
      PROVE  Cardinality((Holders(s) \ {d}) \cup {c}) = Cardinality(Holders(s))
  <2>1. /\ IsFiniteSet(Holders(s) \ {d})
        /\ Cardinality(Holders(s) \ {d}) = Cardinality(Holders(s)) - 1
    BY <1>1, FS_RemoveElement
  <2>2. Cardinality((Holders(s) \ {d}) \cup {c}) = Cardinality(Holders(s) \ {d}) + 1
    BY <2>1, FS_AddElement
  <2> QED BY <1>2, <2>1, <2>2
<1> QED BY <1>1, <1>2, <1>3, FS_AddElement, FS_RemoveElement

\* A free permit is taken by the call that lacks it.
LEMMA TakeStep ==
  ASSUME PermitInv, NEW c \in Call, NEW s \in Sems, phase[c] \in {"trying", "waiting"},
         Lacks(c, s), ~Waits(c, s), Take(c, s), UNCHANGED <<phase, waiters, queued>>
  PROVE  PermitInv'
<1> USE DEF PermitInv, BudgetInv
<1>1. /\ avail[s] > 0 /\ avail' = [avail EXCEPT ![s] = avail[s] - 1]
      /\ hold' = [hold EXCEPT ![c] = hold[c] \cup {s}]
  BY DEF Take
<1>2. BudgetTypeOK'
  BY <1>1 DEF BudgetTypeOK
<1>3. s \notin hold[c]
  BY LacksOne
<1>4. Holders(s)' = Holders(s) \cup {c} /\ c \notin Holders(s)
  BY <1>1, <1>3 DEF BudgetTypeOK, Holders
<1>5. \A r \in Sems \ {s} : Holders(r)' = Holders(r)
  BY <1>1 DEF BudgetTypeOK, Holders
<1>6. PermitsConserved'
  <2>1. Cardinality(Holders(s)') = Cardinality(Holders(s)) + 1 /\ Cardinality(Holders(s)) \in Nat
    BY <1>4, HoldersCounted
  <2>2. avail'[s] + Cardinality(Holders(s)') = Permits(s) /\ waiters'[s] = <<>>
    BY <1>1, <2>1, PermitsAreNat DEF BudgetTypeOK, PermitsConserved
  <2>3. \A r \in Sems \ {s} : avail'[r] = avail[r]
    BY <1>1 DEF BudgetTypeOK
  <2> QED BY <1>5, <2>2, <2>3 DEF PermitsConserved
<1>7. \A d \in Call \ {c} : hold'[d] = hold[d]
  BY <1>1 DEF BudgetTypeOK
<1>8. \A r \in Sems : ~Waits(c, r)
  BY LacksOne DEF OneWait
<1>9. ASSUME NEW r \in Sems PROVE OneWait(r)'
  BY <1>7, <1>8 DEF OneWait, Waits, Lacks
<1>10. ASSUME NEW d \in Call PROVE Acquires(d)'
  <2>1. CASE d = c
    <3>1. hold'[c] = hold[c] \cup {s}
      BY <1>1 DEF BudgetTypeOK
    <3> QED BY <2>1, <3>1, HoldsFirstKept DEF Acquires
  <2>2. CASE d # c
    BY <1>7, <2>2 DEF Acquires, HoldsFirst
  <2> QED BY <2>1, <2>2
<1> QED BY <1>2, <1>6, <1>9, <1>10

\* A permit goes back to its semaphore, or on to the first waiter.
LEMMA GiveBackStep ==
  ASSUME PermitInv, NEW c \in Call, NEW s \in hold[c], GiveBack(c, s), UNCHANGED <<phase, queued>>,
         phase[c] \in {"backing_off", "expired", "releasing"}
  PROVE  PermitInv'
<1> USE DEF PermitInv, BudgetInv
<1>1. s \in Sems /\ c \in Holders(s)
  BY DEF BudgetTypeOK, Holders
<1>2. \A r \in Sems : ~Waits(c, r)
  BY DEF OneWait
<1>3. CASE waiters[s] = <<>>
  <2>1. /\ hold' = [hold EXCEPT ![c] = hold[c] \ {s}]
        /\ avail' = [avail EXCEPT ![s] = avail[s] + 1] /\ waiters' = waiters
    BY <1>3 DEF GiveBack
  <2>2. BudgetTypeOK'
    BY <1>1, <2>1 DEF BudgetTypeOK
  <2>3. Holders(s)' = Holders(s) \ {c} /\ \A r \in Sems \ {s} : Holders(r)' = Holders(r)
    BY <1>1, <2>1 DEF BudgetTypeOK, Holders
  <2>4. /\ Cardinality(Holders(s)') = Cardinality(Holders(s)) - 1
        /\ Cardinality(Holders(s)) \in Nat
    BY <1>1, <2>3, HoldersCounted
  <2>5. avail'[s] + Cardinality(Holders(s)') = Permits(s) /\ waiters'[s] = <<>>
    BY <1>1, <1>3, <2>1, <2>4, PermitsAreNat DEF BudgetTypeOK, PermitsConserved
  <2>6. \A r \in Sems \ {s} : avail'[r] = avail[r] /\ waiters'[r] = waiters[r]
    BY <1>1, <2>1 DEF BudgetTypeOK
  <2>7. PermitsConserved'
    BY <2>3, <2>5, <2>6 DEF PermitsConserved
  <2>8. \A d \in Call \ {c} : hold'[d] = hold[d]
    BY <2>1 DEF BudgetTypeOK
  <2>9. ASSUME NEW r \in Sems PROVE OneWait(r)'
    BY <1>2, <2>1, <2>8 DEF OneWait, Waits, Lacks
  <2>10. ASSUME NEW d \in Call PROVE Acquires(d)'
    BY <2>8 DEF Acquires, HoldsFirst
  <2> QED BY <2>2, <2>7, <2>9, <2>10
<1>4. CASE waiters[s] # <<>>
  <2> DEFINE h == Head(waiters[s])
  <2>1. /\ hold' = [hold EXCEPT ![c] = hold[c] \ {s}, ![h] = @ \cup {s}]
        /\ waiters' = [waiters EXCEPT ![s] = Tail(waiters[s])] /\ avail' = avail
    BY <1>4 DEF GiveBack
  <2>2. /\ h \in ToSet(waiters[s]) /\ h \in Call /\ Tail(waiters[s]) \in Seq(Call)
        /\ ToSet(Tail(waiters[s])) \subseteq ToSet(waiters[s])
        /\ NoTwice(Tail(waiters[s])) /\ h \notin ToSet(Tail(waiters[s]))
    BY <1>1, <1>4, HeadLeaves DEF BudgetTypeOK, OneWait
  <2>3. phase[h] = "waiting" /\ Lacks(h, s) /\ h # c
    BY <1>1, <1>2, <2>2 DEF OneWait, Waits
  <2> HIDE DEF h
  <2>4. /\ hold'[c] = hold[c] \ {s} /\ hold'[h] = hold[h] \cup {s}
        /\ \A d \in Call \ {c, h} : hold'[d] = hold[d]
    BY <2>1, <2>2, <2>3 DEF BudgetTypeOK
  <2>5. hold' \in [Call -> SUBSET Sems] /\ waiters' \in [Sems -> Seq(Call)]
    BY <1>1, <2>1, <2>2 DEF BudgetTypeOK
  <2>6. BudgetTypeOK'
    BY <2>1, <2>5 DEF BudgetTypeOK
  <2>7. s \notin hold[h]
    BY <2>2, <2>3, LacksOne
  <2>8. /\ Holders(s)' = (Holders(s) \ {c}) \cup {h} /\ h \in Call \ Holders(s)
        /\ \A r \in Sems \ {s} : Holders(r)' = Holders(r)
    BY <2>2, <2>3, <2>4, <2>7 DEF Holders
  <2>9. Cardinality(Holders(s)') = Cardinality(Holders(s))
    <3>1. BudgetTypeOK
      OBVIOUS
    <3>2. Cardinality((Holders(s) \ {c}) \cup {h}) = Cardinality(Holders(s))
      BY <3>1, <1>1, <2>8, HoldersCounted
    <3> QED BY <3>2, <2>8
  <2>10. avail[s] = 0
    BY <1>1, <1>4 DEF BudgetTypeOK, PermitsConserved
  <2>11. \A r \in Sems \ {s} : waiters'[r] = waiters[r]
    BY <1>1, <2>1 DEF BudgetTypeOK
  <2>12. PermitsConserved'
    <3>1. ASSUME NEW r \in Sems PROVE avail'[r] + Cardinality(Holders(r)') = Permits(r)
      <4>1. Cardinality(Holders(r)') = Cardinality(Holders(r)) /\ avail'[r] = avail[r]
        BY <2>1, <2>8, <2>9
      <4> QED BY <4>1 DEF PermitsConserved
    <3>2. ASSUME NEW r \in Sems, avail'[r] > 0 PROVE waiters'[r] = <<>>
      <4>1. r # s /\ avail[r] > 0
        BY <2>1, <2>10, <3>2
      <4> QED BY <4>1, <2>11 DEF PermitsConserved
    <3> QED BY <3>1, <3>2 DEF PermitsConserved
  <2>13. \A r \in Sems : Waits(h, r) => r = s
    BY <2>2, <2>3, LacksOne DEF OneWait
  <2>14. waiters'[s] = Tail(waiters[s])
    BY <1>1, <2>1 DEF BudgetTypeOK
  <2>15. \A d \in Call, r \in Sems : Waits(d, r)' => Waits(d, r) /\ d # c /\ d # h
    BY <1>2, <2>2, <2>11, <2>13, <2>14 DEF Waits
  <2>16. ASSUME NEW r \in Sems PROVE OneWait(r)'
    <3>1. NoTwice(waiters'[r])
      BY <2>2, <2>11, <2>14 DEF OneWait
    <3>2. ASSUME NEW d \in Call, Waits(d, r)' PROVE phase'[d] = "waiting" /\ Lacks(d, r)'
      BY <2>4, <2>15, <3>2 DEF OneWait, Lacks
    <3> QED BY <3>1, <3>2 DEF OneWait
  <2>17. ASSUME NEW d \in Call PROVE Acquires(d)'
    <3>1. CASE d = c
      BY <3>1 DEF Acquires
    <3>2. CASE d = h
      BY <2>2, <2>3, <2>4, <3>2, HoldsFirstKept DEF Acquires
    <3>3. CASE d \notin {c, h}
      BY <2>4, <3>3 DEF Acquires, HoldsFirst
    <3> QED BY <3>1, <3>2, <3>3
  <2> QED BY <2>6, <2>12, <2>16, <2>17
<1> QED BY <1>3, <1>4

\* A call that finds no permit joins the waiters.
LEMMA JoinStep ==
  ASSUME PermitInv, NEW c \in Call, NEW s \in Sems, phase[c] = "waiting",
         Lacks(c, s), ~Waits(c, s), ~(avail[s] > 0),
         waiters' = [waiters EXCEPT ![s] = Append(waiters[s], c)],
         UNCHANGED <<hold, avail, phase, queued>>
  PROVE  PermitInv'
<1> USE DEF PermitInv, BudgetInv
<1>1. /\ Append(waiters[s], c) \in Seq(Call) /\ NoTwice(Append(waiters[s], c))
      /\ ToSet(Append(waiters[s], c)) = ToSet(waiters[s]) \cup {c}
  BY Appended DEF BudgetTypeOK, OneWait, Waits
<1>2. /\ waiters'[s] = Append(waiters[s], c)
      /\ \A r \in Sems \ {s} : waiters'[r] = waiters[r]
  BY DEF BudgetTypeOK
<1>3. BudgetTypeOK'
  BY <1>1 DEF BudgetTypeOK
<1>4. PermitsConserved'
  BY <1>2 DEF PermitsConserved, Holders
<1>5. ASSUME NEW r \in Sems PROVE OneWait(r)'
  <2>1. CASE r = s
    BY <1>1, <1>2, <2>1 DEF OneWait, Waits, Lacks
  <2>2. CASE r # s
    BY <1>2, <2>2 DEF OneWait, Waits, Lacks
  <2> QED BY <2>1, <2>2
<1>6. ASSUME NEW d \in Call PROVE Acquires(d)'
  BY DEF Acquires, HoldsFirst
<1> QED BY <1>3, <1>4, <1>5, <1>6

\* A call that gives up waits for nothing any more.
LEMMA ExpireStep ==
  ASSUME PermitInv, NEW c \in Call, WaitExpires(c)
  PROVE  PermitInv'
<1> USE DEF PermitInv, BudgetInv
<1>1. /\ phase' = [phase EXCEPT ![c] = "expired"] /\ UNCHANGED <<hold, avail, queued>>
      /\ waiters' = [s \in Sems |-> RemoveFirst(waiters[s], c)]
  BY DEF WaitExpires, Go
<1>2. ASSUME NEW s \in Sems
      PROVE  /\ waiters'[s] \in Seq(Call) /\ NoTwice(waiters'[s])
             /\ ToSet(waiters'[s]) = ToSet(waiters[s]) \ {c}
  BY <1>1, Leaves DEF BudgetTypeOK, OneWait
<1>3. BudgetTypeOK'
  <2>1. waiters' \in [Sems -> Seq(Call)]
    BY <1>1, <1>2
  <2> QED BY <1>1, <2>1 DEF BudgetTypeOK, Phase
<1>4. PermitsConserved'
  <2>1. ASSUME NEW s \in Sems, waiters[s] = <<>> PROVE waiters'[s] = <<>>
    <3>1. RemoveFirst(<<>>, c) = <<>>
      BY DEF RemoveFirst
    <3> QED BY <1>1, <2>1, <3>1
  <2> QED BY <1>1, <2>1 DEF PermitsConserved, Holders
<1>5. \A d \in Call : phase'[d] = IF d = c THEN "expired" ELSE phase[d]
  BY <1>1 DEF BudgetTypeOK
<1>6. ASSUME NEW s \in Sems PROVE OneWait(s)'
  <2>1. ASSUME NEW d \in Call, Waits(d, s)' PROVE phase'[d] = "waiting" /\ Lacks(d, s)'
    <3>1. Waits(d, s) /\ d # c
      BY <1>2, <2>1 DEF Waits
    <3>2. phase[d] = "waiting" /\ Lacks(d, s)
      BY <3>1 DEF OneWait
    <3>3. Lacks(d, s)'
      BY <1>1, <3>2 DEF Lacks
    <3> QED BY <1>5, <3>1, <3>2, <3>3
  <2> QED BY <1>2, <2>1 DEF OneWait
<1>7. ASSUME NEW d \in Call PROVE Acquires(d)'
  <2>1. HoldsFirst(d) => HoldsFirst(d)'
    BY <1>1 DEF HoldsFirst
  <2>2. phase'[d] \in {"trying", "waiting", "idle"} => phase'[d] = phase[d]
    BY <1>5
  <2>3. Acquires(d) /\ hold'[d] = hold[d]
    BY <1>1
  <2> QED BY <2>1, <2>2, <2>3 DEF Acquires
<1> QED BY <1>3, <1>4, <1>6, <1>7

\* A step of acquire() or of the drop of a permit keeps the permits.
LEMMA PermitStep ==
  ASSUME PermitInv, QueueInv', [BudgetNext]_budgetVars
  PROVE  PermitInv'
<1>0. queued' \in Nat
  BY DEF QueueInv
<1>1. ASSUME NEW c \in Call, Begin(c) PROVE PermitInv'
  <2>1. HoldsFirst(c)
    <3>1. hold[c] = {} /\ 0 \in 0..Len(Plan(c)) /\ {Plan(c)[j] : j \in 1..0} = {}
      BY <1>1, PlanFacts DEF Begin, Go, PermitInv, Acquires
    <3> QED BY <3>1 DEF HoldsFirst
  <2> QED BY <1>0, <1>1, <2>1, PhaseStep DEF Begin, Go, Phase
<1>2. ASSUME NEW c \in Call, TryNext(c) PROVE PermitInv'
  <2>1. PICK s \in ToSet(Plan(c)) : Lacks(c, s) /\ Take(c, s)
    BY <1>2 DEF TryNext
  <2>2. s \in Sems
    BY PlanFacts DEF ToSet
  <2>3. phase[c] = "trying" /\ UNCHANGED <<phase, waiters, queued>>
    BY <1>2 DEF TryNext
  <2>4. ~Waits(c, s)
    BY <2>2, <2>3 DEF PermitInv, OneWait
  <2> QED BY <2>1, <2>2, <2>3, <2>4, TakeStep
<1>3. ASSUME NEW c \in Call, Enqueue(c) PROVE PermitInv'
  <2>1. HoldsFirst(c)
    <3>1. hold[c] = {} /\ 0 \in 0..Len(Plan(c)) /\ {Plan(c)[j] : j \in 1..0} = {}
      BY <1>3, PlanFacts DEF Enqueue
    <3> QED BY <3>1 DEF HoldsFirst
  <2>2. PICK to \in {"refused", "waiting"} : phase' = [phase EXCEPT ![c] = to]
    BY <1>3 DEF Enqueue, Go
  <2> QED BY <1>0, <1>3, <2>1, <2>2, PhaseStep DEF Enqueue, Go, Phase
<1>4. ASSUME NEW c \in Call, WaitNext(c) PROVE PermitInv'
  <2>1. PICK s \in ToSet(Plan(c)) :
          /\ Lacks(c, s) /\ ~Waits(c, s)
          /\ IF avail[s] > 0 THEN Take(c, s) /\ waiters' = waiters
             ELSE waiters' = [waiters EXCEPT ![s] = Append(@, c)] /\ UNCHANGED <<hold, avail>>
    BY <1>4 DEF WaitNext
  <2>2. s \in Sems
    BY PlanFacts DEF ToSet
  <2>3. phase[c] = "waiting" /\ UNCHANGED <<phase, queued>>
    BY <1>4 DEF WaitNext
  <2>4. CASE avail[s] > 0
    BY <2>1, <2>2, <2>3, <2>4, TakeStep
  <2>5. CASE ~(avail[s] > 0)
    BY <2>1, <2>2, <2>3, <2>5, JoinStep
  <2> QED BY <2>4, <2>5
<1>5. ASSUME NEW c \in Call, Release(c) PROVE PermitInv'
  BY <1>5, GiveBackStep DEF Release
<1>6. ASSUME NEW c \in Call, WaitExpires(c) PROVE PermitInv'
  BY <1>6, ExpireStep
<1>7. ASSUME NEW c \in Call, TrySucceeds(c) \/ WaitSucceeds(c) \/ TryFails(c) PROVE PermitInv'
  <2>1. CASE TrySucceeds(c)
    BY <1>0, <2>1, PhaseStep DEF TrySucceeds, Go, Phase
  <2>2. CASE WaitSucceeds(c)
    BY <1>0, <2>2, PhaseStep DEF WaitSucceeds, Go, Phase
  <2>3. CASE TryFails(c)
    BY <1>0, <2>3, PhaseStep DEF TryFails, Go, Phase
  <2> QED BY <1>7, <2>1, <2>2, <2>3
<1>8. ASSUME NEW c \in Call, Leave(c) \/ Finish(c) \/ Released(c) PROVE PermitInv'
  <2>1. CASE Leave(c)
    BY <1>0, <2>1, PhaseStep DEF Leave, Phase
  <2>2. CASE Finish(c)
    BY <1>0, <2>2, PhaseStep DEF Finish, Go, Phase
  <2>3. CASE Released(c)
    BY <1>0, <2>3, PhaseStep DEF Released, Go, Phase
  <2> QED BY <1>8, <2>1, <2>2, <2>3
<1>9. CASE UNCHANGED budgetVars
  <2>1. UNCHANGED <<phase, hold, avail, waiters, queued>>
    BY <1>9 DEF budgetVars
  <2>2. BudgetInv'
    BY <2>1 DEF PermitInv, BudgetInv, BudgetTypeOK, PermitsConserved, Holders
  <2>3. \A s \in Sems : OneWait(s)'
    BY <2>1 DEF PermitInv, OneWait, Waits, Lacks
  <2>4. \A c \in Call : Acquires(c)'
    BY <2>1 DEF PermitInv, Acquires, HoldsFirst
  <2> QED BY <2>2, <2>3, <2>4 DEF PermitInv
<1> QED BY <1>1, <1>2, <1>3, <1>4, <1>5, <1>6, <1>7, <1>8, <1>9 DEF BudgetNext, CallStep

\* Every permit is free at first.
LEMMA PermitStart == ASSUME BudgetInit PROVE PermitInv
<1>1. BudgetTypeOK
  BY PermitsAreNat DEF BudgetInit, BudgetTypeOK, Phase
<1>2. ASSUME NEW s \in Sems PROVE OneWait(s) /\ Holders(s) = {} /\ avail[s] = Permits(s) /\ waiters[s] = <<>>
  BY <1>1 DEF BudgetInit, OneWait, NoTwice, Waits, ToSet, Holders
<1>3. PermitsConserved
  <2>1. ASSUME NEW s \in Sems PROVE avail[s] + Cardinality(Holders(s)) = Permits(s)
    <3>1. Cardinality(Holders(s)) = 0
      BY <1>2, FS_EmptySet
    <3> QED BY <1>2, <3>1, PermitsAreNat
  <2> QED BY <1>2, <2>1 DEF PermitsConserved
<1>4. ASSUME NEW c \in Call PROVE Acquires(c)
  BY DEF BudgetInit, Acquires
<1> QED BY <1>1, <1>2, <1>3, <1>4 DEF PermitInv, BudgetInv

LEMMA PermitsAlways == BudgetSpec => []PermitInv
BY QueueStart, QueueStep, PermitStart, PermitStep, PTL DEF BudgetSpec

\* The permits that calls hold and the free ones are MAX_IN_FLIGHT_... of each
\* semaphore, on every interleaving of acquire(), the timeout and the drops:
\* no limit is exceeded, none is silently lowered, and no permit is free while a
\* call waits for it.
THEOREM PermitsAreConserved == BudgetSpec => []BudgetInv
<1>1. PermitInv => BudgetInv
  BY DEF PermitInv
<1> QED BY <1>1, PermitsAlways, PTL

\* A Write or Edit that waits for an earlier one of its session holds no permit
\* that another session could use.
THEOREM MutationsWaitAside == BudgetSpec => []MutationWaitsAside
<1>1. ASSUME PermitInv, NEW c \in Call, Waits(c, Sem("mutation", SessionOf[c]))
      PROVE  hold[c] = {}
  <2> DEFINE m == Sem("mutation", SessionOf[c])
  <2>1. m \in Sems /\ m.kind = "mutation"
    BY DEF Sems, Sem
  <2> HIDE DEF m
  <2>2. phase[c] = "waiting" /\ Lacks(c, m) /\ HoldsFirst(c)
    BY <1>1, <2>1 DEF PermitInv, OneWait, Acquires, m
  <2>3. PICK k \in 0..(Len(Plan(c)) - 1) :
          /\ hold[c] = {Plan(c)[j] : j \in 1..k} /\ m = Plan(c)[k + 1]
          /\ hold[c] \cup {m} = {Plan(c)[j] : j \in 1..(k + 1)}
    BY <2>2, NextPermit
  <2>4. k + 1 \in DOMAIN Plan(c)
    BY PlanFacts
  <2>5. k = 0
    BY <2>1, <2>3, <2>4, PlanFacts
  <2> QED BY <2>3, <2>5
<1>2. PermitInv => MutationWaitsAside
  BY <1>1 DEF MutationWaitsAside
<1> QED BY <1>2, PermitsAlways, PTL

=============================================================================
