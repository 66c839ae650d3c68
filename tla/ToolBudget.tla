----------------------------- MODULE ToolBudget -----------------------------
(***************************************************************************)
(* Admission of tool calls in host-core                                    *)
(* (crates/host-core/src/tool_budget.rs).  A call needs a permit of up to  *)
(* four semaphores: its session's mutation slot (Write and Edit only), the *)
(* total, its class and its session, taken in this order.  It tries to     *)
(* take all at once; failing that it joins a bounded queue and waits for   *)
(* one after the other, holding what it has, for at most QUEUE_WAIT.       *)
(*                                                                         *)
(* The calls run on the threads of the tokio runtime, so they interleave   *)
(* between any two operations on a semaphore or on the `queued' counter.   *)
(* tokio's Semaphore is fair: a released permit goes to the first waiter.  *)
(***************************************************************************)
EXTENDS Integers, Sequences, FiniteSets, SequencesExt

CONSTANTS
  Call, SessionOf, ClassOf, \* the tool calls, their sessions and classes
  MaxTotal,                 \* MAX_IN_FLIGHT_TOOLS
  MaxClass,                 \* MAX_IN_FLIGHT_READS, _MUTATIONS, _SHELL, _PLUGINS
  MaxSession,               \* MAX_IN_FLIGHT_PER_SESSION
  MaxQueued,                \* MAX_QUEUED_TOOLS
  Timeouts                  \* whether QUEUE_WAIT may pass

ToolClass == {"read", "mutation", "shell", "plugin"}

ASSUME BudgetAssumption ==
  /\ IsFiniteSet(Call)
  /\ ClassOf \in [Call -> ToolClass]
  /\ MaxTotal \in Nat \ {0} /\ MaxSession \in Nat \ {0} /\ MaxQueued \in Nat
  /\ MaxClass \in [ToolClass -> Nat \ {0}]
  /\ Timeouts \in BOOLEAN

\* A semaphore is known by what it limits.
Sem(kind, of) == [kind |-> kind, of |-> of]
Sems ==
  {Sem("total", "all")} \cup {Sem("class", k) : k \in ToolClass}
    \cup {Sem(kind, SessionOf[c]) : kind \in {"session", "mutation"}, c \in Call}

\* MAX_IN_FLIGHT_MUTATIONS_PER_SESSION is 1.
Permits(s) ==
  CASE s.kind = "total"    -> MaxTotal
    [] s.kind = "class"    -> MaxClass[s.of]
    [] s.kind = "session"  -> MaxSession
    [] s.kind = "mutation" -> 1

\* Mutant: a mutation takes its session's slot last.
PlanMutationLast(c) ==
  <<Sem("total", "all"), Sem("class", ClassOf[c]), Sem("session", SessionOf[c])>>
    \o (IF ClassOf[c] = "mutation" THEN <<Sem("mutation", SessionOf[c])>> ELSE <<>>)

\* Mutant: a shell call takes its session's permit before its class's.
PlanShellSwapped(c) ==
  IF ClassOf[c] = "shell"
  THEN <<Sem("session", SessionOf[c]), Sem("class", "shell"), Sem("total", "all")>>
  ELSE <<Sem("total", "all"), Sem("class", ClassOf[c]), Sem("session", SessionOf[c])>>

\* The order in which a call takes its permits.
Plan(c) ==
  (IF ClassOf[c] = "mutation" THEN <<Sem("mutation", SessionOf[c])>> ELSE <<>>)
    \o <<Sem("total", "all"), Sem("class", ClassOf[c]), Sem("session", SessionOf[c])>>

VARIABLES
  phase,   \* where each call is
  hold,    \* the semaphores it has a permit of
  avail,   \* free permits of each semaphore
  waiters, \* calls waiting for each semaphore, the first one first
  queued   \* the `queued' counter

budgetVars == <<phase, hold, avail, waiters, queued>>

Phase == {"idle", "trying", "backing_off", "waiting", "refused", "expired",
          "running", "releasing", "done"}

BudgetTypeOK ==
  /\ phase \in [Call -> Phase]
  /\ hold \in [Call -> SUBSET Sems]
  /\ avail \in [Sems -> Nat]
  /\ waiters \in [Sems -> Seq(Call)]
  /\ queued \in Nat

BudgetInit ==
  /\ phase = [c \in Call |-> "idle"] /\ hold = [c \in Call |-> {}]
  /\ avail = [s \in Sems |-> Permits(s)] /\ waiters = [s \in Sems |-> <<>>]
  /\ queued = 0

-----------------------------------------------------------------------------
(* Semaphores *)

HasAll(c)  == hold[c] = ToSet(Plan(c))
\* The first semaphore of the plan the call has no permit of.
Lacks(c, s) ==
  \E i \in DOMAIN Plan(c) :
    Plan(c)[i] = s /\ s \notin hold[c] /\ \A j \in 1..(i - 1) : Plan(c)[j] \in hold[c]

Take(c, s) ==
  /\ avail[s] > 0
  /\ avail' = [avail EXCEPT ![s] = @ - 1]
  /\ hold' = [hold EXCEPT ![c] = @ \cup {s}]

\* Mutant: a released permit does not wake a waiter.
GiveBackSilently(c, s) ==
  /\ hold' = [hold EXCEPT ![c] = @ \ {s}]
  /\ avail' = [avail EXCEPT ![s] = @ + 1] /\ waiters' = waiters

\* A dropped permit goes to the first waiter, if there is one.
GiveBack(c, s) ==
  IF waiters[s] = <<>>
  THEN /\ hold' = [hold EXCEPT ![c] = @ \ {s}]
       /\ avail' = [avail EXCEPT ![s] = @ + 1] /\ waiters' = waiters
  ELSE /\ hold' = [hold EXCEPT ![c] = @ \ {s}, ![Head(waiters[s])] = @ \cup {s}]
       /\ waiters' = [waiters EXCEPT ![s] = Tail(@)] /\ avail' = avail

-----------------------------------------------------------------------------
(* acquire *)

Go(c, from, to) == phase[c] = from /\ phase' = [phase EXCEPT ![c] = to]

Begin(c) == Go(c, "idle", "trying") /\ UNCHANGED <<hold, avail, waiters, queued>>

\* try_acquire
TryNext(c) ==
  /\ phase[c] = "trying" /\ \E s \in ToSet(Plan(c)) : Lacks(c, s) /\ Take(c, s)
  /\ UNCHANGED <<phase, waiters, queued>>

TrySucceeds(c) ==
  /\ HasAll(c) /\ Go(c, "trying", "running")
  /\ UNCHANGED <<hold, avail, waiters, queued>>

TryFails(c) ==
  /\ \E s \in ToSet(Plan(c)) : Lacks(c, s) /\ avail[s] = 0
  /\ Go(c, "trying", "backing_off")
  /\ UNCHANGED <<hold, avail, waiters, queued>>

\* fetch_add and the check of what it returned.
Enqueue(c) ==
  /\ hold[c] = {} /\ queued' = queued + 1
  /\ Go(c, "backing_off", IF queued + 1 > MaxQueued THEN "refused" ELSE "waiting")
  /\ UNCHANGED <<hold, avail, waiters>>

Waits(c, s) == c \in ToSet(waiters[s])

\* acquire_all: take the next permit or wait for it.
WaitNext(c) ==
  /\ phase[c] = "waiting"
  /\ \E s \in ToSet(Plan(c)) :
       /\ Lacks(c, s) /\ ~Waits(c, s)
       /\ IF avail[s] > 0 THEN Take(c, s) /\ waiters' = waiters
          ELSE waiters' = [waiters EXCEPT ![s] = Append(@, c)] /\ UNCHANGED <<hold, avail>>
  /\ UNCHANGED <<phase, queued>>

WaitSucceeds(c) ==
  /\ HasAll(c) /\ Go(c, "waiting", "running")
  /\ queued' = queued - 1
  /\ UNCHANGED <<hold, avail, waiters>>

\* QUEUE_WAIT has passed and the permits are still not all there: the future is
\* dropped with what it waits for, and then, permit by permit, with what it holds.
WaitExpires(c) ==
  /\ Timeouts /\ ~HasAll(c) /\ Go(c, "waiting", "expired")
  /\ waiters' = [s \in Sems |-> RemoveFirst(waiters[s], c)]
  /\ UNCHANGED <<hold, avail, queued>>

\* Mutant: a call that gives up is still counted as queued.
LeaveCounted(c) ==
  /\ phase[c] \in {"refused", "expired"} /\ hold[c] = {}
  /\ phase' = [phase EXCEPT ![c] = "done"]
  /\ UNCHANGED <<hold, avail, waiters, queued>>

\* HOST_OVERLOADED.
Leave(c) ==
  /\ phase[c] \in {"refused", "expired"} /\ hold[c] = {}
  /\ phase' = [phase EXCEPT ![c] = "done"] /\ queued' = queued - 1
  /\ UNCHANGED <<hold, avail, waiters>>

\* The tool has run and its ToolPermit is dropped.
Finish(c) == Go(c, "running", "releasing") /\ UNCHANGED <<hold, avail, waiters, queued>>

Release(c) ==
  /\ phase[c] \in {"backing_off", "expired", "releasing"}
  /\ \E s \in hold[c] : GiveBack(c, s)
  /\ UNCHANGED <<phase, queued>>

Released(c) ==
  /\ hold[c] = {} /\ Go(c, "releasing", "done")
  /\ UNCHANGED <<hold, avail, waiters, queued>>

CallStep(c) ==
  \/ TryNext(c) \/ TrySucceeds(c) \/ TryFails(c) \/ Enqueue(c)
  \/ WaitNext(c) \/ WaitSucceeds(c) \/ Leave(c)
  \/ Finish(c) \/ Release(c) \/ Released(c)

BudgetNext == \E c \in Call : Begin(c) \/ WaitExpires(c) \/ CallStep(c)

BudgetSpec == BudgetInit /\ [][BudgetNext]_budgetVars

\* Threads run and tools end (every tool has a deadline of its own): while some
\* call can go on, one of them does.  A call takes finitely many steps, so this
\* asks for no more.
BudgetFairness == WF_budgetVars(\E c \in Call : CallStep(c))

BudgetLiveSpec == BudgetSpec /\ BudgetFairness

-----------------------------------------------------------------------------
(* Properties *)

Holders(s) == {c \in Call : s \in hold[c]}

\* No permit is lost or minted on any path, and none is free while a call
\* waits for it, so a limit is neither exceeded nor silently lowered.
PermitsConserved ==
  \A s \in Sems :
    /\ avail[s] + Cardinality(Holders(s)) = Permits(s)
    /\ avail[s] > 0 => waiters[s] = <<>>

\* "queued Write/Edit calls therefore do not hold global capacity while waiting
\* for an earlier mutation in the same session"
\* (docs/spec/03-runtime/06-host-rpc-protocol.md:50).
MutationWaitsAside ==
  \A c \in Call : Waits(c, Sem("mutation", SessionOf[c])) => hold[c] = {}

\* The counter is the calls in the queue and the ones leaving it, and the
\* queue is bounded: "64 queued tool executions globally" (line 43).
InQueue == {c \in Call : phase[c] = "waiting"}
Counted == {c \in Call : phase[c] \in {"waiting", "refused", "expired"}}
QueueBounded ==
  /\ queued = Cardinality(Counted)
  /\ Cardinality(InQueue) <= MaxQueued

\* Waiting with permits in hand never ends in a cycle: every call that starts
\* is run or refused, without the help of QUEUE_WAIT, so there is always a
\* moment to come when no call is in the host.
EveryCallSettles == []<>(\A c \in Call : phase[c] \in {"idle", "done"})

\* The state is well formed, and no permit is lost or made.
BudgetInv == BudgetTypeOK /\ PermitsConserved

=============================================================================
