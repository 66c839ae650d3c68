----------------------------- MODULE TurnQueue -----------------------------
(***************************************************************************)
(* The Agent Host's turn queue of ONE session: the rows host-core keeps in *)
(* SQLite (crates/host-core/src/turn_queue.rs) and the JavaScript arrays   *)
(* that mirror them (packages/agent-host/src/turn-queue.ts), written by    *)
(* asynchronous calls that interleave at every await.                      *)
(*                                                                         *)
(* An operation is up to three steps: Begin (the synchronous part before   *)
(* the await), Store (host-core executes the request), Return (the         *)
(* continuation).  Arrays are objects with an identity: a call that read   *)
(* bySession.get(...) before its await still holds that very array after   *)
(* it, so the arrays live in a heap and `cur' is the one in the map.       *)
(***************************************************************************)
EXTENDS Naturals, Sequences, SequencesExt, FiniteSets

CONSTANTS
  Turn,         \* ids of queue records; each is used by one push
  NoTurn, Hole, \* no record; the `undefined' a stale splice or swap leaves
  Caller,       \* slots for calls in flight at the same time
  KeyOf,        \* the (principal, idempotency key) a push presents, or NoKey
  InputOf,      \* hash of the prompt text and attachments of a push
  NoKey,
  MaxQueued,    \* maxQueuedTurnsPerSession (8 in the code)
  MaxRestarts,  \* bound: restarts of Electron Main explored
  EarlyCalls,   \* whether calls may arrive before restore() has landed
  StoreFaults   \* whether a store call may be rejected by a lost host

NoArray == "none"
Boot    == "boot"
ArrayRef == Turn \cup {Boot}

ASSUME QueueAssumption ==
  /\ MaxQueued \in Nat \ {0}
  /\ MaxRestarts \in Nat
  /\ EarlyCalls \in BOOLEAN /\ StoreFaults \in BOOLEAN
  /\ NoTurn \notin Turn /\ Hole \notin Turn /\ NoTurn # Hole
  /\ Boot \notin Turn /\ NoArray \notin Turn

VARIABLES
  rows,      \* host-core's table in position order
  heap, cur, \* every array ever mirrored, and the one bySession holds
  held,      \* this session is in the held set
  boot,      \* progress of restore(): "listing", "listed", "ready"
  listed,    \* the rows listAll() read
  op,        \* the call in flight of each caller
  issued,    \* ids already used by a push
  accepted,  \* pushes whose caller was told they are queued
  taken,     \* records a remove or shift has spliced out of the mirror
  claims,    \* how often a remove or shift handed the record to its caller
  restarts

queueVars == <<rows, heap, cur, held, boot, listed, op, issued, accepted,
               taken, claims, restarts>>

Idle == [kind |-> "idle", id |-> NoTurn, arr |-> NoArray, at |-> 0, to |-> 0,
         phase |-> "none"]
Sent(kind, id, arr, at, to) ==
  [kind |-> kind, id |-> id, arr |-> arr, at |-> at, to |-> to, phase |-> "sent"]

Kind  == {"idle", "push", "remove", "prioritize", "reorder"}
Phase == {"none", "sent", "ok", "refused"}
Call  == [kind : Kind, id : Turn \cup {NoTurn}, arr : ArrayRef \cup {NoArray},
          at : Nat, to : Nat, phase : Phase]

QueueTypeOK ==
  /\ rows \in Seq(Turn) /\ listed \in Seq(Turn)
  /\ heap \in [ArrayRef -> Seq(Turn \cup {Hole})]
  /\ cur \in ArrayRef \cup {NoArray}
  /\ held \in BOOLEAN /\ boot \in {"listing", "listed", "ready"}
  /\ op \in [Caller -> Call]
  /\ issued \subseteq Turn /\ accepted \subseteq issued /\ taken \subseteq issued
  /\ claims \in [Turn -> 0..2]
  /\ restarts \in 0..MaxRestarts

QueueInit ==
  /\ rows = <<>> /\ listed = <<>>
  /\ heap = [a \in ArrayRef |-> <<>>] /\ cur = NoArray
  /\ held = FALSE /\ boot = "listing"
  /\ op = [c \in Caller |-> Idle]
  /\ issued = {} /\ accepted = {} /\ taken = {}
  /\ claims = [t \in Turn |-> 0]
  /\ restarts = 0

-----------------------------------------------------------------------------
(* The mirror. *)

Mem == IF cur = NoArray THEN <<>> ELSE heap[cur]

\* findIndex reads record.id of every element up to the match, so it throws on
\* a hole: a record is found only when no hole precedes it.
FoundAt(s, t, i) ==
  /\ i \in DOMAIN s /\ s[i] = t
  /\ \A j \in 1..(i - 1) : s[j] # t /\ s[j] # Hole

\* splice(i, 1): removes nothing when i is past the end.
Splice(s, i) == IF i <= Len(s) THEN RemoveAt(s, i) ELSE s
Cell(s, i)   == IF i <= Len(s) THEN s[i] ELSE Hole

\* [s[i], s[j]] = [s[j], s[i]]: a write past the end extends the array.
Swap(s, i, j) ==
  LET last == IF i > j THEN i ELSE j
      n    == IF Len(s) > last THEN Len(s) ELSE last
  IN  [k \in 1..n |-> IF k = i THEN Cell(s, j)
                      ELSE IF k = j THEN Cell(s, i) ELSE Cell(s, k)]

\* Where t is, and s without it.
At(s, t)      == CHOOSE i \in DOMAIN s : s[i] = t
Without(s, t) == IF t \in ToSet(s) THEN RemoveAt(s, At(s, t)) ELSE s

CanCall(c) == op[c] = Idle /\ (boot = "ready" \/ EarlyCalls)

-----------------------------------------------------------------------------
(* push *)

\* Mutant: the id of a push is not set apart, as if ids repeated.
PushBeginReusesIds(c, t) ==
  /\ CanCall(c) /\ t \notin issued /\ Len(Mem) < MaxQueued
  /\ op' = [op EXCEPT ![c] =
              Sent("push", t, IF cur = NoArray THEN t ELSE cur, 0, 0)]
  /\ UNCHANGED <<rows, heap, cur, held, boot, listed, issued, accepted, taken, claims,
                 restarts>>

PushBegin(c, t) ==
  /\ CanCall(c) /\ t \notin issued
  /\ Len(Mem) < MaxQueued
  /\ issued' = issued \cup {t}
  /\ op' = [op EXCEPT ![c] =
              Sent("push", t, IF cur = NoArray THEN t ELSE cur, 0, 0)]
  /\ UNCHANGED <<rows, heap, cur, held, boot, listed, accepted, taken, claims, restarts>>

\* Rows already queued under the key of push t.
SameKey(t) == {r \in ToSet(rows) : KeyOf[t] # NoKey /\ KeyOf[r] = KeyOf[t]}

\* host-core's push: a reused key returns the stored row or is a conflict, a
\* full table refuses, otherwise the row goes last.
StorePush(c) ==
  LET t      == op[c].id
      stored == SameKey(t) # {}
      fits   == IF stored THEN \A r \in SameKey(t) : InputOf[r] = InputOf[t]
                ELSE Len(rows) < MaxQueued
  IN  /\ op[c].kind = "push" /\ op[c].phase = "sent"
      /\ rows' = IF fits /\ ~stored THEN Append(rows, t) ELSE rows
      /\ op' = [op EXCEPT ![c].phase = IF fits THEN "ok" ELSE "refused"]
      /\ UNCHANGED <<heap, cur, held, boot, listed, issued, accepted, taken, claims,
                     restarts>>

\* Mutant: a new array is not put in the map.
PushReturnUnmapped(c) ==
  /\ op[c].kind = "push" /\ op[c].phase = "ok"
  /\ heap' = [heap EXCEPT ![op[c].arr] = Append(@, op[c].id)]
  /\ accepted' = accepted \cup {op[c].id}
  /\ op' = [op EXCEPT ![c] = Idle]
  /\ UNCHANGED <<rows, cur, held, boot, listed, issued, taken, claims, restarts>>

PushReturn(c) ==
  LET a == op[c].arr
  IN  /\ op[c].kind = "push" /\ op[c].phase = "ok"
      /\ heap' = [heap EXCEPT ![a] = Append(@, op[c].id)]
      /\ cur' = a
      /\ accepted' = accepted \cup {op[c].id}
      /\ op' = [op EXCEPT ![c] = Idle]
      /\ UNCHANGED <<rows, held, boot, listed, issued, taken, claims, restarts>>

-----------------------------------------------------------------------------
(* remove, and shift, which removes the head *)

\* Mutant: the record stays in memory until somebody else removes it.
RemoveBeginKeeps(c, t) ==
  /\ CanCall(c) /\ \E i \in DOMAIN Mem : FoundAt(Mem, t, i)
  /\ taken' = taken \cup {t}
  /\ op' = [op EXCEPT ![c] = Sent("remove", t, cur, 0, 0)]
  /\ UNCHANGED <<rows, heap, cur, held, boot, listed, issued, accepted, claims, restarts>>

RemoveBegin(c, t) ==
  /\ CanCall(c)
  /\ \E i \in DOMAIN Mem :
       /\ FoundAt(Mem, t, i)
       /\ heap' = [heap EXCEPT ![cur] = RemoveAt(@, i)]
       /\ cur' = IF Len(Mem) = 1 THEN NoArray ELSE cur
  /\ taken' = taken \cup {t}
  /\ op' = [op EXCEPT ![c] = Sent("remove", t, cur, 0, 0)]
  /\ UNCHANGED <<rows, held, boot, listed, issued, accepted, claims, restarts>>

ShiftBegin(c) == Mem # <<>> /\ Head(Mem) # Hole /\ RemoveBegin(c, Head(Mem))

\* Mutant: the DELETE matches no row.
StoreRemoveNothing(c) ==
  /\ op[c].kind = "remove" /\ op[c].phase = "sent"
  /\ op' = [op EXCEPT ![c].phase = "ok"]
  /\ UNCHANGED <<rows, heap, cur, held, boot, listed, issued, accepted, taken, claims,
                 restarts>>

StoreRemove(c) ==
  /\ op[c].kind = "remove" /\ op[c].phase = "sent"
  /\ rows' = Without(rows, op[c].id)
  /\ op' = [op EXCEPT ![c].phase = "ok"]
  /\ UNCHANGED <<heap, cur, held, boot, listed, issued, accepted, taken, claims, restarts>>

\* The caller now owns the record: it runs it, cancels it or steers with it.
RemoveReturn(c) ==
  /\ op[c].kind = "remove" /\ op[c].phase = "ok"
  /\ claims[op[c].id] < 2
  /\ claims' = [claims EXCEPT ![op[c].id] = @ + 1]
  /\ op' = [op EXCEPT ![c] = Idle]
  /\ UNCHANGED <<rows, heap, cur, held, boot, listed, issued, accepted, taken, restarts>>

-----------------------------------------------------------------------------
(* moveToHead: the index is read before the await and used after it *)

PrioritizeBegin(c, t) ==
  /\ CanCall(c)
  /\ \E i \in DOMAIN Mem :
       /\ FoundAt(Mem, t, i)
       /\ op' = [op EXCEPT ![c] = Sent("prioritize", t, cur, i, 0)]
  /\ UNCHANGED <<rows, heap, cur, held, boot, listed, issued, accepted, taken, claims,
                 restarts>>

StorePrioritize(c) ==
  LET t == op[c].id
      known == t \in ToSet(rows)
  IN  /\ op[c].kind = "prioritize" /\ op[c].phase = "sent"
      /\ rows' = IF known THEN <<t>> \o Without(rows, t) ELSE rows
      /\ op' = [op EXCEPT ![c].phase = IF known THEN "ok" ELSE "refused"]
      /\ UNCHANGED <<heap, cur, held, boot, listed, issued, accepted, taken, claims,
                     restarts>>

PrioritizeReturn(c) ==
  LET a == op[c].arr
      i == op[c].at
  IN  /\ op[c].kind = "prioritize" /\ op[c].phase = "ok"
      /\ heap' = [heap EXCEPT ![a] = <<Cell(@, i)>> \o Splice(@, i)]
      /\ op' = [op EXCEPT ![c] = Idle]
      /\ UNCHANGED <<rows, cur, held, boot, listed, issued, accepted, taken, claims,
                     restarts>>

-----------------------------------------------------------------------------
(* reorder: both indices are read before the await and swapped after it *)

ReorderBegin(c, t, up) ==
  /\ CanCall(c)
  /\ \E i \in DOMAIN Mem :
       LET j == IF up THEN i - 1 ELSE i + 1
       IN  /\ FoundAt(Mem, t, i) /\ j \in DOMAIN Mem
           /\ op' = [op EXCEPT ![c] = Sent("reorder", t, cur, i, j)]
  /\ UNCHANGED <<rows, heap, cur, held, boot, listed, issued, accepted, taken, claims,
                 restarts>>

\* host-core swaps with the neighbouring row; a missing row or neighbour is
\* reported, and the bridge answers true all the same.
StoreReorder(c) ==
  LET t == op[c].id
      i == At(rows, t)
      j == IF op[c].to < op[c].at THEN i - 1 ELSE i + 1
  IN  /\ op[c].kind = "reorder" /\ op[c].phase = "sent"
      /\ rows' = IF t \in ToSet(rows) /\ j \in DOMAIN rows THEN Swap(rows, i, j) ELSE rows
      /\ op' = [op EXCEPT ![c].phase = "ok"]
      /\ UNCHANGED <<heap, cur, held, boot, listed, issued, accepted, taken, claims,
                     restarts>>

ReorderReturn(c) ==
  /\ op[c].kind = "reorder" /\ op[c].phase = "ok"
  /\ heap' = [heap EXCEPT ![op[c].arr] = Swap(@, op[c].at, op[c].to)]
  /\ op' = [op EXCEPT ![c] = Idle]
  /\ UNCHANGED <<rows, cur, held, boot, listed, issued, accepted, taken, claims, restarts>>

-----------------------------------------------------------------------------
(* Failure, restart and restore *)

\* host-core refused, or was lost before or after it executed the request: the
\* promise rejects and the continuation is skipped.
CallRejects(c) ==
  /\ \/ op[c].phase = "refused"
     \/ StoreFaults /\ op[c].phase \in {"sent", "ok"}
  /\ op' = [op EXCEPT ![c] = Idle]
  /\ UNCHANGED <<rows, heap, cur, held, boot, listed, issued, accepted, taken, claims,
                 restarts>>

\* Electron Main stops and starts again: memory is gone, the table is not.
QueueRestart ==
  /\ restarts < MaxRestarts
  /\ restarts' = restarts + 1
  /\ heap' = [a \in ArrayRef |-> <<>>] /\ cur' = NoArray
  /\ held' = FALSE /\ boot' = "listing" /\ listed' = <<>>
  /\ op' = [c \in Caller |-> Idle]
  /\ UNCHANGED <<rows, issued, accepted, taken, claims>>

StoreList ==
  /\ boot = "listing"
  /\ listed' = rows /\ boot' = "listed"
  /\ UNCHANGED <<rows, heap, cur, held, op, issued, accepted, taken, claims, restarts>>

\* bySession and held are cleared, then rebuilt from what was listed.
RestoreReturn ==
  /\ boot = "listed"
  /\ heap' = [heap EXCEPT ![Boot] = listed]
  /\ cur' = IF listed = <<>> THEN NoArray ELSE Boot
  /\ held' = (listed # <<>>)
  /\ boot' = "ready" /\ listed' = <<>>
  /\ UNCHANGED <<rows, op, issued, accepted, taken, claims, restarts>>

\* A controller attached, or a turn was sent now.
Resume ==
  /\ held' = FALSE
  /\ UNCHANGED <<rows, heap, cur, boot, listed, op, issued, accepted, taken, claims,
                 restarts>>

StoreStep(c) == StorePush(c) \/ StoreRemove(c) \/ StorePrioritize(c) \/ StoreReorder(c)
ReturnStep(c) == PushReturn(c) \/ RemoveReturn(c) \/ PrioritizeReturn(c) \/ ReorderReturn(c)

QueueNext ==
  \/ \E c \in Caller, t \in Turn :
       \/ PushBegin(c, t) \/ RemoveBegin(c, t) \/ PrioritizeBegin(c, t)
       \/ \E up \in BOOLEAN : ReorderBegin(c, t, up)
  \/ \E c \in Caller : ShiftBegin(c) \/ StoreStep(c) \/ ReturnStep(c) \/ CallRejects(c)
  \/ QueueRestart \/ StoreList \/ RestoreReturn
  \/ held /\ Resume

QueueSpec == QueueInit /\ [][QueueNext]_queueVars

-----------------------------------------------------------------------------
(* Properties *)

\* "Records are kept in the injected store and mirrored in memory in arrival
\* order" (turn-queue.ts:5): between operations the mirror is the table.
Quiet == boot = "ready" /\ \A c \in Caller : op[c] = Idle
MirrorsStore == Quiet => Mem = rows

\* A record leaves the queue towards one caller only, across restarts too: the
\* prompt is not both run and steered, nor run twice.
ClaimedOnce == \A t \in Turn : claims[t] <= 1

\* A record somebody owns is no longer in the table, so no restart can restore
\* a prompt that has already been taken.
ClaimedLeftStore == \A t \in Turn : claims[t] > 0 => t \notin ToSet(rows)

\* A prompt reported as queued stays in memory until a remove or a shift takes its
\* record, and while a restart has emptied the memory it is in the table to be
\* restored.  What becomes of one that is taken is NoLossNoRepeat of AgentHost.
NothingLost ==
  \A t \in accepted \ taken :
    t \in ToSet(IF boot = "ready" THEN Mem ELSE rows)

=============================================================================
