---------------------------- MODULE QueueOverlap ----------------------------
(***************************************************************************)
(* The turn queue with a history variable that tells the behaviours apart  *)
(* in which every call met the queue as it had left it from the others, in *)
(* which nothing overlapped, failed or was repeated.  What the mirror      *)
(* promises of the table, it keeps only in those.                          *)
(***************************************************************************)
EXTENDS TurnQueue

VARIABLE disturbed \* history: two calls overlapped, one failed, or one
                   \* repeated the key of a queued prompt

overlapVars == <<queueVars, disturbed>>

InFlight(calls) == {c \in Caller : calls[c] # Idle}

\* A push presents the key of a queued prompt: the host answers with the row
\* that is there, and the mirror gets the record that is not.
Repeats(c) == op[c].kind = "push" /\ op[c].phase = "sent" /\ SameKey(op[c].id) # {}

Disturbing ==
  \/ Cardinality(InFlight(op')) > 1
  \/ \E c \in Caller : CallRejects(c) \/ (Repeats(c) /\ StorePush(c))

OverlapInit == QueueInit /\ disturbed = FALSE
OverlapNext == QueueNext /\ disturbed' = (disturbed \/ Disturbing)
OverlapSpec == OverlapInit /\ [][OverlapNext]_overlapVars

-----------------------------------------------------------------------------
(* Properties *)

\* "Records are kept in the injected store and mirrored in memory in arrival
\* order" (turn-queue.ts:5-6): between operations that did not disturb each
\* other the mirror is the table, restarts and restores included, and a prompt
\* reported as queued stays until a remove takes it.  Two first pushes that
\* overlap leave a row the mirror has lost (turn-queue.ts:68).
SoundUndisturbed == ~disturbed => MirrorsStore /\ NothingLost

=============================================================================
