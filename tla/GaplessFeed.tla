----------------------------- MODULE GaplessFeed ----------------------------
(***************************************************************************)
(* What an event stream of the Agent Host promises its clients             *)
(* (docs/spec/03-runtime/19-remote-agent-control-protocol.md): a client    *)
(* reads the events of an epoch one by one, none twice and none skipped,   *)
(* and never one that was not published; the only other way forward is a   *)
(* snapshot, which takes it to the end of the stream.                      *)
(***************************************************************************)
EXTENDS Naturals

CONSTANT Client

VARIABLES
  epoch, length, \* the stream: its epoch and how many events it has
  at, atEpoch    \* the cursor of each client

feedVars == <<epoch, length, at, atEpoch>>

FeedInit ==
  /\ epoch = 0 /\ length = 0
  /\ at = [c \in Client |-> 0] /\ atEpoch = [c \in Client |-> 0]

Published == length' = length + 1 /\ UNCHANGED <<epoch, at, atEpoch>>

Restarted == epoch' = epoch + 1 /\ length' = 0 /\ UNCHANGED <<at, atEpoch>>

\* The next event; of an earlier epoch some may still be on their way.
Reads(c) ==
  /\ atEpoch[c] = epoch => at[c] < length
  /\ at' = [at EXCEPT ![c] = @ + 1]
  /\ UNCHANGED <<epoch, length, atEpoch>>

Snapshots(c) ==
  /\ at' = [at EXCEPT ![c] = length] /\ atEpoch' = [atEpoch EXCEPT ![c] = epoch]
  /\ UNCHANGED <<epoch, length>>

FeedNext == Published \/ Restarted \/ \E c \in Client : Reads(c) \/ Snapshots(c)

FeedSpec == FeedInit /\ [][FeedNext]_feedVars

=============================================================================
