---------------------------- MODULE MCApprovals -----------------------------
(* Small instances of Approvals. *)
EXTENDS Approvals

CONSTANTS a, r1, r2, card1

OneSession == [c \in Call |-> "s1"]
SameTool == [c \in Call |-> "Bash"]
OneAnswerEach ==
  [r \in Responder |-> CASE r = r1 -> {"allow-session"} [] r = r2 -> {"deny"}
                         [] OTHER -> {"allow-once"}]
=============================================================================
