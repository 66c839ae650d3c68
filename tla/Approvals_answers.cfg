SPECIFICATION ApprovalLiveSpec
CONSTANTS
  a = a  r1 = r1  r2 = r2  card1 = card1
  Call = {a}
  SessionOf <- OneSession
  ToolOf <- SameTool
  Shell = {a}
  Verdicts = {"ask", "allow-once", "deny"}
  Responder = {r1, r2, card1}
  Remote = {r1, r2}
  Answers <- OneAnswerEach
CHECK_DEADLOCK FALSE
INVARIANTS ApprovalInv AcceptedIsObeyed AbortedNeverRuns FirstDecisionWins ClosedUnlessSlipped
PROPERTIES EveryCallEnds
