CONSTANTS
  Projects <- MCProjects
  Runs = {"a", "b", "c"}
  Records <- MCRecords
  Worlds <- MCWorlds
  Feedback <- MCFeedback
  Callers = {c1, c2}
  Queries <- MCQueries
  Bucket = 2
  Chunk = 1
  Bounds <- MCBounds
  None = None
SPECIFICATION Spec
SYMMETRY CallerSymmetry
INVARIANTS RollupsAnswerLikeTheScan ScansCountThePlan LoneCallsLeaveTheRollupsRight
CHECK_DEADLOCK FALSE
