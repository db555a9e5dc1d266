SPECIFICATION Spec
CONSTANTS
  m1 = m1
  m2 = m2
  Milestone   = {m1, m2}
  Athlete     = {"everton"}
  Unparsed    = "unparsed"
  Clause     <- MCClause
  Start      <- MCStart
  StartState <- MCStartState
  Event      <- MCEvent
INVARIANTS
  TypeOK
  PaidAsAccepted
PROPERTIES
  AcceptedIsCounted
\* A system that has handled everything has nothing to do.
CHECK_DEADLOCK FALSE
