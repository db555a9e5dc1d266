SPECIFICATION Spec
CONSTANTS
  m1 = m1
  m2 = m2
  m3 = m3
  w1 = w1
  w2 = w2
  Milestone   = {m1}
  Worker      = {w1, w2}
  Athlete     = {"everton"}
  Unparsed    = "unparsed"
  NoEvent     = NoEvent
  Clause     <- OneClause
  Start      <- FromZero
  StartState <- FromHot
  Event      <- TwoSpellings
  Serves     <- TwoGoroutines
  MaxTx       = 3
INVARIANTS
  HistoryIsOrdered
\* BOUND: at MaxTx transactions there is nothing left to do.
CHECK_DEADLOCK FALSE
