SPECIFICATION Spec
CONSTANTS
  m1 = m1
  m2 = m2
  m3 = m3
  w1 = w1
  w2 = w2
  Milestone   = {m1, m2, m3}
  Worker      = {w1, w2}
  Athlete     = {"everton"}
  Unparsed    = "unparsed"
  NoEvent     = NoEvent
  Clause     <- MCClause
  Start      <- MCStart
  StartState <- MCStartState
  Event      <- MCEvent
  Serves     <- MCServes
  MaxTx       = 3
INVARIANTS
  TypeOK
  LocksProtect
  PayoutsMatchProgress
  ProgressIsBest
  AcknowledgedCounts
  FeedFollowsTable
  PayoutsAnnounced
PROPERTIES
  StateMovesWithProgress
  ImplementsLedger
SYMMETRY Sessions
