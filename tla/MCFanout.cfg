SPECIFICATION Spec
CONSTANTS
  p1 = p1
  p2 = p2
  v1 = v1
  Player     = {p1}
  Viewer     = {v1}
  Athlete    = {"everton", "rafael"}
  AthleteOf <- MCAthleteOf
  Capacity   = 1
  MaxPush    = 2
INVARIANTS
  TypeOK
  NoSendOnClosed
  OwnEventsInOrder
PROPERTIES
  FanoutFinishes
  BrokenIsCleanedUp
\* All connections have come and gone and MaxPush messages are fanned out.
CHECK_DEADLOCK FALSE
