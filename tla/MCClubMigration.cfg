SPECIFICATION ClubSpec
CONSTANTS
  c1 = c1
  c2 = c2
  c4 = c4
  c5 = c5
  c6 = c6
  Click      = {c1}
  Player     = {"everton", "rafael"}
  About     <- MCAbout
  Seed      <- MCSeed
  UsedBefore = {1}
INVARIANTS
  AcceptedClicksCount
CHECK_DEADLOCK FALSE
