SPECIFICATION Spec
CONSTANTS
  r1 = r1
  r2 = r2
  r3 = r3
  r4 = r4
  r5 = r5
  r6 = r6
  Request  = {r1, r2, r3, r4, r5, r6}
  EventId  = {"e1", "e2"}
  Names   <- MCNames
  Stamp   <- MCStamp
  Verdict <- MCVerdict
  Started     = 12
  MaxNow      = 13
  SecondMax   = 127
  Epoch       = 8
  DurationMax = 15
  MaxSkew     = 2
INVARIANTS
  TypeOK
  OneRowPerEvent
  AnswersAreDurable
  AcceptedInWindow
PROPERTIES
  EveryRequestAnswered
\* All requests are answered in the end.
CHECK_DEADLOCK FALSE
