SPECIFICATION LoopSpec
CONSTANTS
  MaxInt   = 15
  Stored   <- MCStored
  Observed <- MCObserved
  Target   <- MCTarget
  Tranches <- MCTranches
  Repeats  <- MCRepeats
INVARIANTS
  LoopTypeOK
  ReturnsAdvance
PROPERTIES
  Terminates
\* The machine stops when the function returns.
CHECK_DEADLOCK FALSE
