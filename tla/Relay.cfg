SPECIFICATION Spec
CONSTANTS
  Batch     = 2
  MaxId     = 4
  MaxFaults = 2
INVARIANTS
  TypeOK
PROPERTIES
  NoOvertaking
  ImplementsHandover
\* BOUND: the writers stop at MaxId and the relay has nothing left to list.
CHECK_DEADLOCK FALSE
