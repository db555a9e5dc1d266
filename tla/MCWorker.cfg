SPECIFICATION Spec
CONSTANTS
  Stored        = 4
  Text         <- MCText
  Hash         <- MCHash
  Poison        = {1}
  PoolSize      = 2
  Capacity      = 1
  MaxAckPending = 3
  MaxFaults     = 2
INVARIANTS
  TypeOK
  InOrderUnlessRetried
PROPERTIES
  ImplementsHandover
