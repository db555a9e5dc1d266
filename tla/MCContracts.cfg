SPECIFICATION Spec
CONSTANTS
  r1 = r1
  r2 = r2
  r3 = r3
  r4 = r4
  Request   = {r1, r2, r3, r4}
  Athlete   = {"everton", "rafael"}
  Nobody    = "nobody"
  Contract  = {"c1"}
  OwnerOf  <- MCOwnerOf
  Document  = {"d1", "d2"}
  Call     <- MCCall
  NoTarget  = "none"
  Unlinked  = "unlinked"
  Missing   = "missing"
INVARIANTS
  TypeOK
  RemovedStaysRemoved
  ReadsAreAudited
PROPERTIES
  TenantsAreApart
SYMMETRY Requests
\* All requests are answered, or there is no id left to give.
CHECK_DEADLOCK FALSE
