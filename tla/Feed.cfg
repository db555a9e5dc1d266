SPECIFICATION PageSpec
CONSTANTS
  Count     = 3
  Foreign   = {1}
  Limit     = 1
  Backlog   = 1
  MaxFaults = 2
INVARIANTS
  PageTypeOK
PROPERTIES
  FeedIsComplete
  PanelCatchesUp
\* The events are used up and the page has shown what it was sent.
CHECK_DEADLOCK FALSE
