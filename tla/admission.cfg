SPECIFICATION FairSpec
CONSTANTS
  Creates = {a, b}
  Reruns = {x}
  Slots = {good}
  Limit = 1
  RunTime = 1
  Retention = 2
INVARIANTS ActiveKeepsFiles
PROPERTIES LeftoversRemoved
CHECK_DEADLOCK FALSE
