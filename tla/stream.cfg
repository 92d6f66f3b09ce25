SPECIFICATION Spec
CONSTANTS
  Clients = {k1, k2}
  Limit = 1
  MaxDrops = 1
  MaxSeq = 2
INVARIANTS ShownIsPrefix
PROPERTIES EveryEventShown
CHECK_DEADLOCK FALSE
