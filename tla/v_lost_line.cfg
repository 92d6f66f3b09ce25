SPECIFICATION Spec
CONSTANTS
  Cancels = {}
  RemoteCancels = {}
  Deletes = {}
  MaxOut = 1
  MaxErr = 1
  LongLines = FALSE
  MaxRestarts = 0
  MaxPeerBoots = 0
INVARIANTS EveryLinePersisted
CHECK_DEADLOCK FALSE
