SPECIFICATION Spec
CONSTANTS
  Cancels = {}
  RemoteCancels = {r1}
  Deletes = {}
  MaxOut = 1
  MaxErr = 0
  LongLines = TRUE
  MaxRestarts = 0
  MaxPeerBoots = 1
INVARIANT SupervisedRunIsFinal
CHECK_DEADLOCK FALSE
