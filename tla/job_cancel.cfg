SPECIFICATION Spec
CONSTANTS
  Cancels = {c1}
  RemoteCancels = {}
  Deletes = {}
  MaxOut = 1
  MaxErr = 1
  LongLines = TRUE
  MaxRestarts = 1
  MaxPeerBoots = 0
INVARIANTS LogDense SupervisedRunIsFinal StuckOnlyIfRaised WorkerReachable CompletedIsWhole TerminalEventLast
CHECK_DEADLOCK FALSE
