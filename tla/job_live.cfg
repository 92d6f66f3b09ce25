SPECIFICATION FairSpec
CONSTANTS
  Cancels = {}
  RemoteCancels = {}
  Deletes = {d1}
  MaxOut = 1
  MaxErr = 0
  LongLines = TRUE
  MaxRestarts = 0
  MaxPeerBoots = 0
PROPERTIES ImplementsRunLog  EscalationKills SupervisionEnds
CHECK_DEADLOCK FALSE
