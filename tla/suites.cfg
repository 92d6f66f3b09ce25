SPECIFICATION Spec
CONSTANTS
  Replies <- MCReplies
  MaxAge = 24
  OverloadRequests = 10
  NonceRequests = 3
  Setups <- MCSetups
  Urls <- MCUrls
  Plain <- MCPlain
  Suffixes = 2
  Documents <- MCDocuments
CHECK_DEADLOCK FALSE
INVARIANTS TempCertRemoved RequestsAreExact SilentNeverPasses ConformingNeverFails PublishedIsFound
PROPERTIES EngineEnds
