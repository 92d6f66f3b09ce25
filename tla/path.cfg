SPECIFICATION Spec
CONSTANTS
  EndEntities <- MCEndEntities
  Issuers <- MCIssuers
  Anchors <- MCAnchors
  AnchorFiles <- MCAnchorFiles
  Served <- MCServed
  Selections <- MCSelections
  Urls = {"u1", "u2"}
  MaxDepth = 2
INVARIANTS DiscoverySound PassIsTrusted ValidChainPasses VerdictsAgree
CHECK_DEADLOCK FALSE
