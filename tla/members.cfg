SPECIFICATION Spec
CONSTANTS
  Users = {u1, u2}
  Requests = {q1}
  Logins = {l1}
  Tiers = {"admin", "viewer"}
PROPERTIES KeepsAdmin SyncIsExact
CHECK_DEADLOCK FALSE
