SPECIFICATION Spec
CONSTANTS
  adm = adm
  usr = usr
  team = team
  admHome = admHome
  usrHome = usrHome
  c1 = c1
  c2 = c2
  Users = {adm, usr}
  GlobalAdmins = {adm}
  Shared = {team}
  Personal <- MCPersonal
  Runs <- MCRuns
  Tokens = {key}
  Cascades = TRUE
  AccessTasks = {a1, a2}
  Managed = {team}
  Sso = {sso}
  Locals = {boot, local}
  BootstrapName = boot
  OidcStates = {x1, x2}
  AccountTasks = {b1, b2}
  MaxFailures = 2
  Window = 2
  Attempts = {1, 2}
  LastTime = 6
  MaxFailed = 8
  Spaces = {team, usrHome}
  Fingerprints = {c1, c2}
  Names = {n1, n2}
  Bundles <- MCBundles
  LibraryTasks = {l1, l2}
  LastId = 3
  Hosts = {"name", "localhost", "listed"}
  LocalHosts = {"localhost"}
  BlockedHosts = {"listed"}
  Public = {"public"}
  Private = {"private"}
  Metadata = {"metadata"}
  MaxRedirects = 2
  SessionRedirects = 3
  MaxChunks = 2
SYMMETRY MCSymmetry
INVARIANTS ViewsAgree  NothingOutlivesWorkspace OneHome StateUsedOnce AdminRemains LimiterFair CommitAccounts 
CHECK_DEADLOCK FALSE
