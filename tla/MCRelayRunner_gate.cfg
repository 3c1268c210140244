\* Three or four calls of one client and at most one of another, two targets of one
\* irreversible command and one call of any other kind, a store of two tokens,
\* guarded mode with the write-ahead record, one restart.
CONSTANTS
  None = None
  c1 = c1  c2 = c2  c3 = c3  c4 = c4  alice = alice  bob = bob
  Calls = {c1, c2, c3, c4}
  Clients = {alice, bob}
  Ops <- AllOps
  ConfirmOp = "confirm"
  InfoOp = "info"
  TextOf <- MCTextOf
  TierOf <- MCTierOf
  DenyMatch = {"apt"}
  AllowMatch = {"rm_a", "rm_b", "apt"}
  Oversized = {}
  Mode = "guarded"
  ConfirmTier3 = TRUE
  AuditIntent = TRUE
  Texts <- MCTexts
  Dirs = {"", "/srv"}
  Files = {"p", "q"}
  Sizes <- MCSizes
  Specs <- MCSpecs
  HostLists <- MCHostLists
  Targets <- MCTargets
  MaxHosts = 2
  Inventory <- MCInventory
  DefaultKnownHosts = "strict"
  HostNames = {"db", "web"}
  KeyTypes = {"rsa", "ed25519"}
  PendingMax = 3
  Typed <- MCTyped
  Histories <- MCHistories
  TTL = 1
  MaxPending = 2
  MaxTime = 1
  MaxBoots = 1
SPECIFICATION Spec
CONSTRAINTS OneSideCall OneStranger
SYMMETRY CallSymmetry
INVARIANTS TypeOK ExecutionConfirmed TokenSpentOnce TrailComplete
  KeyBindsOperation ProbeSeesRun
PROPERTIES ImplementsGate ArmedSurvives
CHECK_DEADLOCK FALSE
