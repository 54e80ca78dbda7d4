CONSTANTS
  Conns = {c1, c2, c3}
  PBX_MAX_EXTENSIONS = 3
  NULL = NULL
  Disciplined = TRUE
  MayShutdown = FALSE
SPECIFICATION Spec
SYMMETRY Symmetry
CHECK_DEADLOCK FALSE
INVARIANTS CallsPaired NoDanglingBuddy ClientsKnowTheirState ChatOnlyToPeer LockUpsAreDialersOrPeers
PROPERTIES ImplementsExchange
