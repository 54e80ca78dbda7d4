CONSTANTS
  Conns = {c1, c2}
  PBX_MAX_EXTENSIONS = 2
  NULL = NULL
  Disciplined = TRUE
  MayShutdown = FALSE
SPECIFICATION Spec
CHECK_DEADLOCK FALSE
INVARIANT NoCircularWait
