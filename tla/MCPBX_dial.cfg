CONSTANTS
  Conns = {c1, c2}
  PBX_MAX_EXTENSIONS = 3
  NULL = NULL
  Disciplined = FALSE
  MayShutdown = FALSE
SPECIFICATION Spec
CHECK_DEADLOCK FALSE
PROPERTY DialKeepsCall
