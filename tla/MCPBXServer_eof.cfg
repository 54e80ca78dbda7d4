CONSTANTS
  Conns = {c1, c2}
  PBX_MAX_EXTENSIONS = 2
  NULL = NULL
  Disciplined = TRUE
  MayShutdown = FALSE
  Commands = {"pickup", "hangup", "dial", "chat"}
SPECIFICATION ServerSpec
CHECK_DEADLOCK FALSE
INVARIANT LoopEndsAtOwnEOF
