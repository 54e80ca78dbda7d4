CONSTANTS
  Conns = {c1, c2}
  PBX_MAX_EXTENSIONS = 1
  NULL = NULL
  Disciplined = TRUE
  MayShutdown = TRUE
  Commands = {"pickup", "hangup", "dial", "chat"}
SPECIFICATION FairServerSpec
CHECK_DEADLOCK FALSE
PROPERTY ShutdownCompletes
