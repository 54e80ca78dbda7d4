CONSTANTS
  Conns = {c1, c2, c3}
  PBX_MAX_EXTENSIONS = 2
  NULL = NULL
  Disciplined = FALSE
  MayShutdown = TRUE
SPECIFICATION Spec
SYMMETRY Symmetry
CHECK_DEADLOCK FALSE
INVARIANTS TypeOK MutexesHeld RegistryOK ExitSemaphores
PROPERTIES WritesUnderMutex RefusedOnlyWhenFull
