CONSTANTS
  workers = 2
  nprobs = 2
  Types = {"trivial", "miner"}
  Addrs = {a1, a2}
  NULL = NULL
  WILD = WILD
SPECIFICATION FairSpec
CHECK_DEADLOCK FALSE
INVARIANTS TypeOK AssignsToStoppedWorkers PipesNeverBlock NoLostWakeup WorkersRestBetweenProblems CancelReachesSolvers NoStalePointers
PROPERTIES WorkerStateDiagram ImplementsDispatcher ProgramEnds
