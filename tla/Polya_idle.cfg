CONSTANTS
  workers = 2
  nprobs = 2
  Types = {"trivial", "miner"}
  Addrs = {a1, a2}
  NULL = NULL
  WILD = WILD
SPECIFICATION Spec
CHECK_DEADLOCK FALSE
INVARIANT IdleMeansNoResult
