CONSTANTS
  BUCKETS = 2
  EXTEND = 2
  MaxOpen = 7
  Jobs <- MCJobs
SPECIFICATION Spec
CHECK_DEADLOCK FALSE
INVARIANTS FilesCountedOnce FiguresBelongToTheirLine BranchesGoOn
