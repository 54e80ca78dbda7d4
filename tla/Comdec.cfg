CONSTANTS
  MAX_SYMBOLS = 30
  MAX_DIGRAMS = 23
  REFCNT_MOD = 16
  MaxCut = 4
  MaxBytes = 11
  BlockSizes = {4, 6, 20}
  Inputs <- MCInputs
SPECIFICATION Spec
CHECK_DEADLOCK FALSE
INVARIANTS DigramsUnique SymbolsAccounted RoundTrip FirstBlockNeverAborts
