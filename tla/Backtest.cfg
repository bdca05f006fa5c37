SPECIFICATION Spec
CONSTANTS
  AlignTrend = FALSE
  NumSymbols = 2
  Days = 5
  NumFolds = 2
  Prices = {8, 10, 12}
  Ratchet <- Configured
  Atr = 1
  MaxOpen = 1
  NoShorts = {2}
  None = None
INVARIANTS FoldIsolated SlotsBounded StopFollowsBest NotSpent
CHECK_DEADLOCK FALSE
