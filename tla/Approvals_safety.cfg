SPECIFICATION FairSpec
CONSTANTS
  p1 = p1
  p2 = p2
  s1 = s1
  paper = paper
  discovery = discovery
  listener = listener
  Proposals = {p1, p2}
  Emitters = {discovery}
  Cycles = {}
  Listener = listener
  MadeBy <- TwoMakers
  SymOf <- OneSymbol
  Taps <- AllTaps
  MaxUpdates = 2
  PageSize = 2
  MaxDay = 2
INVARIANTS IInv OneOrderPerProposal
PROPERTIES OnlyOverlapLosesDecisions PendingEnds
