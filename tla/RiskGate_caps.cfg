SPECIFICATION Spec
CONSTANTS
  Symbols = {s1, s2, s3}
  History = {s1, s2}
  Correlated = {{s1, s2}}
  Prices = {4, 6}
  Levels = {5}
  StopPct = 50
  RiskBudget = 4
  Budgets = {2, 4}
  BuyingPowers = {20}
  MaxPosition = 12
  MaxOpen = 2
  MaxOpenRisk = 7
  MaxCorrRisk = 6
  MaxGross = 14
INVARIANTS WithinMaxOpen TradeRiskBounded
PROPERTIES EntriesWithinCaps ClusterWithinCap
SYMMETRY HistorySymmetry
