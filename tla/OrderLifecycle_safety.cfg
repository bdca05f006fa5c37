SPECIFICATION Spec
CONSTANTS
  MaxDay = 1
  Strategies = {trend, breakout}
  PhoneTags = {p1}
  Orders = {o1, o2, o3}
  Qty = 2
  MaxLevel = 2
  Modes = {"execute", "propose"}
  NoTag = NoTag
  NoOrder = NoOrder
SYMMETRY IdSymmetry
INVARIANTS OpenHasItsStop OneStopPerEntry RestsAtLeastCurrent 
PROPERTIES RestingStopNeverLowered
