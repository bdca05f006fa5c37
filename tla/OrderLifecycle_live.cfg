SPECIFICATION FairSpec
CONSTANTS
  MaxDay = 2
  Strategies = {trend}
  PhoneTags = {}
  Orders = {o1, o2}
  Qty = 2
  MaxLevel = 2
  Modes = {"execute", "propose"}
  NoTag = NoTag
  NoOrder = NoOrder
INVARIANT OnlyReroutedDoubles
PROPERTIES NakedIsNoticed ExposureIsNoticed
