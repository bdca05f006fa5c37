SPECIFICATION Spec
CONSTANTS
  MaxDay = 1
  Strategies = {trend}
  PhoneTags = {}
  Orders = {o1, o2}
  Qty = 1
  MaxLevel = 2
  Modes = {"execute"}
  NoTag = NoTag
  NoOrder = NoOrder
PROPERTIES FailedProtectionHalts
