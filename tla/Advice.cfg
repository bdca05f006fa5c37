SPECIFICATION Spec
CONSTANTS
  Strategies = {trend, reversion, breakout}
  OnByDefault = {trend}
  MaxWeight = 1
  c1 = c1
  c2 = c2
  c3 = c3
  Sources = {c1, c2, c3}
  Configured <- OneDominates
  Histories <- ThreeHistories
  MinSample = 10
  MinDelta = 20
  Rotations = {r1, r2}
  Reweights = {w1, w2}
  MaxCrashes = 1
  None = None
CONSTRAINT OneKindAtATime
INVARIANTS IInv AppliedOncePerCrash WeightKept ShiftBounded
