SPECIFICATION Spec
CONSTANTS
  Cyclers = {cron}
  Executing = {cron}
  Entries = {e1, e2}
  Listener = listener
  Healer = healer
  NoEntry = NoEntry
  Free = Free
SYMMETRY EntrySymmetry
INVARIANTS HealerClearsWhatItVerified
PROPERTIES BreakerHaltsStick
