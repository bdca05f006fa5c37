SPECIFICATION FairSpec
CONSTANTS
  Cyclers = {cron, listener}
  Executing = {cron}
  Entries = {e1, e2}
  Listener = listener
  Healer = healer
  NoEntry = NoEntry
  Free = Free
PROPERTIES MutualExclusion OnlyStaleLosesRecords LostIsNoticed
