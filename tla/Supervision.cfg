SPECIFICATION SSpec
CONSTANTS
  MaxAge = 2
  Overlap = 1
  MaxGap = 2
  MaxPerDay = 1
  MaxCrashes = 1
  Torn = Torn
  None = None
INVARIANTS ResumesWithinCap CorrectionsInReach
PROPERTIES StaleHaltHeals MissedIsTold HaltIsTold
