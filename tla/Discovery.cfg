SPECIFICATION PassSpec
CONSTANTS
  SourceWeights <- Shipped
  NoVote = NoVote
  Passes = {cron, phone}
  Phone = phone
  Symbols = {s1, s2}
  Configs <- SomeConfigs
  Inputs <- SomeInputs
  Nudges = {"social", "volatility"}
  TopN = 1
  MinScore = 250
INVARIANTS DuplicatesOnlyByOverlap IdeasEarned
PROPERTY PassEnds
