\* Rounds, crashes, overlapping writers, empty rounds and what becomes of them.
SPECIFICATION FairSpec
CONSTANTS
  Archivers <- MCArchivers
  Seeds <- MCSeeds
  Answers <- MCAnswers
  Standalone = FALSE
  ReplacementIp = "r"
  MaxWriters = 2
CHECK_DEADLOCK FALSE
INVARIANTS
  Inv
  OnlyNamed
  SeedsAsked
PROPERTIES
  MergesByArrival
  Recovers
  Serves
