SPECIFICATION FairSpec
CONSTANTS
  trips = trips
  transfers = transfers
  Nil = Nil
  Torn = Torn
  Files <- MCFiles
  MaxVersion = 3
  Contains <- MCAll
  Faults = {"download", "extract", "stage", "derive", "save", "hash", "reload", "exit"}
INVARIANTS
  TypeOK
  TierIsOneBundle
  UnchangedIsCurrent
  CacheFollowsTier
PROPERTIES
  TimetableSpec
  CatchesUp
