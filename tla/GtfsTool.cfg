SPECIFICATION Spec
CONSTANTS
  trips = trips
  transfers = transfers
  Nil = Nil
  Torn = Torn
  Files <- MCFiles
  MaxVersion = 2
  Contains <- MCAll
  Faults = {"tool", "extract"}
INVARIANTS
  TierIsOneBundle
