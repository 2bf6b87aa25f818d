SPECIFICATION Spec
CONSTANTS
  trips = trips
  transfers = transfers
  Nil = Nil
  Torn = Torn
  Files <- MCFiles
  MaxVersion = 2
  Contains <- MCDropped
  Faults = {}
INVARIANTS
  TierIsOneBundle
