SPECIFICATION FairSpec
CONSTANTS
  ann = ann
  bob = bob
  Sleep = Sleep
  Nil = Nil
  Clients = {ann, bob}
  Buffer = 2
  MaxTime = 2
  MaxNights = 1
  Faults = {"fetch"}
INVARIANTS
  BehindOnlyIfMissed
PROPERTIES
  NeverGoesBack
  NightIsShown
