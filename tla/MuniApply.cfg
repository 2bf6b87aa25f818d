SPECIFICATION FairSpec
CONSTANTS
  meetings = meetings
  motions = motions
  votes = votes
  accounts = accounts
  council = council
  Nil = Nil
  Files <- MCFiles
  BodOrder <- MCOrder
  Parent <- MCParent
  Joined = {votes}
  Packs = {council}
  PackOf <- MCPackOf
  Ids = {1, 2}
  Values = {1, 2}
  MaxVersion = 3
  Content <- MCContent
  LocalDevs = {FALSE, TRUE}
  Faults <- MCFaults
INVARIANTS
  GreenPackIsApplied
  SkipLeavesNothing
PROPERTIES
  StoreSpec
  Converges
