SPECIFICATION Spec
CONSTANTS
  meetings = meetings
  motions = motions
  votes = votes
  accounts = accounts
  council = council
  Nil = Nil
  Files <- MCFiles
  BodOrder <- MCOrder
  Parent <- MCParent
  Joined = {votes}
  Packs = {council}
  PackOf <- MCPackOf
  Ids = {1, 2}
  Values = {1, 2}
  MaxVersion = 1
  Content <- MCOne
  LocalDevs = {FALSE}
  Faults <- MCLost
INVARIANTS
  LoggedIsLoaded
