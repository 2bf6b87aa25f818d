SPECIFICATION Spec
CONSTANTS
  regular = regular
  special = special
  former = former
  opening = opening
  budget = budget
  amendment = amendment
  Nil = Nil
  Torn = Torn
  Meetings = {regular, special, former}
  Old = {former}
  Texts = {opening, budget, amendment}
  ItemOf <- MCItemOf
  Recorded = {budget}
  Minutes <- MCMinutes
  FileOf <- MCFileOf
  MaxFetches = 3
  Scenarios <- MCScenarios
INVARIANTS
  RowsAreOneReading
  SummaryIsOfItem
  JsonFollowsTable
PROPERTIES
  CurationIsKept
CHECK_DEADLOCK FALSE
