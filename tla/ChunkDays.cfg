SPECIFICATION FairSpec
CONSTANTS
  morning = morning
  evening = evening
  line = line
  Nil = Nil
  Units <- MCUnits
  RouteOf <- MCRouteOf
  Place <- MCPlace
  Calendars <- MCCalendars
  Cancelled = {}
  LastDay = 2
  Window = 1
  MaxObserved <- MCMaxObserved
  Asked = {1}
  Faults = {"build", "read", "exit", "tool"}
INVARIANTS
  TypeOK
  CacheIsTable
PROPERTIES
  BackfillLeavesNone
  NeverGoesBack
  TodayIsShown
