SPECIFICATION LiveSpec
CONSTANTS
  b1 = b1
  t1 = t1
  t2 = t2
  s1 = s1
  r1 = r1
  Nil = Nil
  Vehicles = {b1}
  Trips = {t1, t2}
  Stops = {s1}
  Routes = {r1}
  Places <- MCPlaces
  NoFix = 0
  RouteStops <- MCRouteStops
  Near <- MCNear
  Grazing <- MCGrazing
  Crossing <- MCCrossing
  Feed <- OddFeed
  MaxBatch = 1
  MaxTime = 1
  LastDate = 2
  StaleTimeout = 1
  SweepEvery = 1
  FeedRegresses = FALSE
  Faults = {"caches"}
PROPERTIES
  StaleVisitSwept
INVARIANTS
  VisitIsRecorded
  VisitHasAssignment
