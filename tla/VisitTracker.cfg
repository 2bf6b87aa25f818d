SPECIFICATION Spec
CONSTANTS
  b1 = b1
  b2 = b2
  t1 = t1
  s1 = s1
  r1 = r1
  Nil = Nil
  Vehicles = {b1, b2}
  Trips = {t1}
  Stops = {s1}
  Routes = {r1}
  Places <- MCPlaces
  NoFix = 0
  RouteStops <- MCRouteStops
  Near <- MCNear
  Grazing <- MCGrazing
  Crossing <- MCCrossing
  Feed <- SharedTripFeed
  MaxBatch = 2
  MaxTime = 1
  LastDate = 1
  StaleTimeout = 1
  SweepEvery = 2
  FeedRegresses = FALSE
  Faults = {"insert", "restart", "update"}
INVARIANTS
  TypeOK
  OpenRowIsTracked
  ExitNotBeforeEntry
PROPERTIES
  LogSpec
