SPECIFICATION Spec
CONSTANTS
  home = home
  centre = centre
  mall = mall
  lake = lake
  East = East
  West = West
  South = South
  Origin = Origin
  Nil = Nil
  Stops <- MCStops
  Routes = {East, West, South}
  Trips <- MCTrips
  Rounds = 3
  Infinity = 60
  Plans <- MCPlans
  Base <- MCBase
  Minute = 2
  Day = 18
  Metre = 3
  Pace = 2
  MaxWalk = 8
  Least = 3
  Saving = 2
INVARIANTS
  LabelsAreJourneys
  WaysLeadBack
  ItinerariesAreRidable
  NoneEarlier
  GoodWayIsOffered
CHECK_DEADLOCK FALSE
