SPECIFICATION FairSpec
CONSTANTS
  bus = bus
  extra = extra
  detour = detour
  Nil = Nil
  Feeds = {"trips", "alerts", "vehicles"}
  Items = {bus, extra, detour}
  Stamps <- MCStamps
  Contents <- MCContents
  Catalog <- MCCatalog
  Interval = 1
  MaxCrashes = 1
  Scenarios <- MCScenarios
INVARIANTS
  NoticesBeforeState
  GapsAreTheHoles
  RowsHaveContext
PROPERTIES
  DelaysNeverGoBack
  NoticesAreStored
