CONSTANTS
  Gateways = {g1, g2}
  Second = 2
  PageSize = 2
  SeedSize = 2
  MaxBuffer = 2
  MaxSeen = 2
  MaxEvents = 3
  MaxWire = 1
  MaxFaults = 1
SPECIFICATION Spec
INVARIANTS TypeOK NothingLost InsertedOnce ListedOnce
PROPERTIES ImplementsLog Recorded Delivered
