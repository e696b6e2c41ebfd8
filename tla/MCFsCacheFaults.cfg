CONSTANTS
  k1 = k1  k2 = k2  k3 = k3
  small = small  large = large
  Key = {k1}
  Proc = {p1, p2}
  Image = {small, large}
  SizeOf <- MCSizeOf
  Rendition <- MCChangingRendition
  MaxSize = 2
  Ttl = 0
  Changes <- MCRoomier
  Wrap = 64
  MaxClock = 2
  MaxCrashes = 0
  MaxReopens = 1
  MaxFaults = 1
  MaxPuts = 2
SPECIFICATION FairSpec
INVARIANTS TypeOK FirstPutHitsAreWhole
PROPERTIES OperationsEnd ImplementsCacheStore
