CONSTANTS
  k1 = k1  k2 = k2  k3 = k3
  small = small  large = large
  Key = {k1, k2, k3}
  Proc = {p1}
  Image = {small, large}
  SizeOf <- MCSizeOf
  Rendition <- MCChangingRendition
  MaxSize = 4
  Ttl = 1
  Changes = {}
  Wrap = 64
  MaxClock = 4
  MaxCrashes = 0
  MaxReopens = 0
  MaxFaults = 0
  MaxPuts = 3
SPECIFICATION Spec
INVARIANTS CounterExact CounterWithinLimit FilesPaired
PROPERTIES EvictsOnlyWhenFull EvictsOldestFirst
