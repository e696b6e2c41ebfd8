CONSTANTS
  k1 = k1  k2 = k2  k3 = k3
  small = small  large = large
  Key = {k1, k2}
  Proc = {p1, p2}
  Image = {small, large}
  SizeOf <- MCSizeOf
  Rendition <- MCOneRendition
  MaxSize = 3
  Ttl = 2
  Changes <- MCTighter
  Wrap = 64
  MaxClock = 1
  MaxCrashes = 1
  MaxReopens = 0
  MaxFaults = 0
  MaxPuts = 2
SYMMETRY Symmetry
SPECIFICATION Spec
INVARIANTS NeverUndercounts FirstPutHitsAreWhole
PROPERTY LastPutRestoresLimit
