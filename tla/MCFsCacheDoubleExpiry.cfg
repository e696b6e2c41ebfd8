CONSTANTS
  k1 = k1  k2 = k2  k3 = k3
  small = small  large = large
  Key = {k1}
  Proc = {p1, p2}
  Image = {small, large}
  SizeOf <- MCSizeOf
  Rendition <- MCOneRendition
  MaxSize = 4
  Ttl = 0
  Changes = {}
  Wrap = 64
  MaxClock = 2
  MaxCrashes = 0
  MaxReopens = 0
  MaxFaults = 0
  MaxPuts = 1
SPECIFICATION Spec
INVARIANT CountsOnlyStoredBytes
