CONSTANTS
  k1 = k1  k2 = k2  k3 = k3
  small = small  large = large
  Key = {k1, k2}
  Proc = {p1}
  Image = {small, large}
  SizeOf <- MCSizeOf
  Rendition <- MCOneRendition
  MaxSize = 4
  Ttl = 1
  Changes <- MCLonger
  Wrap = 64
  MaxClock = 1
  MaxCrashes = 0
  MaxReopens = 1
  MaxFaults = 0
  MaxPuts = 1
SPECIFICATION Spec
INVARIANT DiskWithinLimit
