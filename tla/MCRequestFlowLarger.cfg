CONSTANTS
  r1 = r1  r2 = r2  conn1 = conn1  conn2 = conn2
  Conn = {conn1}
  Block <- MCFewBlocks
  Initial <- MCOneChunk
  Req = {r1}
  UriOf <- MCUriOf
  AcceptOf <- MCAcceptOf
  TypeOf <- MCTypeOf
  Length <- MCLength
  Pixels <- MCPixels
  Dir = {"A", "B"}
SPECIFICATION Spec
INVARIANT FallsBackToOriginal
CHECK_DEADLOCK FALSE
