CONSTANTS
  r1 = r1  r2 = r2  conn1 = conn1  conn2 = conn2
  Conn = {conn1}
  Block <- MCBlocks
  Initial <- MCInitial
  Req = {r1, r2}
  UriOf <- MCUriOf
  AcceptOf <- MCAcceptOf
  TypeOf <- MCTypeOf
  Length <- MCLength
  Pixels <- MCPixels
  Dir = {"A", "B"}
SPECIFICATION FairSpec
INVARIANTS CacheMatchesKey ImageMatchesHeader BodyIntact UntouchedUnlessCommitted
PROPERTIES StateFreed RequestsAnswered
CHECK_DEADLOCK FALSE
