CONSTANTS
  r1 = r1  r2 = r2  r3 = r3  s1 = s1
  Req = {r1, r2, r3}
  Worker = {w1, w2}
  Shard = {s1}
  ShardOf <- MCOneShard
  Chunks <- MCChunks
SPECIFICATION FairSpec
PROPERTY RequestsEnd
CHECK_DEADLOCK FALSE
