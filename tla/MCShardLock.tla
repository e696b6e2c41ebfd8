---------------------------- MODULE MCShardLock ----------------------------
(* Small instances of ShardLock for TLC. *)
EXTENDS ShardLock
CONSTANTS r1, r2, r3, s1

\* The requests share a shard.
MCOneShard == [r \in Req |-> s1]

\* The first body comes in two chunks, the others in one.
MCChunks == [r \in Req |-> IF r = r1 THEN 2 ELSE 1]
=============================================================================
