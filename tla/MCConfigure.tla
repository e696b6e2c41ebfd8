---------------------------- MODULE MCConfigure ----------------------------
(* Small instances of Configure for TLC. *)
EXTENDS Configure, MCSettings
CONSTANTS conn1, conn2, conn3

MCBlocks == {OnlyWebp, AvifFirst, OtherQuality, OtherCache, CacheOff,
             SkipPhoto, Smaller, BadPattern, BadQuality, UnknownCacheKey, Unknown, NoObject}
=============================================================================
