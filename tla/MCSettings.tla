----------------------------- MODULE MCSettings -----------------------------
(* Settings and config { } blocks for small instances. *)

\* Formats in priority order, caching on, bodies of up to two chunks.
MCInitial == [formats |-> <<"webp", "avif">>, quality |-> [webp |-> 80, avif |-> 70],
              cache |-> [enabled |-> TRUE, directory |-> "A"],
              passthrough |-> {}, content_types |-> {"jpeg", "png"},
              max_input_size |-> 2, max_pixels |-> 9]

OnlyWebp == [formats |-> <<"webp">>]
AvifFirst == [formats |-> <<"avif", "webp">>]
OtherQuality == [quality |-> [avif |-> 60]]
OtherCache == [cache |-> [directory |-> "B"]]
CacheOff == [cache |-> [enabled |-> FALSE]]
SkipPhoto == [passthrough |-> {"photo"}]
Smaller == [max_input_size |-> 1]
FewPixels == [max_pixels |-> 4]
OnlyPng == [content_types |-> {"png"}]
NoTypes == [content_types |-> {}]
NoObject == [scalar |-> "webp"]
BadPattern == [passthrough |-> {"photo", "no regex"}]
BadQuality == [quality |-> [webp |-> 0]]
UnknownCacheKey == [cache |-> [ttl |-> 5]]
Unknown == [fromats |-> <<"webp">>]
=============================================================================
