--------------------------- MODULE MCRequestFlow ---------------------------
(* Small instances of the request pipeline for TLC. *)
EXTENDS RequestRequirements, MCSettings
CONSTANTS r1, r2, conn1, conn2

\* Two requests for one image: r1 accepts AVIF and refuses WebP, r2 accepts both,
\* AVIF only through a wildcard.
MCUriOf == [r \in Req |-> "photo"]
MCAcceptOf == [r \in Req |->
    IF r = r1 THEN <<Part("image", "avif", <<>>), Part("image", "webp", <<Number(0)>>)>>
              ELSE <<Part("image", "webp", <<Number(800)>>), Part("*", "*", <<Text>>)>>]
MCTypeOf == [r \in Req |-> "jpeg"]
MCLength == [r \in Req |-> IF r = r1 THEN 2 ELSE 1]
MCPixels == [r \in Req |-> 9]

\* A body of two chunks exceeds the buffer with the second.
MCOneChunk == [MCInitial EXCEPT !.max_input_size = 1]

MCBlocks == {OnlyWebp, OtherQuality, SkipPhoto, CacheOff, Smaller, OnlyPng, FewPixels}
MCFewBlocks == {OnlyWebp, OtherQuality, Smaller}
=============================================================================
