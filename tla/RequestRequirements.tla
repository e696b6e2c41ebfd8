------------------------ MODULE RequestRequirements ------------------------
(***************************************************************************)
(* What the handler promises about the response a client receives, and     *)
(* about the cache it fills, while the settings change under it.           *)
(***************************************************************************)
EXTENDS RequestFlow

\* An entry of the cache was converted from the whole body of its URI into the
\* format and with the quality of its key, whatever was configured meanwhile
\* (on_response_body_chunk reads the quality once, for conversion and key).
CacheMatchesKey ==
    \A d \in Dir : \A e \in store[d] :
        /\ e.image.uri = e.key.uri /\ e.image.format = e.key.format
        /\ e.key.format = "avif" => e.image.quality = e.key.quality
        /\ \E r \in Req : UriOf[r] = e.key.uri /\ e.image.chunks = [i \in 1 .. Length[r] |-> i]

\* Some part of the Accept header names the format, or a wildcard, and does not refuse.
Welcome(header, format) ==
    \E i \in DOMAIN header :
        /\ header[i].range[1] \in {"image", "*"} /\ header[i].range[2] \in {format, "*"}
        /\ Quality(header[i]) > 0

\* An image is sent in the format the client was told of, a format its Accept header
\* welcomes, and is the image of the URI it asked for.
ImageMatchesHeader ==
    \A r \in Req : stream[r].image # NoImage =>
        /\ stream[r].image.format = stream[r].header
        /\ AcceptOf[r] = <<>> \/ Welcome(AcceptOf[r], stream[r].header)
        /\ stream[r].image.uri = UriOf[r]

Original(r) == [i \in 1 .. Length[r] |-> i]

Answered(r) == Awaits(r, "answered")

\* The body fits the buffer of the request and every chunk of it decodes.
Bufferable(r) == Length[r] <= request[r].max_size /\ stream[r].why # "undecodable"

\* A client gets either an image or original chunks, never some of both; the
\* chunks come in order and once, and only their head can be missing; and none is
\* missing where the body fits the buffer and decodes.
BodyIntact ==
    \A r \in Req : Answered(r) =>
        \/ stream[r].image # NoImage /\ stream[r].chunks = <<>>
        \/ /\ stream[r].image = NoImage
           /\ \E n \in 0 .. Length[r] :
                 stream[r].chunks = SubSeq(Original(r), n + 1, Length[r])
           /\ request[r].here /\ Bufferable(r) => stream[r].chunks = Original(r)

\* A response whose headers the agent left alone keeps its body.
UntouchedUnlessCommitted ==
    \A r \in Req : Answered(r) /\ stream[r].header = NoFormat =>
        stream[r].chunks = Original(r)

\* The request_state entry of a request that completed does not come back.
StateReleased == [][\A r \in Req : request'[r].here => request[r].here \/ Awaits(r, "insert_state")]_vars

\* A request that the proxy reports complete keeps nothing: its state, with the body
\* in its buffer, leaves the map for good.
StateFreed ==
    \A r \in Req :
        WF_vars(Complete(r) /\ UNCHANGED configureVars) => <>[](~request[r].here)

\* Every response is answered to its end unless it is cut short, whatever is
\* configured meanwhile.
RequestsAnswered == \A r \in Req : <>(task[r].at \in {"answered", "complete"})

-----------------------------------------------------------------------------
(* What the repository says and the code does not keep                     *)

\* "Larger images pass through" (src/README.md:162), "unchanged" (:31), and "Graceful
\* fallback to original on any error" (src/src/lib.rs:7): a body that exceeds
\* max_input_size_bytes or does not decode reaches the client whole.
FallsBackToOriginal ==
    \A r \in Req : Answered(r) /\ stream[r].why \in {"overflow", "undecodable"} =>
        stream[r].chunks = Original(r)
=============================================================================
