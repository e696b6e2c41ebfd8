---------------------------- MODULE RequestFlow ----------------------------
(***************************************************************************)
(* The request pipeline of src/src/handler.rs: what ImageOptAgent does     *)
(* with the events of a request, between one await and the next, while     *)
(* Configure events change the settings it reads.                          *)
(*                                                                         *)
(* The proxy sends the events of one request in order, each after the      *)
(* answer to the one before: RequestHeaders, ResponseHeaders, the chunks   *)
(* of the body, and RequestComplete, which may cut the others short.       *)
(*                                                                         *)
(* Bytes are abstract: a chunk is its index in the body and counts one     *)
(* against max_input_size; an image is what it was converted from and how. *)
(* The cache is the interface CacheStore: a get may miss at any time (an   *)
(* eviction, an expiry, a read error) and a put may fail.                  *)
(***************************************************************************)
EXTENDS Configure

CONSTANTS
    Req,        \* correlation ids
    UriOf,      \* [Req -> URIs]
    AcceptOf,   \* [Req -> Accept header, as in Negotiation]
    TypeOf,     \* [Req -> the Content-Type of the response]
    Length,     \* [Req -> Nat \ {0}]: the number of chunks of the response
    Pixels,     \* [Req -> Nat]: width times height of the image in it
    Dir         \* the cache directories the settings may name

NoImage == [none |-> TRUE]

ASSUME LengthAssumption == Length \in [Req -> Nat \ {0}] /\ Pixels \in [Req -> Nat]

\* Dir has every directory that the settings or the blocks name.
ASSUME DirAssumption ==
    /\ NoCache \notin Dir /\ Initial.cache.directory \in Dir
    /\ \A value \in Block : "cache" \in DOMAIN value /\ "directory" \in DOMAIN value.cache =>
          value.cache.directory \in Dir

VARIABLES
    request,    \* [Req -> request_state entry of the request]
    task,       \* [Req -> where its handler is and the locals it holds]
    stream,     \* [Req -> the response as the client sees it]
    store       \* [directory -> entries of the cache kept there]

requestVars == <<request, task, stream, store>>
vars == <<configureVars, requestVars>>

\* RequestState; uri and accept_header are UriOf and AcceptOf.
Absent == [here |-> FALSE, eligible |-> FALSE, target |-> NoFormat,
           hit |-> NoImage, buffer |-> <<>>, max_size |-> 0]

\* at: the next event the request waits for, or the next step of its handler.
Start == [at |-> "request_headers", eligible |-> FALSE, target |-> NoFormat,
          quality |-> 0, max_pixels |-> 0, body |-> <<>>]

\* header: the Content-Type the agent committed; chunks: the original chunks the
\* client got, in order; next: the chunk the proxy sends next; why: how the
\* handler came to send original bytes after it had committed to a format.
Unsent == [header |-> NoFormat, chunks |-> <<>>, image |-> NoImage, next |-> 1, why |-> "none"]

RequestInit ==
    /\ request = [r \in Req |-> Absent]
    /\ task = [r \in Req |-> Start]
    /\ stream = [r \in Req |-> Unsent]
    /\ store = [d \in Dir |-> {}]

Awaits(r, place) == task[r].at = place

Proceed(r, place) == task' = [task EXCEPT ![r].at = place]

-----------------------------------------------------------------------------
(* on_request_headers                                                      *)

\* The passthrough patterns are read first, max_input_size_bytes after them.
MatchPatterns(r) ==
    /\ Awaits(r, "request_headers")
    /\ task' = [task EXCEPT ![r].at = "insert_state", ![r].eligible = UriOf[r] \notin patterns]
    /\ UNCHANGED <<request, stream, store>>

InsertState(r) ==
    /\ Awaits(r, "insert_state")
    /\ request' = [request EXCEPT ![r] =
                     [Absent EXCEPT !.here = TRUE, !.eligible = task[r].eligible,
                                    !.max_size = config.max_input_size]]
    /\ Proceed(r, "response_headers")
    /\ UNCHANGED <<stream, store>>

(* on_response_headers                                                     *)

Negotiated(r) == NegotiateFormat(AcceptOf[r], config.formats)

\* The state lock is held and config read-locked until the format is chosen.
LetThrough(r) ==
    /\ Awaits(r, "response_headers")
    /\ request' = [request EXCEPT ![r].eligible = FALSE]
    /\ Proceed(r, "body")
    /\ UNCHANGED <<stream, store>>

Optimizable(r) == request[r].eligible /\ TypeOf[r] \in config.content_types

\* Any response may have a status other than 200.
NotOk(r) == LetThrough(r)

\* A URI that was passed through, or a Content-Type that is not configured.
NotEligible(r) == ~Optimizable(r) /\ LetThrough(r)

NotAcceptable(r) == Optimizable(r) /\ Negotiated(r) = NoFormat /\ LetThrough(r)

Negotiate(r) ==
    /\ Awaits(r, "response_headers")
    /\ Optimizable(r) /\ Negotiated(r) # NoFormat
    /\ request' = [request EXCEPT ![r].target = Negotiated(r)]
    /\ task' = [task EXCEPT ![r].at = "lookup", ![r].quality = config.quality[Negotiated(r)]]
    /\ UNCHANGED <<stream, store>>

CacheKey(r, format, quality) == [uri |-> UriOf[r], format |-> format, quality |-> quality]

\* Mutant: the key leaves the format out.
HitsOfUri(key) ==
    IF cache = NoCache THEN {} ELSE {e.image : e \in {e \in store[cache] : e.key.uri = key.uri}}

Hits(key) ==
    IF cache = NoCache THEN {} ELSE {e.image : e \in {e \in store[cache] : e.key = key}}

\* cache.get, then the header changes are answered: from here on the client has
\* been told the target format.
Lookup(r) ==
    /\ Awaits(r, "lookup")
    /\ \E hit \in {NoImage} \cup Hits(CacheKey(r, request[r].target, task[r].quality)) :
         request' = [request EXCEPT ![r].hit = hit]
    /\ stream' = [stream EXCEPT ![r].header = request[r].target]
    /\ Proceed(r, "body")
    /\ UNCHANGED store

(* on_response_body_chunk                                                  *)

IsLast(r) == stream[r].next = Length[r]

\* The answer to a chunk: where the handler goes and what it sends the client.
Answer(r, sent) ==
    /\ stream' = [stream EXCEPT ![r] = [sent EXCEPT !.next = @ + 1]]
    /\ Proceed(r, IF IsLast(r) THEN "answered" ELSE "body")

PassThrough(r) == [stream[r] EXCEPT !.chunks = Append(@, stream[r].next)]

\* Mutant: only the last chunk of a response that is not optimized is passed on.
PassLastChunk(r) ==
    /\ Awaits(r, "body")
    /\ ~request[r].eligible
    /\ Answer(r, IF IsLast(r) THEN PassThrough(r) ELSE stream[r])
    /\ UNCHANGED <<request, store>>

\* A request that is not eligible, or no longer.
PassChunk(r) ==
    /\ Awaits(r, "body")
    /\ ~request[r].eligible
    /\ Answer(r, PassThrough(r))
    /\ UNCHANGED <<request, store>>

\* A cache hit: the chunks of the origin are dropped, the last one is replaced.
ServeCached(r) ==
    /\ Awaits(r, "body")
    /\ request[r].eligible /\ request[r].hit # NoImage
    /\ Answer(r, IF IsLast(r) THEN [stream[r] EXCEPT !.image = request[r].hit] ELSE stream[r])
    /\ UNCHANGED <<request, store>>

ToBuffer(r) == Awaits(r, "body") /\ request[r].eligible /\ request[r].hit = NoImage

\* ChunkBuffer::append refuses what would exceed max_size.
Fits(r) == Len(request[r].buffer) + 1 <= request[r].max_size

\* Stop optimizing and pass the chunk on: it does not fit, or is no base64.
StopBuffering(r, why) ==
    /\ ToBuffer(r)
    /\ request' = [request EXCEPT ![r].eligible = FALSE]
    /\ Answer(r, [PassThrough(r) EXCEPT !.why = why])
    /\ UNCHANGED store

Overflows(r) == ~Fits(r) /\ StopBuffering(r, "overflow")

Undecodable(r) == StopBuffering(r, "undecodable")

BufferChunk(r) ==
    /\ ToBuffer(r) /\ ~IsLast(r)
    /\ Fits(r)
    /\ request' = [request EXCEPT ![r].buffer = Append(@, stream[r].next)]
    /\ Answer(r, stream[r])
    /\ UNCHANGED store

\* The last chunk: take the body and release the state.
TakeBody(r) ==
    /\ ToBuffer(r) /\ IsLast(r)
    /\ Fits(r)
    /\ request' = [request EXCEPT ![r].buffer = <<>>]
    /\ task' = [task EXCEPT ![r].at = "read_quality",
                            ![r].target = request[r].target,
                            ![r].body = Append(request[r].buffer, stream[r].next)]
    /\ UNCHANGED <<stream, store>>

ReadQuality(r) ==
    /\ Awaits(r, "read_quality")
    /\ task' = [task EXCEPT ![r].at = "read_limit", ![r].quality = config.quality[task[r].target]]
    /\ UNCHANGED <<request, stream, store>>

\* config is locked a second time for max_pixel_count.
ReadLimit(r) ==
    /\ Awaits(r, "read_limit")
    /\ task' = [task EXCEPT ![r].at = "find_converter", ![r].max_pixels = config.max_pixels]
    /\ UNCHANGED <<request, stream, store>>

SendOriginal(r, why) ==
    Answer(r, [stream[r] EXCEPT !.chunks = @ \o task[r].body, !.why = why])

\* Mutant: without a converter only the chunk at hand is sent, not the body.
FindConverterOrPass(r) ==
    /\ Awaits(r, "find_converter")
    /\ IF task[r].target \in converters
         THEN Proceed(r, "convert") /\ UNCHANGED stream
         ELSE Answer(r, PassThrough(r))
    /\ UNCHANGED <<request, store>>

\* Mutant: without a converter the request waits for one.
FindConverterOrWait(r) ==
    /\ Awaits(r, "find_converter")
    /\ task[r].target \in converters
    /\ Proceed(r, "convert")
    /\ UNCHANGED <<request, stream, store>>

FindConverter(r) ==
    /\ Awaits(r, "find_converter")
    /\ IF task[r].target \in converters
         THEN Proceed(r, "convert") /\ UNCHANGED stream
         ELSE SendOriginal(r, "no converter")
    /\ UNCHANGED <<request, store>>

\* The bytes are no image, or do not encode, or the conversion panics.
ConversionFails(r) ==
    /\ Awaits(r, "convert")
    /\ SendOriginal(r, "conversion")
    /\ UNCHANGED <<request, store>>

\* Both converters check the pixels of the decoded image before they encode it.
TooLarge(r) ==
    /\ Awaits(r, "convert")
    /\ Pixels[r] > task[r].max_pixels
    /\ SendOriginal(r, "pixels")
    /\ UNCHANGED <<request, store>>

Convert(r) ==
    /\ Awaits(r, "convert")
    /\ Pixels[r] <= task[r].max_pixels
    /\ Proceed(r, "store")
    /\ UNCHANGED <<request, stream, store>>

\* AVIF is encoded with the quality of the settings, WebP always without loss.
Lossless == 0
EncoderQuality(format, quality) == IF format = "webp" THEN Lossless ELSE quality

Optimized(r) == [uri |-> UriOf[r], format |-> task[r].target,
                 quality |-> EncoderQuality(task[r].target, task[r].quality),
                 chunks |-> task[r].body]

\* Mutant: the key is made with the quality configured after the conversion.
StoredLate(r) ==
    LET key == CacheKey(r, task[r].target, config.quality[task[r].target]) IN
    [store EXCEPT ![cache] = {e \in @ : e.key # key} \cup {[key |-> key, image |-> Optimized(r)]}]

\* cache.put under the key of this conversion, which replaces the entry of that
\* key; a failed put is only logged.
Stored(r) ==
    LET key == CacheKey(r, task[r].target, task[r].quality) IN
    [store EXCEPT ![cache] = {e \in @ : e.key # key} \cup {[key |-> key, image |-> Optimized(r)]}]

\* Mutant: the request's state is put back after the conversion.
StoreAndRestore(r) ==
    /\ Awaits(r, "store")
    /\ store' \in {store} \cup IF cache = NoCache THEN {} ELSE {Stored(r)}
    /\ Answer(r, [stream[r] EXCEPT !.image = Optimized(r)])
    /\ request' = [request EXCEPT ![r].here = TRUE]

Store(r) ==
    /\ Awaits(r, "store")
    /\ store' \in {store} \cup IF cache = NoCache THEN {} ELSE {Stored(r)}
    /\ Answer(r, [stream[r] EXCEPT !.image = Optimized(r)])
    /\ UNCHANGED request

(* on_request_complete: the response ended or the client went away.  It     *)
(* waits for a handler that holds the state, not for one that converts.     *)

Converting(r) ==
    task[r].at \in {"read_quality", "read_limit", "find_converter", "convert", "store"}

\* Mutant: the state of a request that was let through stays.
CompleteOptimized(r) ==
    /\ task[r].at \in {"response_headers", "body", "answered"} \/ Converting(r)
    /\ request[r].here
    /\ request' = IF request[r].eligible THEN [request EXCEPT ![r] = Absent] ELSE request
    /\ IF Converting(r) THEN UNCHANGED task ELSE Proceed(r, "complete")
    /\ UNCHANGED <<stream, store>>

Complete(r) ==
    /\ task[r].at \in {"response_headers", "body", "answered"} \/ Converting(r)
    /\ request[r].here
    /\ request' = [request EXCEPT ![r] = Absent]
    /\ IF Converting(r) THEN UNCHANGED task ELSE Proceed(r, "complete")
    /\ UNCHANGED <<stream, store>>

-----------------------------------------------------------------------------
HandlerStep(r) ==
    \/ MatchPatterns(r) \/ InsertState(r)
    \/ NotOk(r) \/ NotEligible(r) \/ NotAcceptable(r) \/ Negotiate(r) \/ Lookup(r)
    \/ PassChunk(r) \/ ServeCached(r)
    \/ Overflows(r) \/ Undecodable(r) \/ BufferChunk(r) \/ TakeBody(r)
    \/ ReadQuality(r) \/ ReadLimit(r) \/ FindConverter(r)
    \/ ConversionFails(r) \/ TooLarge(r) \/ Convert(r) \/ Store(r)

Init == ConfigureInit /\ RequestInit

Next ==
    \/ ConfigureNext /\ UNCHANGED requestVars
    \/ \E r \in Req : (HandlerStep(r) \/ Complete(r)) /\ UNCHANGED configureVars

Spec == Init /\ [][Next]_vars

\* Handlers and Configures are polled until they return, and the proxy sends
\* the next event of a response it is streaming.
FairSpec ==
    /\ Spec
    /\ \A r \in Req : WF_vars(HandlerStep(r) /\ UNCHANGED configureVars)
    /\ \A c \in Conn : WF_vars(ApplyConfig(c) /\ UNCHANGED requestVars)
=============================================================================
