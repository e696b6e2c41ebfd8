--------------------------- MODULE RequestProofs ---------------------------
(***************************************************************************)
(* Proofs about RequestFlow, for any requests, settings and Configures.    *)
(***************************************************************************)
EXTENDS RequestRequirements, ConfigureProofs, NegotiationProofs

\* The chunks after the k-th up to the n-th; all of the first n.
From(k, n) == [i \in 1 .. n - k |-> k + i]
Whole(n) == [i \in 1 .. n |-> i]

Target == OutputFormat \cup {NoFormat}
Uri == {UriOf[r] : r \in Req}
Picture == [uri: Uri, format: OutputFormat, quality: 0 .. 100, chunks: Seq(Nat)]
Cached == [key: [uri: Uri, format: OutputFormat, quality: 1 .. 100], image: Picture]
State == [here: BOOLEAN, eligible: BOOLEAN, target: Target, hit: Picture \cup {NoImage},
          buffer: Seq(Nat), max_size: Nat]
BeforeBody == {"request_headers", "insert_state", "response_headers", "lookup"}
Working == {"read_quality", "read_limit", "find_converter", "convert", "store"}
Place == BeforeBody \cup {"body", "answered", "complete"} \cup Working
Task == [at: Place, eligible: BOOLEAN, target: Target, quality: 0 .. 100, max_pixels: Nat,
         body: Seq(Nat)]
Stream == [header: Target, chunks: Seq(Nat), image: Picture \cup {NoImage},
           next: Nat \ {0},
           why: {"none", "overflow", "undecodable", "no converter", "conversion", "pixels"}]

Types ==
    /\ request \in [Req -> State]
    /\ task \in [Req -> Task]
    /\ stream \in [Req -> Stream]
    /\ store \in [Dir -> SUBSET Cached]

\* What a request reads of the settings, whatever the Configures do meanwhile.
Settled ==
    /\ ConfigureInv
    /\ block \in [Conn -> Block]
    /\ config.cache.directory \in Dir

\* A format that was negotiated for the request.
Chosen(r, format) == format # NoFormat /\ Accepts(AcceptOf[r], format)

\* Nothing has been sent or buffered before the headers are answered.
Unstarted(r) ==
    task[r].at \in BeforeBody =>
        /\ stream[r].header = NoFormat /\ stream[r].chunks = <<>>
        /\ stream[r].image = NoImage /\ stream[r].next = 1
        /\ request[r].hit = NoImage /\ request[r].buffer = <<>>

\* The cache is asked for a format that was chosen.
Asking(r) == task[r].at = "lookup" => Chosen(r, request[r].target)

\* Of the first n chunks those after some k were passed on, and all of them where the
\* headers were left alone or the body could have been buffered.
Passed(r, n) ==
    /\ \E k \in 0 .. n : stream[r].chunks = From(k, n)
    /\ request[r].here /\ Bufferable(r) => stream[r].chunks = Whole(n)
    /\ stream[r].header = NoFormat => stream[r].chunks = Whole(n)

\* While the chunks come they are passed on, or they are buffered for the format
\* promised, unless a cached image of this format will replace them.
Streaming(r) ==
    task[r].at = "body" =>
        /\ stream[r].next <= Length[r] /\ stream[r].image = NoImage
        /\ ~request[r].eligible => Passed(r, stream[r].next - 1)
        /\ request[r].eligible =>
              /\ stream[r].header = request[r].target
              /\ Chosen(r, stream[r].header)
              /\ stream[r].chunks = <<>>
              /\ request[r].hit = NoImage => request[r].buffer = Whole(stream[r].next - 1)
              /\ request[r].hit # NoImage =>
                    request[r].hit.format = stream[r].header /\ request[r].hit.uri = UriOf[r]

\* A conversion has the whole body and works for the format promised.
Promising(r) ==
    task[r].at \in Working =>
        /\ stream[r].next = Length[r] /\ task[r].body = Whole(Length[r])
        /\ task[r].target = stream[r].header /\ Chosen(r, stream[r].header)
        /\ stream[r].image = NoImage /\ stream[r].chunks = <<>>
        /\ task[r].at # "read_quality" => task[r].quality \in 1 .. 100

Finished(r) ==
    task[r].at = "answered" =>
        \/ stream[r].image # NoImage /\ stream[r].chunks = <<>> /\ stream[r].header # NoFormat
        \/ stream[r].image = NoImage /\ Passed(r, Length[r])

\* An image was made for this request's URI in the format promised.
Promised(r) ==
    stream[r].image # NoImage =>
        /\ stream[r].image.format = stream[r].header
        /\ Chosen(r, stream[r].header)
        /\ stream[r].image.uri = UriOf[r]

FlowInv(r) ==
    Unstarted(r) /\ Asking(r) /\ Streaming(r) /\ Promising(r) /\ Finished(r) /\ Promised(r)

\* What the induction needs of an entry: it was converted for its key.
TrueToKey(e) ==
    /\ e.image.uri = e.key.uri /\ e.image.format = e.key.format
    /\ e.key.format = "avif" => e.image.quality = e.key.quality
    /\ \E r \in Req : UriOf[r] = e.key.uri /\ e.image.chunks = Whole(Length[r])

StoreInv == \A d \in Dir : \A e \in store[d] : TrueToKey(e)

RequestInv == Types /\ Settled /\ StoreInv /\ \A r \in Req : FlowInv(r)

-----------------------------------------------------------------------------
\* The chunks up to n and the next one are the chunks up to n + 1.
LEMMA WholeGrows ==
    ASSUME NEW n \in Nat
    PROVE  /\ Whole(n) \in Seq(Nat) /\ Len(Whole(n)) = n
           /\ Append(Whole(n), n + 1) = Whole(n + 1)
           /\ Whole(0) = <<>> /\ Whole(n) = From(0, n)
<1>1. Whole(n) \in Seq(Nat) /\ Len(Whole(n)) = n
  BY DEF Whole
<1>2. Append(Whole(n), n + 1) = Whole(n + 1)
  BY <1>1 DEF Whole
<1>3. Whole(0) = <<>> /\ Whole(n) = From(0, n)
  BY DEF Whole, From
<1>4. QED
  BY <1>1, <1>2, <1>3

LEMMA FromGrows ==
    ASSUME NEW n \in Nat, NEW k \in 0 .. n
    PROVE  /\ Append(From(k, n), n + 1) = From(k, n + 1)
           /\ From(n, n) = <<>>
           /\ SubSeq(Whole(n), k + 1, n) = From(k, n)
<1>1. From(k, n) \in Seq(Nat) /\ Len(From(k, n)) = n - k
  BY DEF From
<1>2. Append(From(k, n), n + 1) = From(k, n + 1)
  BY <1>1 DEF From
<1>3. From(n, n) = <<>>
  BY DEF From
<1>4. SubSeq(Whole(n), k + 1, n) = From(k, n)
  BY DEF From, Whole
<1>5. QED
  BY <1>2, <1>3, <1>4

\* What is negotiated under valid settings is a format the request accepts.
LEMMA NegotiatedIsChosen ==
    ASSUME Valid(config), NEW r \in Req, Negotiated(r) # NoFormat
    PROVE  Negotiated(r) \in OutputFormat /\ Chosen(r, Negotiated(r))
<1>1. config.formats \in Seq(OutputFormat) /\ NoFormat \notin OutputFormat
  BY DEF Valid, OutputFormat, NoFormat
<1>2. QED
  BY <1>1, FirstAccepted DEF Negotiated, Chosen

\* A Configure is about to publish a cache in one of the directories.
LEMMA NewDirectory ==
    ASSUME Settled, NEW c \in Conn, stage[c] \in Busy
    PROVE  new[c].cache.directory \in Dir
<1>1. new[c] = Merge(config, block[c]) /\ Valid(new[c]) /\ Valid(config)
  BY DEF Settled, ConfigureInv, Serialized
<1>2. block[c] \in Block /\ config.cache.directory \in Dir
  BY DEF Settled
<1>3. new[c].cache = IF "cache" \in DOMAIN block[c] THEN Overlay(config.cache, block[c].cache)
                                                    ELSE config.cache
  BY <1>1 DEF Merge, Valid, Keys, Blocks
<1>4. CASE "cache" \notin DOMAIN block[c]
  BY <1>2, <1>3, <1>4
<1>5. CASE "cache" \in DOMAIN block[c]
  <2>1. "directory" \in DOMAIN config.cache
    BY <1>1 DEF Valid
  <2>2. new[c].cache.directory = IF "directory" \in DOMAIN block[c].cache
                                   THEN block[c].cache.directory ELSE config.cache.directory
    BY <1>3, <1>5, <2>1 DEF Overlay
  <2>3. QED
    BY <1>2, <1>5, <2>2, DirAssumption
<1>6. QED
  BY <1>4, <1>5

\* The settings in use are valid, and their cache is one of the directories.
LEMMA SettledSettings ==
    ASSUME Settled
    PROVE  /\ Valid(config)
           /\ cache \in Dir \cup {NoCache}
           /\ \A format \in OutputFormat : config.quality[format] \in 1 .. 100
           /\ config.max_pixels \in Nat /\ config.max_input_size \in Nat
<1>1. Valid(config)
  BY DEF Settled, ConfigureInv, Serialized
<1>2. cache = Directory(config) \/ \E c \in Conn : stage[c] \in Busy /\ cache = Directory(new[c])
  BY DEF Settled, ConfigureInv, LockHeld, Progress, Busy, Locked
<1>3. cache \in Dir \cup {NoCache}
  BY <1>2, NewDirectory DEF Directory, Settled
<1>4. QED
  BY <1>1, <1>3 DEF Valid

LEMMA InitRequestInv == Init => RequestInv
<1> SUFFICES ASSUME Init PROVE RequestInv
  OBVIOUS
<1>1. Types
  <2>1. <<>> \in Seq(Nat)
    OBVIOUS
  <2>2. Absent \in State
    BY <2>1 DEF Absent, State, Target
  <2>3. Start \in Task
    BY <2>1 DEF Start, Task, Target, Place, BeforeBody
  <2>4. Unsent \in Stream
    BY <2>1 DEF Unsent, Stream, Target
  <2>5. QED
    BY <2>2, <2>3, <2>4 DEF Init, RequestInit, Types
<1>2. ASSUME NEW r \in Req PROVE FlowInv(r)
  BY DEF Init, RequestInit, FlowInv, Absent, Start, Unsent, Unstarted, Asking, Streaming,
         Promising, Finished, Promised, BeforeBody, Working
<1>3. Settled
  BY InitInv, DirAssumption DEF Init, ConfigureInit, Settled
<1>4. StoreInv
  BY DEF Init, RequestInit, StoreInv
<1>5. QED
  BY <1>1, <1>2, <1>3, <1>4 DEF RequestInv

\* A step of a request changes no settings, one of a Configure leaves them valid and
\* their cache in one of the directories.
LEMMA SettledStep == Settled /\ [Next]_vars => Settled'
<1> SUFFICES ASSUME Settled, [Next]_vars PROVE Settled'
  OBVIOUS
<1>1. [ConfigureNext]_configureVars
  BY DEF Next, vars
<1>2. ConfigureInv'
  BY <1>1, InvStep DEF Settled
<1>3. UNCHANGED block
  BY <1>1 DEF ConfigureNext, configureVars, ApplyConfig, RefuseValue, Lock, Refuse, Ignore, Begin, Build,
     BuildFails, InsertConverters, RetainConverters, PublishPatterns, PublishCache, PublishConfig
<1>4. config' = config \/ \E c \in Conn : stage[c] \in Busy /\ config' = new[c]
  BY <1>1 DEF ConfigureNext, configureVars, settings, ApplyConfig, RefuseValue, Lock, Refuse, Ignore, Begin,
     Build, BuildFails, InsertConverters, RetainConverters, PublishPatterns, PublishCache,
     PublishConfig, Step, Busy
<1>5. config'.cache.directory \in Dir
  BY <1>4, NewDirectory DEF Settled
<1>6. QED
  BY <1>2, <1>3, <1>5 DEF Settled

\* A step of one request leaves the others alone.
LEMMA OthersKept ==
    ASSUME Types, NEW r \in Req, HandlerStep(r) \/ Complete(r), NEW q \in Req \ {r}
    PROVE  request'[q] = request[q] /\ task'[q] = task[q] /\ stream'[q] = stream[q]
<1> USE DEF Types, Awaits, Proceed, Answer
<1>1. CASE MatchPatterns(r) \/ InsertState(r)
  BY <1>1 DEF MatchPatterns, InsertState
<1>2. CASE NotOk(r) \/ NotEligible(r) \/ NotAcceptable(r) \/ Negotiate(r) \/ Lookup(r)
  BY <1>2 DEF NotOk, NotEligible, NotAcceptable, LetThrough, Negotiate, Lookup
<1>3. CASE PassChunk(r) \/ ServeCached(r) \/ Overflows(r) \/ Undecodable(r)
  BY <1>3 DEF PassChunk, ServeCached, Overflows, Undecodable, StopBuffering
<1>4. CASE BufferChunk(r) \/ TakeBody(r) \/ ReadQuality(r) \/ ReadLimit(r) \/ FindConverter(r)
  BY <1>4 DEF BufferChunk, TakeBody, ReadQuality, ReadLimit, FindConverter, SendOriginal
<1>5. CASE ConversionFails(r) \/ TooLarge(r) \/ Convert(r) \/ Store(r) \/ Complete(r)
  BY <1>5 DEF ConversionFails, TooLarge, Convert, Store, SendOriginal, Complete
<1>6. QED
  BY <1>1, <1>2, <1>3, <1>4, <1>5 DEF HandlerStep

\* What a request's invariant looks at.
LEMMA FlowKept ==
    ASSUME NEW r \in Req, FlowInv(r),
           request'[r] = request[r], task'[r] = task[r], stream'[r] = stream[r]
    PROVE  FlowInv(r)'
BY DEF FlowInv, Unstarted, Asking, Streaming, Passed, Bufferable, Promising, Finished, Promised,
       Chosen

\* Every step of a request keeps the kinds of its records.
LEMMA TypesStep ==
    ASSUME RequestInv, NEW r \in Req, HandlerStep(r) \/ Complete(r)
    PROVE  Types'
<1>1. /\ Types /\ FlowInv(r) /\ Settled /\ StoreInv
      /\ UriOf[r] \in Uri /\ <<>> \in Seq(Nat)
      /\ request[r] \in State /\ task[r] \in Task /\ stream[r] \in Stream
  BY DEF RequestInv, Types, Uri
<1>2. \A format : Chosen(r, format) /\ format \in Target => format \in OutputFormat
  BY DEF Chosen, Target
<1>3. /\ \A s, t \in Seq(Nat) : s \o t \in Seq(Nat)
      /\ \A s \in Seq(Nat) : Append(s, stream[r].next) \in Seq(Nat)
  <2>1. stream[r].next \in Nat
    BY <1>1 DEF Stream
  <2>2. QED
    BY <2>1
<1> USE DEF Types, Awaits, Proceed, Answer, Place
<1>4. CASE MatchPatterns(r)
  BY <1>1, <1>4 DEF MatchPatterns, Task, BeforeBody
<1>5. CASE InsertState(r)
  <2>1. config.max_input_size \in Nat
    BY <1>1, SettledSettings
  <2>2. [Absent EXCEPT !.here = TRUE, !.eligible = task[r].eligible,
                       !.max_size = config.max_input_size] \in State
    BY <1>1, <2>1 DEF Absent, State, Task, Target
  <2>3. [task[r] EXCEPT !.at = "response_headers"] \in Task
    BY <1>1 DEF Task, BeforeBody
  <2>4. QED
    BY <1>1, <1>5, <2>2, <2>3 DEF InsertState
<1>6. CASE NotOk(r) \/ NotEligible(r) \/ NotAcceptable(r)
  <2>1. [request[r] EXCEPT !.eligible = FALSE] \in State
    BY <1>1 DEF State
  <2>2. [task[r] EXCEPT !.at = "body"] \in Task
    BY <1>1 DEF Task
  <2>3. QED
    BY <1>1, <1>6, <2>1, <2>2 DEF NotOk, NotEligible, NotAcceptable, LetThrough
<1>7. CASE Negotiate(r)
  <2>1. Negotiated(r) \in OutputFormat /\ config.quality[Negotiated(r)] \in 0 .. 100
    BY <1>1, <1>7, SettledSettings, NegotiatedIsChosen DEF Negotiate
  <2>2. [request[r] EXCEPT !.target = Negotiated(r)] \in State
    BY <1>1, <2>1 DEF State, Target
  <2>3. [task[r] EXCEPT !.at = "lookup", !.quality = config.quality[Negotiated(r)]] \in Task
    <3> DEFINE quality == config.quality[Negotiated(r)]
    <3> HIDE DEF quality
    <3>1. quality \in 0 .. 100
      BY <2>1 DEF quality
    <3>2. [task[r] EXCEPT !.at = "lookup", !.quality = quality] \in Task
      BY <1>1, <3>1 DEF Task, BeforeBody
    <3>3. QED
      BY <3>2 DEF quality
  <2>4. QED
    BY <1>1, <1>7, <2>2, <2>3 DEF Negotiate
<1>8. CASE Lookup(r)
  <2>1. Hits(CacheKey(r, request[r].target, task[r].quality)) \subseteq Picture
    BY <1>1, SettledSettings DEF Hits, Cached
  <2>2. request[r].target \in Target /\ [task[r] EXCEPT !.at = "body"] \in Task
    BY <1>1 DEF State, Task
  <2>3. \A hit \in Picture \cup {NoImage} : [request[r] EXCEPT !.hit = hit] \in State
    BY <1>1 DEF State
  <2>4. [stream[r] EXCEPT !.header = request[r].target] \in Stream
    BY <1>1, <2>2 DEF Stream
  <2>5. PICK hit \in Picture \cup {NoImage} : request' = [request EXCEPT ![r].hit = hit]
    BY <1>8, <2>1 DEF Lookup
  <2>6. request' \in [Req -> State]
    BY <1>1, <2>3, <2>5
  <2>7. QED
    BY <1>1, <1>8, <2>2, <2>4, <2>6 DEF Lookup
<1>9. ASSUME NEW sent \in Stream, Answer(r, sent), UNCHANGED store,
             request' = request \/ \E s \in State : request' = [request EXCEPT ![r] = s]
      PROVE  Types'
  <2>1. [sent EXCEPT !.next = @ + 1] \in Stream
    <3>1. sent.next \in Nat \ {0}
      BY DEF Stream
    <3>2. sent.next + 1 \in Nat \ {0}
      BY <3>1
    <3>3. QED
      BY <3>2 DEF Stream
  <2>2. [task[r] EXCEPT !.at = IF IsLast(r) THEN "answered" ELSE "body"] \in Task
    BY <1>1 DEF Task
  <2>3. QED
    BY <1>1, <1>9, <2>1, <2>2
<1>10. PassThrough(r) \in Stream
  BY <1>1, <1>3 DEF PassThrough, Stream
<1>11. CASE PassChunk(r) \/ ServeCached(r)
  <2>1. [stream[r] EXCEPT !.image = request[r].hit] \in Stream
    BY <1>1 DEF Stream, State
  <2>2. QED
    BY <1>1, <1>9, <1>10, <1>11, <2>1 DEF PassChunk, ServeCached
<1>12. CASE Overflows(r) \/ Undecodable(r)
  <2>1. [request[r] EXCEPT !.eligible = FALSE] \in State
    BY <1>1 DEF State
  <2>2. \A why \in {"overflow", "undecodable"} : [PassThrough(r) EXCEPT !.why = why] \in Stream
    BY <1>10 DEF Stream
  <2>3. QED
    BY <1>1, <1>9, <1>12, <2>1, <2>2 DEF Overflows, Undecodable, StopBuffering
<1>13. CASE BufferChunk(r)
  <2>1. [request[r] EXCEPT !.buffer = Append(@, stream[r].next)] \in State
    BY <1>1, <1>3 DEF State
  <2>2. QED
    BY <1>1, <1>9, <1>13, <2>1 DEF BufferChunk
<1>14. CASE TakeBody(r)
  <2>1. [request[r] EXCEPT !.buffer = <<>>] \in State
    BY <1>1 DEF State
  <2>2. [task[r] EXCEPT !.at = "read_quality", !.target = request[r].target,
                        !.body = Append(request[r].buffer, stream[r].next)] \in Task
    BY <1>1, <1>3 DEF State, Task, Working
  <2>3. QED
    BY <1>1, <1>14, <2>1, <2>2 DEF TakeBody
<1>15. CASE ReadQuality(r)
  <2>1. task[r].target \in OutputFormat
    BY <1>1, <1>2, <1>15 DEF ReadQuality, FlowInv, Promising, Working, Task
  <2>2. config.quality[task[r].target] \in 0 .. 100
    BY <1>1, <2>1, SettledSettings
  <2>3. [task[r] EXCEPT !.at = "read_limit", !.quality = config.quality[task[r].target]] \in Task
    <3> DEFINE quality == config.quality[task[r].target]
    <3> HIDE DEF quality
    <3>1. quality \in 0 .. 100
      BY <2>2 DEF quality
    <3>2. [task[r] EXCEPT !.at = "read_limit", !.quality = quality] \in Task
      BY <1>1, <3>1 DEF Task, Working
    <3>3. QED
      BY <3>2 DEF quality
  <2>4. QED
    BY <1>1, <1>15, <2>3 DEF ReadQuality
<1>16. CASE ReadLimit(r)
  <2>1. [task[r] EXCEPT !.at = "find_converter", !.max_pixels = config.max_pixels] \in Task
    BY <1>1, SettledSettings DEF Task, Working
  <2>2. QED
    BY <1>1, <1>16, <2>1 DEF ReadLimit
<1>17. \A why \in {"no converter", "conversion", "pixels"} :
          [stream[r] EXCEPT !.chunks = @ \o task[r].body, !.why = why] \in Stream
  <2>1. stream[r].chunks \o task[r].body \in Seq(Nat)
    BY <1>1, <1>3 DEF Stream, Task
  <2>2. QED
    BY <1>1, <2>1 DEF Stream
<1>18. ASSUME NEW place \in Working, Proceed(r, place), UNCHANGED <<request, stream, store>>
       PROVE  Types'
  <2>1. [task[r] EXCEPT !.at = place] \in Task
    BY <1>1 DEF Task
  <2>2. QED
    BY <1>1, <1>18, <2>1
<1>19. CASE FindConverter(r) \/ ConversionFails(r) \/ TooLarge(r) \/ Convert(r)
  BY <1>1, <1>9, <1>17, <1>18, <1>19
  DEF FindConverter, ConversionFails, TooLarge, Convert, SendOriginal, Working
<1>20. CASE Store(r)
  <2>1. /\ task[r].target \in OutputFormat /\ task[r].quality \in 1 .. 100
        /\ task[r].body \in Seq(Nat)
    BY <1>1, <1>2, <1>20 DEF Store, FlowInv, Promising, Working, Task
  <2>2. Optimized(r) \in Picture
    BY <1>1, <2>1 DEF Optimized, Picture, EncoderQuality, Lossless
  <2>3. [stream[r] EXCEPT !.image = Optimized(r)] \in Stream
    BY <1>1, <2>2 DEF Stream
  <2>4. Stored(r) \in [Dir -> SUBSET Cached]
    <3>1. [key |-> CacheKey(r, task[r].target, task[r].quality), image |-> Optimized(r)] \in Cached
      BY <1>1, <2>1, <2>2 DEF Cached, CacheKey
    <3>2. QED
      BY <1>1, <3>1 DEF Stored
  <2>5. store' \in [Dir -> SUBSET Cached]
    BY <1>1, <1>20, <2>4 DEF Store
  <2>6. [[stream[r] EXCEPT !.image = Optimized(r)] EXCEPT !.next = @ + 1] \in Stream
    <3>1. [stream[r] EXCEPT !.image = Optimized(r)].next \in Nat \ {0}
      BY <2>3 DEF Stream
    <3>2. [stream[r] EXCEPT !.image = Optimized(r)].next + 1 \in Nat \ {0}
      BY <3>1
    <3>3. QED
      BY <2>3, <3>2 DEF Stream
  <2>7. [task[r] EXCEPT !.at = IF IsLast(r) THEN "answered" ELSE "body"] \in Task
    BY <1>1 DEF Task
  <2>8. QED
    BY <1>1, <1>20, <2>5, <2>6, <2>7 DEF Store
<1>21. CASE Complete(r)
  <2>1. Absent \in State /\ [task[r] EXCEPT !.at = "complete"] \in Task
    BY <1>1 DEF Absent, State, Target, Task
  <2>2. QED
    BY <1>1, <1>21, <2>1 DEF Complete
<1>22. QED
  BY <1>4, <1>5, <1>6, <1>7, <1>8, <1>11, <1>12, <1>13, <1>14, <1>15, <1>16, <1>19, <1>20, <1>21
  DEF HandlerStep

\* Every step of a request keeps what its invariant says of it.
LEMMA FlowStep ==
    ASSUME RequestInv, NEW r \in Req, HandlerStep(r) \/ Complete(r)
    PROVE  FlowInv(r)'
<1>1. /\ Types /\ FlowInv(r) /\ Settled /\ StoreInv
      /\ request[r] \in State /\ task[r] \in Task /\ stream[r] \in Stream
      /\ Length[r] \in Nat \ {0} /\ stream[r].next \in Nat \ {0}
  <2>1. stream[r] \in Stream
    BY DEF RequestInv, Types
  <2>2. stream[r].next \in Nat \ {0}
    BY <2>1 DEF Stream
  <2>3. QED
    BY <2>1, <2>2, LengthAssumption DEF RequestInv, Types
<1>n. PICK n \in Nat \ {0} : n = stream[r].next
  BY <1>1
<1>2. /\ n - 1 \in Nat /\ (n - 1) + 1 = n /\ (n + 1) - 1 = n
      /\ Len(Whole(n - 1)) = n - 1 /\ Whole(n - 1) = From(0, n - 1)
      /\ Append(Whole(n - 1), n) = Whole(n)
      /\ \A k \in 0 .. n - 1 : Append(From(k, n - 1), n) = From(k, n)
      /\ From(n - 1, n - 1) = <<>> /\ From(0, 0) = <<>> /\ Whole(0) = <<>>
      /\ Whole(Length[r]) \in Seq(Nat) /\ Whole(Length[r]) = From(0, Length[r])
  <2>1. n - 1 \in Nat /\ (n - 1) + 1 = n /\ (n + 1) - 1 = n
    OBVIOUS
  <2>2. /\ Len(Whole(n - 1)) = n - 1 /\ Whole(n - 1) = From(0, n - 1)
        /\ Append(Whole(n - 1), (n - 1) + 1) = Whole((n - 1) + 1)
        /\ Whole(0) = <<>>
    BY <2>1, WholeGrows
  <2>3. /\ \A k \in 0 .. n - 1 : Append(From(k, n - 1), (n - 1) + 1) = From(k, (n - 1) + 1)
        /\ From(n - 1, n - 1) = <<>>
    <3> DEFINE m == n - 1
    <3>1. m \in Nat /\ m \in 0 .. m
      BY <2>1
    <3> HIDE DEF m
    <3>2. \A k \in 0 .. m : Append(From(k, m), m + 1) = From(k, m + 1) /\ From(m, m) = <<>>
      BY <3>1, FromGrows
    <3>3. QED
      BY <3>1, <3>2 DEF m
  <2>4. From(0, 0) = <<>>
    BY DEF From
  <2>5. Whole(Length[r]) \in Seq(Nat) /\ Whole(Length[r]) = From(0, Length[r])
    BY <1>1, WholeGrows
  <2>6. QED
    BY <2>1, <2>2, <2>3, <2>4, <2>5
<1> USE DEF FlowInv, Unstarted, Asking, Streaming, Promising, Finished, Promised, BeforeBody, Working,
            Awaits
<1>3. CASE MatchPatterns(r)
  <2>1. /\ task'[r] = [task[r] EXCEPT !.at = "insert_state", !.eligible = UriOf[r] \notin patterns]
        /\ request'[r] = request[r] /\ stream'[r] = stream[r]
    BY <1>1, <1>3 DEF MatchPatterns, Types
  <2>2. task'[r].at = "insert_state" /\ task[r].at = "request_headers"
    BY <1>1, <1>3 DEF MatchPatterns, Types, Task
  <2>3. QED
    BY <1>1, <2>1, <2>2
<1>4. CASE InsertState(r)
  <2>1. /\ task'[r] = [task[r] EXCEPT !.at = "response_headers"] /\ stream'[r] = stream[r]
        /\ request'[r] = [Absent EXCEPT !.here = TRUE, !.eligible = task[r].eligible,
                                        !.max_size = config.max_input_size]
    BY <1>1, <1>4 DEF InsertState, Types, Proceed
  <2>2. task'[r].at = "response_headers" /\ request'[r].hit = NoImage /\ request'[r].buffer = <<>>
    BY <1>1, <2>1 DEF Task, Absent
  <2>3. QED
    BY <1>1, <1>4, <2>1, <2>2 DEF InsertState
<1>5. CASE NotOk(r) \/ NotEligible(r) \/ NotAcceptable(r)
  <2>1. /\ task'[r] = [task[r] EXCEPT !.at = "body"] /\ stream'[r] = stream[r]
        /\ request'[r] = [request[r] EXCEPT !.eligible = FALSE]
        /\ task[r].at = "response_headers"
    BY <1>1, <1>5 DEF NotOk, NotEligible, NotAcceptable, LetThrough, Types, Proceed
  <2>2. task'[r].at = "body" /\ ~request'[r].eligible
    BY <1>1, <2>1 DEF Task, State
  <2>3. stream[r].chunks = Whole(0) /\ stream[r].chunks = From(0, 0) /\ stream[r].next - 1 = 0
    BY <1>1, <1>2, <2>1
  <2>4. Passed(r, stream[r].next - 1)'
    BY <1>1, <2>1, <2>3 DEF Passed
  <2>5. QED
    BY <1>1, <2>1, <2>2, <2>4
<1>6. CASE Negotiate(r)
  <2>1. /\ task'[r].at = "lookup" /\ stream'[r] = stream[r]
        /\ request'[r] = [request[r] EXCEPT !.target = Negotiated(r)]
        /\ task[r].at = "response_headers"
    BY <1>1, <1>6 DEF Negotiate, Types, Task
  <2>2. Chosen(r, Negotiated(r))
    BY <1>1, <1>6, NegotiatedIsChosen, SettledSettings DEF Negotiate
  <2>3. /\ request'[r].target = Negotiated(r) /\ request'[r].hit = request[r].hit
        /\ request'[r].buffer = request[r].buffer
    BY <1>1, <2>1 DEF State
  <2>4. QED
    BY <1>1, <2>1, <2>2, <2>3 DEF Chosen
<1>7. CASE Lookup(r)
  <2>1. PICK hit \in {NoImage} \cup Hits(CacheKey(r, request[r].target, task[r].quality)) :
          request' = [request EXCEPT ![r].hit = hit]
    BY <1>7 DEF Lookup
  <2>2. hit # NoImage => hit.format = request[r].target /\ hit.uri = UriOf[r]
    BY <1>1, <2>1, SettledSettings DEF Hits, CacheKey, StoreInv, TrueToKey
  <2>3. /\ request'[r] = [request[r] EXCEPT !.hit = hit]
        /\ task'[r] = [task[r] EXCEPT !.at = "body"] /\ task[r].at = "lookup"
        /\ stream'[r] = [stream[r] EXCEPT !.header = request[r].target]
    BY <1>1, <1>7, <2>1 DEF Lookup, Types, Proceed
  <2>4. /\ request'[r].hit = hit /\ request'[r].target = request[r].target
        /\ request'[r].buffer = <<>>
        /\ task'[r].at = "body"
        /\ stream'[r].header = request[r].target /\ stream'[r].next = 1
        /\ stream'[r].chunks = <<>> /\ stream'[r].image = NoImage
    BY <1>1, <2>3 DEF State, Task, Stream
  <2>5. Passed(r, stream[r].next - 1)'
    <3>1. /\ stream'[r].chunks = Whole(0) /\ stream'[r].chunks = From(0, 0)
          /\ stream'[r].next - 1 = 0
      BY <1>2, <2>4
    <3>2. QED
      BY <2>4, <3>1 DEF Passed
  <2>6. request'[r].buffer = Whole(stream'[r].next - 1)
    BY <1>2, <2>4
  <2>7. QED
    BY <1>1, <2>2, <2>3, <2>4, <2>5, <2>6 DEF Chosen
<1>7a. ASSUME task[r].at = "body", task'[r].at = (IF IsLast(r) THEN "answered" ELSE "body"),
              stream'[r].next = stream[r].next + 1, stream'[r].image = NoImage,
              ~request'[r].eligible, Passed(r, n)'
       PROVE  FlowInv(r)'
  <2>1. stream'[r].next - 1 = n
    BY <1>n, <1>2, <1>7a
  <2>2. CASE IsLast(r)
    BY <1>1, <1>n, <1>7a, <2>2 DEF IsLast
  <2>3. CASE ~IsLast(r)
    <3>1. stream'[r].next <= Length[r]
      BY <1>1, <1>7a, <2>3 DEF IsLast
    <3>2. QED
      BY <1>7a, <2>1, <2>3, <3>1
  <2>4. QED
    BY <2>2, <2>3
<1>8. CASE PassChunk(r)
  <2>1. /\ Answer(r, PassThrough(r)) /\ request' = request
        /\ task[r].at = "body" /\ ~request[r].eligible
    BY <1>8 DEF PassChunk
  <2>2. /\ task'[r].at = IF IsLast(r) THEN "answered" ELSE "body"
        /\ stream'[r].next = stream[r].next + 1
        /\ stream'[r].chunks = Append(stream[r].chunks, stream[r].next)
        /\ stream'[r].image = NoImage /\ stream'[r].header = stream[r].header
        /\ stream'[r].why = stream[r].why
    BY <1>1, <2>1 DEF Answer, Proceed, PassThrough, Types, Task, Stream
  <2>3. Passed(r, n - 1)
    BY <1>1, <1>n, <2>1
  <2>4. PICK k \in 0 .. n - 1 : stream[r].chunks = From(k, n - 1)
    BY <2>3 DEF Passed
  <2>5. k \in 0 .. n /\ stream'[r].chunks = From(k, n)
    BY <1>n, <1>2, <2>2, <2>4
  <2>6. stream[r].chunks = Whole(n - 1) => stream'[r].chunks = Whole(n)
    BY <1>n, <1>2, <2>2
  <2>7. Passed(r, n)'
    BY <2>1, <2>2, <2>3, <2>5, <2>6 DEF Passed, Bufferable
  <2>8. QED
    BY <1>7a, <2>1, <2>2, <2>7
<1>9. CASE ServeCached(r)
  <2>1. /\ Answer(r, IF IsLast(r) THEN [stream[r] EXCEPT !.image = request[r].hit] ELSE stream[r])
        /\ request' = request /\ request[r].hit # NoImage
        /\ task[r].at = "body" /\ request[r].eligible
    BY <1>9 DEF ServeCached
  <2>2. /\ task'[r].at = IF IsLast(r) THEN "answered" ELSE "body"
        /\ stream'[r].next = stream[r].next + 1
        /\ stream'[r].chunks = <<>> /\ stream'[r].header = stream[r].header
        /\ stream'[r].image = IF IsLast(r) THEN request[r].hit ELSE NoImage
    BY <1>1, <2>1 DEF Answer, Proceed, Types, Task, Stream
  <2>3. Chosen(r, stream[r].header) /\ stream[r].header = request[r].target
    BY <1>1, <2>1
  <2>4. CASE IsLast(r)
    BY <1>1, <2>1, <2>2, <2>3, <2>4 DEF Chosen
  <2>5. CASE ~IsLast(r)
    <3>1. stream'[r].next <= Length[r]
      BY <1>1, <2>1, <2>2, <2>5 DEF IsLast
    <3>2. QED
      BY <1>1, <2>1, <2>2, <2>3, <2>5, <3>1 DEF Chosen
  <2>6. QED
    BY <2>4, <2>5
<1>10. CASE Overflows(r) \/ Undecodable(r)
  <2>1. PICK why \in {"overflow", "undecodable"} :
          /\ StopBuffering(r, why)
          /\ why = "overflow" => ~Fits(r)
    BY <1>10 DEF Overflows, Undecodable
  <2>2. /\ Answer(r, [PassThrough(r) EXCEPT !.why = why])
        /\ request'[r] = [request[r] EXCEPT !.eligible = FALSE]
        /\ task[r].at = "body" /\ request[r].eligible /\ request[r].hit = NoImage
    BY <1>1, <2>1 DEF StopBuffering, ToBuffer, Types
  <2>3. /\ task'[r].at = IF IsLast(r) THEN "answered" ELSE "body"
        /\ stream'[r].next = stream[r].next + 1
        /\ stream'[r].chunks = Append(stream[r].chunks, stream[r].next)
        /\ stream'[r].image = NoImage /\ stream'[r].header = stream[r].header
        /\ stream'[r].why = why
    BY <1>1, <2>2 DEF Answer, Proceed, PassThrough, Types, Task, Stream
  <2>4. /\ ~request'[r].eligible /\ request'[r].here = request[r].here
        /\ request'[r].max_size = request[r].max_size /\ request[r].max_size \in Nat
    BY <1>1, <2>2 DEF State
  <2>5. why = "overflow" => request[r].max_size < Length[r]
    <3>1. Len(request[r].buffer) + 1 = n /\ n <= Length[r]
      BY <1>1, <1>n, <1>2, <2>2
    <3>2. why = "overflow" => request[r].max_size < n
      BY <1>1, <2>1, <2>4, <3>1 DEF Fits
    <3>3. QED
      BY <1>1, <2>4, <3>1, <3>2
  <2>6. stream'[r].chunks = From(n - 1, n) /\ n - 1 \in 0 .. n
    <3>1. stream[r].chunks = From(n - 1, n - 1) /\ n - 1 \in 0 .. n - 1 /\ n - 1 \in 0 .. n
      BY <1>1, <1>2, <2>2
    <3>2. QED
      BY <1>n, <1>2, <2>3, <3>1
  <2>7. stream[r].header # NoFormat
    BY <1>1, <2>2 DEF Chosen
  <2>8. ~Bufferable(r)'
    BY <1>1, <2>3, <2>4, <2>5 DEF Bufferable
  <2>9. Passed(r, n)'
    BY <2>3, <2>6, <2>7, <2>8 DEF Passed
  <2>10. QED
    BY <1>7a, <2>2, <2>3, <2>4, <2>9
<1>11. CASE BufferChunk(r)
  <2>1. /\ Answer(r, stream[r]) /\ ~IsLast(r)
        /\ request'[r] = [request[r] EXCEPT !.buffer = Append(@, stream[r].next)]
        /\ task[r].at = "body" /\ request[r].eligible /\ request[r].hit = NoImage
    BY <1>1, <1>11 DEF BufferChunk, ToBuffer, Types
  <2>2. /\ task'[r].at = "body"
        /\ stream'[r].next = stream[r].next + 1
        /\ stream'[r].chunks = <<>> /\ stream'[r].header = stream[r].header
        /\ stream'[r].image = NoImage
    BY <1>1, <2>1 DEF Answer, Proceed, Types, Task, Stream
  <2>3. /\ request'[r].eligible /\ request'[r].hit = NoImage
        /\ request'[r].target = request[r].target
        /\ request'[r].buffer = Append(request[r].buffer, stream[r].next)
    BY <1>1, <2>1 DEF State
  <2>4. request'[r].buffer = Whole(n) /\ stream'[r].next - 1 = n
    BY <1>1, <1>n, <1>2, <2>1, <2>2, <2>3
  <2>5. stream'[r].next <= Length[r]
    BY <1>1, <2>1, <2>2 DEF IsLast
  <2>6. Chosen(r, stream[r].header) /\ stream[r].header = request[r].target
    BY <1>1, <2>1
  <2>7. QED
    BY <2>2, <2>3, <2>4, <2>5, <2>6 DEF Chosen
<1>12. CASE TakeBody(r)
  <2>1. /\ task'[r] = [task[r] EXCEPT !.at = "read_quality", !.target = request[r].target,
                                      !.body = Append(request[r].buffer, stream[r].next)]
        /\ stream'[r] = stream[r] /\ IsLast(r)
        /\ task[r].at = "body" /\ request[r].eligible /\ request[r].hit = NoImage
    BY <1>1, <1>12 DEF TakeBody, ToBuffer, Types
  <2>2. /\ task'[r].at = "read_quality" /\ task'[r].target = request[r].target
        /\ task'[r].body = Append(request[r].buffer, stream[r].next)
    BY <1>1, <2>1 DEF Task
  <2>3. Append(request[r].buffer, stream[r].next) = Whole(Length[r])
    BY <1>1, <1>n, <1>2, <2>1 DEF IsLast
  <2>4. QED
    BY <1>1, <2>1, <2>2, <2>3 DEF IsLast, Chosen
<1>13. CASE ReadQuality(r) \/ ReadLimit(r)
  <2>1. /\ task'[r].at \in {"read_limit", "find_converter"} /\ task[r].at \in Working
        /\ task'[r].target = task[r].target /\ task'[r].body = task[r].body
        /\ stream'[r] = stream[r]
    BY <1>1, <1>13 DEF ReadQuality, ReadLimit, Types, Task
  <2>2. task[r].target \in OutputFormat
    BY <1>1, <2>1 DEF Task, Target, Chosen
  <2>3. task'[r].quality \in 1 .. 100
    <3>1. CASE ReadQuality(r)
      <4>1. task'[r].quality = config.quality[task[r].target]
        BY <1>1, <3>1 DEF ReadQuality, Types, Task
      <4>2. QED
        BY <1>1, <2>2, <4>1, SettledSettings
    <3>2. CASE ReadLimit(r)
      <4>1. task'[r].quality = task[r].quality /\ task[r].at = "read_limit"
        BY <1>1, <3>2 DEF ReadLimit, Types, Task
      <4>2. QED
        BY <1>1, <4>1
    <3>3. QED
      BY <1>13, <3>1, <3>2
  <2>4. QED
    BY <1>1, <2>1, <2>3 DEF Chosen
<1>14. ASSUME NEW why, task[r].at \in Working, task[r].at # "read_quality", request' = request,
              SendOriginal(r, why)
       PROVE  FlowInv(r)'
  <2>1. /\ task'[r].at = "answered"
        /\ stream'[r].chunks = stream[r].chunks \o task[r].body
        /\ stream'[r].header = stream[r].header /\ stream'[r].image = NoImage
    BY <1>1, <1>14 DEF SendOriginal, Answer, Proceed, IsLast, Types, Task, Stream
  <2>2. stream'[r].chunks = <<>> \o Whole(Length[r])
    BY <1>1, <1>14, <2>1
  <2>3. stream'[r].chunks = Whole(Length[r]) /\ 0 \in 0 .. Length[r]
    BY <1>1, <1>2, <2>2
  <2>4. Passed(r, Length[r])'
    BY <1>2, <2>3 DEF Passed
  <2>5. QED
    BY <1>1, <2>1, <2>4
<1>15. ASSUME NEW place \in Working, task[r].at \in Working, task[r].at # "read_quality",
              request' = request, stream' = stream, Proceed(r, place)
       PROVE  FlowInv(r)'
  <2>1. /\ task'[r].at = place /\ task'[r].target = task[r].target
        /\ task'[r].body = task[r].body /\ task'[r].quality = task[r].quality
    BY <1>1, <1>15 DEF Proceed, Types, Task
  <2>2. QED
    BY <1>1, <1>15, <2>1 DEF Chosen
<1>16. CASE FindConverter(r) \/ ConversionFails(r) \/ TooLarge(r) \/ Convert(r)
  <2>1. task[r].at \in Working /\ task[r].at # "read_quality" /\ request' = request
    BY <1>16 DEF FindConverter, ConversionFails, TooLarge, Convert
  <2>2. \/ \E why \in {"no converter", "conversion", "pixels"} : SendOriginal(r, why)
        \/ stream' = stream /\ \E place \in Working : Proceed(r, place)
    BY <1>16 DEF FindConverter, ConversionFails, TooLarge, Convert
  <2>3. ASSUME NEW why, SendOriginal(r, why) PROVE FlowInv(r)'
    BY ONLY <1>14, <2>1, <2>3
  <2>4. ASSUME NEW place \in Working, Proceed(r, place), stream' = stream PROVE FlowInv(r)'
    BY ONLY <1>15, <2>1, <2>4
  <2>5. QED
    BY ONLY <2>2, <2>3, <2>4
<1>17. CASE Store(r)
  <2>1. task[r].at = "store" /\ Answer(r, [stream[r] EXCEPT !.image = Optimized(r)])
    BY <1>17 DEF Store
  <2>2. /\ task'[r].at = "answered"
        /\ stream'[r].chunks = <<>> /\ stream'[r].header = stream[r].header
        /\ stream'[r].image = Optimized(r)
    BY <1>1, <2>1 DEF Answer, Proceed, IsLast, Types, Task, Stream
  <2>3. /\ Optimized(r).format = stream[r].header /\ Optimized(r).uri = UriOf[r]
        /\ Optimized(r) # NoImage
    <3>1. "none" \notin DOMAIN Optimized(r) /\ "none" \in DOMAIN NoImage
      BY DEF Optimized, NoImage
    <3>2. QED
      BY <1>1, <2>1, <3>1 DEF Optimized
  <2>4. QED
    BY <1>1, <2>1, <2>2, <2>3 DEF Chosen
<1>18. CASE Complete(r)
  <2>1. stream'[r] = stream[r]
    BY <1>18 DEF Complete
  <2>2. Promised(r)'
    BY <1>1, <2>1 DEF Chosen
  <2>3. CASE task[r].at \in Working /\ task' = task
    <3>1. Promising(r)'
      BY <1>1, <2>1, <2>3 DEF Chosen
    <3>2. QED
      BY <2>2, <2>3, <3>1
  <2>4. CASE task'[r].at = "complete"
    BY <2>2, <2>4
  <2>5. QED
    BY <1>1, <1>18, <2>3, <2>4 DEF Complete, Converting, Proceed, Types, Task
<1>19. QED
  BY <1>3, <1>4, <1>5, <1>6, <1>7, <1>8, <1>9, <1>10, <1>11, <1>12, <1>13, <1>16, <1>17, <1>18
  DEF HandlerStep

\* A conversion adds an entry for its key, and no other step adds one.
LEMMA StoreStep ==
    ASSUME RequestInv, NEW r \in Req, HandlerStep(r) \/ Complete(r)
    PROVE  StoreInv'
<1>1. Types /\ FlowInv(r) /\ StoreInv
  BY DEF RequestInv
<1>2. store' = store \/ Store(r)
  BY DEF HandlerStep, Complete, MatchPatterns, InsertState, NotOk, NotEligible, NotAcceptable,
         LetThrough, Negotiate, Lookup, PassChunk, ServeCached, Overflows, Undecodable, StopBuffering,
         BufferChunk, TakeBody, ReadQuality, ReadLimit, FindConverter, ConversionFails, TooLarge,
         Convert
<1>3. CASE store' = store
  BY <1>1, <1>3 DEF StoreInv, TrueToKey
<1>4. CASE Store(r)
  <2> DEFINE entry == [key |-> CacheKey(r, task[r].target, task[r].quality), image |-> Optimized(r)]
  <2>1. task[r].body = Whole(Length[r])
    BY <1>1, <1>4 DEF Store, Awaits, FlowInv, Promising, Working
  <2>2. TrueToKey(entry)
    BY <2>1 DEF TrueToKey, CacheKey, Optimized, EncoderQuality
  <2> HIDE DEF entry
  <2>3. \A d \in Dir : store'[d] \subseteq store[d] \cup {entry}
    BY <1>1, <1>4 DEF Store, Stored, Types, entry
  <2>4. QED
    BY <1>1, <2>2, <2>3 DEF StoreInv, TrueToKey
<1>5. QED
  BY <1>2, <1>3, <1>4

LEMMA RequestInvStep == RequestInv /\ [Next]_vars => RequestInv'
<1> SUFFICES ASSUME RequestInv, [Next]_vars PROVE RequestInv'
  OBVIOUS
<1>1. Settled'
  BY SettledStep DEF RequestInv
<1>2. CASE UNCHANGED requestVars
  <2>1. /\ request' = request /\ task' = task /\ stream' = stream /\ store' = store
    BY <1>2 DEF requestVars
  <2>2. \A r \in Req : FlowInv(r)'
    BY <2>1, FlowKept DEF RequestInv
  <2>3. Types' /\ StoreInv'
    BY <2>1 DEF RequestInv, Types, StoreInv, TrueToKey
  <2>4. QED
    BY <1>1, <2>2, <2>3 DEF RequestInv
<1>3. ASSUME NEW r \in Req, HandlerStep(r) \/ Complete(r) PROVE RequestInv'
  <2>1. Types' /\ StoreInv' /\ FlowInv(r)'
    BY <1>3, TypesStep, StoreStep, FlowStep
  <2>2. ASSUME NEW q \in Req, q # r PROVE FlowInv(q)'
    BY <1>3, <2>2, OthersKept, FlowKept DEF RequestInv
  <2>3. QED
    BY <1>1, <2>1, <2>2 DEF RequestInv
<1>4. QED
  BY <1>2, <1>3 DEF Next, vars

-----------------------------------------------------------------------------
\* Whatever the Configures change while a request is on its way, the image it leaves in
\* the cache is the one its key names.
THEOREM CacheTrueToKey == Spec => []CacheMatchesKey
<1>1. RequestInv => CacheMatchesKey
  BY DEF RequestInv, StoreInv, TrueToKey, CacheMatchesKey, Whole
<1>2. QED
  BY <1>1, InitRequestInv, RequestInvStep, PTL DEF Spec

\* An image is in the format of its Content-Type header, one the client welcomes, and of
\* the URI it asked for, from the cache as from the converter.
THEOREM ImagesMatchHeaders == Spec => []ImageMatchesHeader
<1>1. ASSUME NEW r \in Req, NEW format, Chosen(r, format)
      PROVE  AcceptOf[r] = <<>> \/ Welcome(AcceptOf[r], format)
  <2>1. CASE AcceptOf[r] # <<>>
    <3>1. PICK i \in DOMAIN AcceptOf[r] :
            /\ MatchesType(AcceptOf[r][i].range, ContentType(format))
            /\ Quality(AcceptOf[r][i]) > 0
      BY <1>1, <2>1 DEF Chosen, Accepts
    <3>2. /\ AcceptOf[r][i].range[1] \in {"image", "*"}
          /\ AcceptOf[r][i].range[2] \in {format, "*"}
      BY <3>1 DEF MatchesType, ContentType
    <3>3. QED
      BY <3>1, <3>2 DEF Welcome
  <2>2. QED
    BY <2>1
<1>2. RequestInv => ImageMatchesHeader
  BY <1>1 DEF RequestInv, FlowInv, Promised, ImageMatchesHeader
<1>3. QED
  BY <1>2, InitRequestInv, RequestInvStep, PTL DEF Spec

\* The client gets an image and nothing else, or original chunks in order of which only
\* the head can be missing, and none where the body could be buffered.
THEOREM BodiesIntact == Spec => []BodyIntact
<1>1. ASSUME RequestInv, NEW r \in Req, Answered(r), stream[r].image = NoImage
      PROVE  /\ \E n \in 0 .. Length[r] :
                    stream[r].chunks = SubSeq(Original(r), n + 1, Length[r])
             /\ request[r].here /\ Bufferable(r) => stream[r].chunks = Original(r)
  <2>1. Passed(r, Length[r])
    BY <1>1 DEF RequestInv, FlowInv, Finished, Answered, Awaits
  <2>2. Original(r) = Whole(Length[r]) /\ Length[r] \in Nat
    BY LengthAssumption DEF Original, Whole
  <2>3. QED
    BY <2>1, <2>2, FromGrows DEF Passed
<1>2. RequestInv => BodyIntact
  BY <1>1 DEF RequestInv, FlowInv, Finished, Answered, Awaits, BodyIntact
<1>3. QED
  BY <1>2, InitRequestInv, RequestInvStep, PTL DEF Spec

\* A response whose headers the agent left alone reaches the client whole.
THEOREM UntouchedResponses == Spec => []UntouchedUnlessCommitted
<1>1. RequestInv => UntouchedUnlessCommitted
  BY DEF RequestInv, FlowInv, Finished, Passed, Answered, Awaits, UntouchedUnlessCommitted, Original,
         Whole
<1>2. QED
  BY <1>1, InitRequestInv, RequestInvStep, PTL DEF Spec

\* No handler puts a state back that RequestComplete removed.
THEOREM StatesReleased == Spec => StateReleased
<1>1. RequestInv /\ [Next]_vars =>
        [\A r \in Req : request'[r].here => request[r].here \/ Awaits(r, "insert_state")]_vars
  <2> SUFFICES ASSUME RequestInv, Next, NEW q \in Req, request'[q].here, ~request[q].here
               PROVE  Awaits(q, "insert_state")
    OBVIOUS
  <2>1. PICK r \in Req : HandlerStep(r) \/ Complete(r)
    BY DEF Next, requestVars
  <2>2. q = r
    BY <2>1, OthersKept DEF RequestInv
  <2>3. request \in [Req -> State] /\ request[r] \in State
    BY DEF RequestInv, Types
  <2>4. InsertState(r)
    BY <2>1, <2>2, <2>3 DEF HandlerStep, Complete, MatchPatterns, NotOk, NotEligible, NotAcceptable,
       LetThrough, Negotiate, Lookup, PassChunk, ServeCached, Overflows, Undecodable, StopBuffering,
       BufferChunk, TakeBody, ReadQuality, ReadLimit, FindConverter, ConversionFails, TooLarge,
       Convert, Store, Absent, State
  <2>5. QED
    BY <2>2, <2>4 DEF InsertState
<1>2. QED
  BY <1>1, InitRequestInv, RequestInvStep, PTL DEF Spec, StateReleased
=============================================================================
