----------------------------- MODULE ShardLock -----------------------------
(***************************************************************************)
(* The guards of request_state, the DashMap of src/src/handler.rs, and the *)
(* worker threads of the runtime that polls its handlers.                  *)
(*                                                                         *)
(* The map is split into shards with one lock each.  Waiting for such a    *)
(* lock blocks the worker thread, not only the task.  on_response_headers  *)
(* keeps its guard while it awaits the cache: the task is suspended, its   *)
(* worker polls other tasks, and they may wait for that guard.             *)
(*                                                                         *)
(* A request here has one event under way at a time; a RequestComplete     *)
(* that overtakes another event of its request waits for the lock as one   *)
(* more request of the shard would.                                        *)
(***************************************************************************)
EXTENDS Integers, FiniteSets

CONSTANTS
    Req,      \* requests, each on a connection of its own
    Worker,   \* worker threads of the runtime
    Shard,    \* shards of the map
    ShardOf,  \* [Req -> Shard]: by the hash of the correlation id
    Chunks    \* [Req -> Nat]: how many chunks its response body has

ASSUME ShardAssumption ==
    /\ ShardOf \in [Req -> Shard] /\ Worker # {}
    /\ Chunks \in [Req -> Nat \ {0}]

VARIABLES
    event,    \* [Req -> the event of the request the agent has or expects]
    left,     \* [Req -> the chunks of its body that are not handled yet]
    at,       \* [Req -> where the handler of that event is]
    worker,   \* [Worker -> the requests whose handler it polls: none or one]
    guard     \* [Shard -> the requests that hold its lock: none or one]

vars == <<event, left, at, worker, guard>>

\* expected: not sent yet; entry: about to lock its shard; guarded: has the
\* lock; reading and read: awaiting the cache with the lock, and about to go on;
\* converting and converted: the same without the lock.
Place == {"expected", "entry", "guarded", "reading", "read", "converting", "converted"}

Event == {"request_headers", "response_headers", "chunk", "complete", "over"}

TypeOK ==
    /\ event \in [Req -> Event]
    /\ left \in [Req -> Nat]
    /\ at \in [Req -> Place]
    /\ worker \in [Worker -> SUBSET Req]
    /\ guard \in [Shard -> SUBSET Req]

Init ==
    /\ event = [r \in Req |-> "request_headers"]
    /\ left = Chunks
    /\ at = [r \in Req |-> "expected"]
    /\ worker = [w \in Worker |-> {}]
    /\ guard = [s \in Shard |-> {}]

ShardOfRequest(r) == ShardOf[r]

Polled(r) == \E w \in Worker : r \in worker[w]

Goto(r, place) == at' = [at EXCEPT ![r] = place]

\* The handler returns Pending or its answer: the worker is free for others.
Leave(r) == worker' = [w \in Worker |-> worker[w] \ {r}]

Unlock(r) == guard' = [s \in Shard |-> guard[s] \ {r}]

\* The proxy sends the event, the server spawns or wakes the task for it.
Receive(r) ==
    /\ at[r] = "expected" /\ event[r] # "over"
    /\ Goto(r, "entry")
    /\ UNCHANGED <<event, left, worker, guard>>

\* An idle worker takes a task that can go on.
Poll(w, r) ==
    /\ worker[w] = {} /\ ~Polled(r)
    /\ at[r] \in {"entry", "read", "converted"}
    /\ worker' = [worker EXCEPT ![w] = {r}]
    /\ UNCHANGED <<event, left, at, guard>>

\* insert, get_mut and remove lock the shard: a worker that finds the lock taken stays here.
Lock(r) ==
    /\ at[r] = "entry" /\ Polled(r)
    /\ guard[ShardOfRequest(r)] = {}
    /\ guard' = [guard EXCEPT ![ShardOfRequest(r)] = {r}]
    /\ Goto(r, "guarded")
    /\ UNCHANGED <<event, left, worker>>

\* on_response_headers awaits config, cache and the file reads of get.
AwaitCache(r) ==
    /\ at[r] = "guarded" /\ Polled(r) /\ event[r] = "response_headers"
    /\ Goto(r, "reading")
    /\ Leave(r)
    /\ UNCHANGED <<event, left, guard>>

CacheAnswers(r) ==
    /\ at[r] = "reading"
    /\ Goto(r, "read")
    /\ UNCHANGED <<event, left, worker, guard>>

\* Mutant: the guard is kept while the image is converted.
AwaitConversionGuarded(r) ==
    /\ at[r] = "guarded" /\ Polled(r) /\ event[r] = "chunk" /\ left[r] = 1
    /\ Goto(r, "converting")
    /\ Leave(r)
    /\ UNCHANGED <<event, left, guard>>

\* The last chunk: drop(state), then await the conversion and the put.
AwaitConversion(r) ==
    /\ at[r] = "guarded" /\ Polled(r) /\ event[r] = "chunk" /\ left[r] = 1
    /\ Unlock(r)
    /\ Goto(r, "converting")
    /\ Leave(r)
    /\ UNCHANGED <<event, left>>

ConversionEnds(r) ==
    /\ at[r] = "converting"
    /\ Goto(r, "converted")
    /\ UNCHANGED <<event, left, worker, guard>>

\* The proxy sends the events in order; RequestComplete may cut them short.
Following(r) ==
    CASE event[r] = "request_headers" -> {"response_headers", "complete"}
      [] event[r] = "response_headers" -> {"chunk", "complete"}
      [] event[r] = "chunk" -> {"complete"} \cup IF left[r] > 1 THEN {"chunk"} ELSE {}
      [] OTHER -> {"over"}

Expect(r) ==
    /\ \E e \in Following(r) : event' = [event EXCEPT ![r] = e]
    /\ left' = [left EXCEPT ![r] = IF event[r] = "chunk" THEN @ - 1 ELSE @]

\* Mutant: the guard outlives the handler.
ReturnGuarded(r) ==
    /\ at[r] \in {"guarded", "read", "converted"} /\ Polled(r)
    /\ Expect(r)
    /\ Goto(r, "expected")
    /\ Leave(r)
    /\ UNCHANGED guard

\* The handler returns: its guard, if it still has one, is dropped.
Return(r) ==
    /\ at[r] \in {"guarded", "read", "converted"} /\ Polled(r)
    /\ Expect(r)
    /\ Unlock(r)
    /\ Goto(r, "expected")
    /\ Leave(r)

Handle(r) ==
    \/ Receive(r) \/ Lock(r) \/ AwaitCache(r) \/ CacheAnswers(r)
    \/ AwaitConversion(r) \/ ConversionEnds(r) \/ Return(r)

Next == \E r \in Req : Handle(r) \/ \E w \in Worker : Poll(w, r)

Spec == Init /\ [][Next]_vars

\* Workers run, idle ones poll what is ready, file reads and conversions end, and
\* the proxy ends every request.
FairSpec ==
    /\ Spec
    /\ \A r \in Req : WF_vars(Handle(r)) /\ WF_vars(\E w \in Worker : Poll(w, r))

-----------------------------------------------------------------------------
(* Properties                                                              *)

\* w is blocked on the lock of a shard, with the request that it polls.
Blocks(w) == \E r \in worker[w] : at[r] = "entry" /\ guard[ShardOfRequest(r)] # {}

\* The cache lookup of on_response_headers, which keeps its guard.
LooksUp(r) == at[r] \in {"reading", "read"}

\* Whom a blocked worker waits for: a handler that runs on a worker which is not
\* blocked, or the cache lookup of another request.  No guard outlives its handler,
\* none is kept during a conversion, and no holder of one waits for another.
BlockedByLookups ==
    \A w \in Worker : \A r \in worker[w] : at[r] = "entry" =>
        \A h \in guard[ShardOfRequest(r)] :
            LooksUp(h) \/ \E v \in Worker : h \in worker[v] /\ ~Blocks(v)

\* Every worker is blocked on the guard of a lookup that no worker goes on with.
StuckOnLookups ==
    \A w \in Worker : \E r \in worker[w] :
        at[r] = "entry" /\ \E h \in guard[ShardOfRequest(r)] : LooksUp(h) /\ ~Polled(h)

\* A request is handled to its end, unless the guards of lookups block all the
\* workers for ever: nothing else that the handlers do with the map loses an event.
EndsUnlessStuck == \A r \in Req : <>(event[r] = "over") \/ <>[]StuckOnLookups

-----------------------------------------------------------------------------
(* What the repository says and the code does not keep                     *)

\* The agent "checks the upstream's `Content-Type` on the response, [...] converts it
\* and hands the converted bytes back to the proxy" (src/README.md:26-29): every event of
\* every request is handled.  The guard that on_response_headers keeps while it awaits
\* the cache (handler.rs:299-377) lets the agent come to a stop for good.
RequestsEnd == \A r \in Req : <>(event[r] = "over")
=============================================================================
