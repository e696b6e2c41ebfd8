-------------------------- MODULE ShardLockProofs --------------------------
(***************************************************************************)
(* What the guards of request_state can and cannot block, for any number   *)
(* of requests, workers and shards, however the requests fall on them.     *)
(***************************************************************************)
EXTENDS ShardLock, TLAPS

\* A worker polls one task at most, and only one that is not suspended.
PolledInv(w) ==
    /\ \A q, r \in worker[w] : q = r
    /\ \A r \in worker[w] : at[r] \in {"entry", "guarded", "read", "converted"}

\* A guard belongs to a handler of its own shard, which has locked it and either
\* runs or awaits the cache.
GuardInv(s) ==
    \A h \in guard[s] :
        /\ s = ShardOf[h]
        /\ LooksUp(h) \/ (at[h] = "guarded" /\ Polled(h))

\* Before its last chunk is handled a request has one left.
ChunkInv(r) == event[r] \in {"request_headers", "response_headers", "chunk"} => left[r] > 0

Inv ==
    /\ TypeOK
    /\ \A r \in Req : ChunkInv(r)
    /\ \A w \in Worker : PolledInv(w)
    /\ \A s \in Shard : GuardInv(s)

\* Every step keeps the state in its types and counts no chunk twice.
LEMMA TypeStep == Inv /\ [Next]_vars => TypeOK' /\ \A r \in Req : ChunkInv(r)'
<1> SUFFICES ASSUME Inv, [Next]_vars PROVE TypeOK' /\ \A q \in Req : ChunkInv(q)'
  OBVIOUS
<1> USE DEF Inv, TypeOK, Goto, ChunkInv
<1>1. ASSUME UNCHANGED <<event, left>>,
             at' \in [Req -> Place], worker' \in [Worker -> SUBSET Req],
             guard' \in [Shard -> SUBSET Req]
      PROVE  TypeOK' /\ \A q \in Req : ChunkInv(q)'
  BY <1>1
<1>2. ASSUME NEW r \in Req, Receive(r) \/ CacheAnswers(r) \/ ConversionEnds(r)
      PROVE  TypeOK' /\ \A q \in Req : ChunkInv(q)'
  BY <1>2 DEF Receive, CacheAnswers, ConversionEnds, Place
<1>3. ASSUME NEW r \in Req, Lock(r) PROVE TypeOK' /\ \A q \in Req : ChunkInv(q)'
  BY <1>1, <1>3, ShardAssumption DEF Lock, ShardOfRequest, Place
<1>4. ASSUME NEW r \in Req, AwaitCache(r) PROVE TypeOK' /\ \A q \in Req : ChunkInv(q)'
  BY <1>1, <1>4 DEF AwaitCache, Leave, Place
<1>5. ASSUME NEW r \in Req, AwaitConversion(r) PROVE TypeOK' /\ \A q \in Req : ChunkInv(q)'
  BY <1>1, <1>5 DEF AwaitConversion, Leave, Unlock, Place
<1>6. ASSUME NEW r \in Req, Return(r) PROVE TypeOK' /\ \A q \in Req : ChunkInv(q)'
  <2>1. PICK e \in Following(r) : event' = [event EXCEPT ![r] = e]
    BY <1>6 DEF Return, Expect
  <2>2. /\ e \in Event
        /\ e = "chunk" => event[r] = "response_headers" \/ (event[r] = "chunk" /\ left[r] > 1)
        /\ e \notin {"request_headers", "response_headers"} \/ event[r] = "request_headers"
    BY DEF Following, Event
  <2>3. left' = [left EXCEPT ![r] = IF event[r] = "chunk" THEN @ - 1 ELSE @]
    BY <1>6 DEF Return, Expect
  <2>4. event' \in [Req -> Event] /\ left' \in [Req -> Nat]
    BY <2>1, <2>2, <2>3
  <2>5. ASSUME NEW q \in Req PROVE ChunkInv(q)'
    BY <2>1, <2>2, <2>3
  <2>6. at' \in [Req -> Place] /\ worker' \in [Worker -> SUBSET Req] /\ guard' \in [Shard -> SUBSET Req]
    BY <1>6 DEF Return, Leave, Unlock, Place
  <2>7. QED
    BY <2>4, <2>5, <2>6
<1>7. ASSUME NEW r \in Req, NEW w \in Worker, Poll(w, r)
      PROVE  TypeOK' /\ \A q \in Req : ChunkInv(q)'
  BY <1>1, <1>7 DEF Poll
<1>8. CASE UNCHANGED vars
  BY <1>8 DEF vars
<1>9. QED
  BY <1>2, <1>3, <1>4, <1>5, <1>6, <1>7, <1>8 DEF Next, Handle

\* Only Poll gives a worker a task; a task that is suspended has left its worker.
LEMMA PolledStep == Inv /\ [Next]_vars => \A w \in Worker : PolledInv(w)'
<1> SUFFICES ASSUME Inv, [Next]_vars, NEW w \in Worker PROVE PolledInv(w)'
  OBVIOUS
<1> USE DEF Inv, TypeOK, PolledInv, Goto, Leave
<1>1. ASSUME NEW r \in Req, Receive(r) \/ CacheAnswers(r) \/ ConversionEnds(r)
      PROVE  PolledInv(w)'
  BY <1>1 DEF Receive, CacheAnswers, ConversionEnds
<1>2. ASSUME NEW r \in Req, Lock(r) PROVE PolledInv(w)'
  BY <1>2 DEF Lock
<1>3. ASSUME NEW r \in Req, AwaitCache(r) \/ AwaitConversion(r) \/ Return(r) PROVE PolledInv(w)'
  BY <1>3 DEF AwaitCache, AwaitConversion, Return
<1>4. ASSUME NEW r \in Req, NEW v \in Worker, Poll(v, r) PROVE PolledInv(w)'
  BY <1>4 DEF Poll
<1>5. CASE UNCHANGED vars
  BY <1>5 DEF vars
<1>6. QED
  BY <1>1, <1>2, <1>3, <1>4, <1>5 DEF Next, Handle

\* A guard is taken by a handler that runs; every handler drops it before it is
\* suspended, but for the lookup, and before it returns.
LEMMA GuardStep == Inv /\ [Next]_vars => \A s \in Shard : GuardInv(s)'
<1> SUFFICES ASSUME Inv, [Next]_vars, NEW s \in Shard, NEW h \in guard'[s]
             PROVE  /\ s = ShardOf[h]
                    /\ LooksUp(h)' \/ (at'[h] = "guarded" /\ \E w \in Worker : h \in worker'[w])
  BY DEF GuardInv, Polled
<1> USE DEF Inv, TypeOK, GuardInv, LooksUp, Polled, Goto, Leave, Unlock
<1>1. ASSUME NEW r \in Req, Receive(r) \/ CacheAnswers(r) \/ ConversionEnds(r)
      PROVE  /\ s = ShardOf[h]
             /\ LooksUp(h)' \/ (at'[h] = "guarded" /\ \E w \in Worker : h \in worker'[w])
  BY <1>1 DEF Receive, CacheAnswers, ConversionEnds
<1>2. ASSUME NEW r \in Req, Lock(r)
      PROVE  /\ s = ShardOf[h]
             /\ LooksUp(h)' \/ (at'[h] = "guarded" /\ \E w \in Worker : h \in worker'[w])
  BY <1>2 DEF Lock, ShardOfRequest
<1>3. ASSUME NEW r \in Req, AwaitCache(r)
      PROVE  /\ s = ShardOf[h]
             /\ LooksUp(h)' \/ (at'[h] = "guarded" /\ \E w \in Worker : h \in worker'[w])
  BY <1>3 DEF AwaitCache
<1>4. ASSUME NEW r \in Req, AwaitConversion(r) \/ Return(r)
      PROVE  /\ s = ShardOf[h]
             /\ LooksUp(h)' \/ (at'[h] = "guarded" /\ \E w \in Worker : h \in worker'[w])
  BY <1>4 DEF AwaitConversion, Return
<1>5. ASSUME NEW r \in Req, NEW w \in Worker, Poll(w, r)
      PROVE  /\ s = ShardOf[h]
             /\ LooksUp(h)' \/ (at'[h] = "guarded" /\ \E v \in Worker : h \in worker'[v])
  BY <1>5 DEF Poll
<1>6. CASE UNCHANGED vars
  BY <1>6 DEF vars
<1>7. QED
  BY <1>1, <1>2, <1>3, <1>4, <1>5, <1>6 DEF Next, Handle

\* The types, the polled tasks and the guards are as the invariants say in every state.
LEMMA Invariance == Spec => []Inv
<1>1. Init => Inv
  BY ShardAssumption DEF Init, Inv, TypeOK, Event, Place, ChunkInv, PolledInv, GuardInv
<1>2. Inv /\ [Next]_vars => Inv'
  BY TypeStep, PolledStep, GuardStep DEF Inv
<1>3. QED
  BY <1>1, <1>2, PTL DEF Spec

\* A worker that is blocked on the lock of a shard waits for a handler that runs, or
\* for the cache lookup of another request and nothing else: the lookup is the only
\* place at which a handler is suspended with the guard of a shard.
THEOREM OnlyLookupsBlock == Spec => []BlockedByLookups
<1>1. Inv => BlockedByLookups
  <2> SUFFICES ASSUME Inv, NEW w \in Worker, NEW r \in worker[w],
                      NEW h \in guard[ShardOfRequest(r)], ~LooksUp(h)
               PROVE  \E v \in Worker : h \in worker[v] /\ ~Blocks(v)
    BY DEF BlockedByLookups
  <2>1. r \in Req /\ ShardOf[r] \in Shard
    BY ShardAssumption DEF Inv, TypeOK
  <2>2. at[h] = "guarded" /\ Polled(h)
    BY <2>1 DEF Inv, GuardInv, ShardOfRequest
  <2>3. PICK v \in Worker : h \in worker[v]
    BY <2>2 DEF Polled
  <2>4. ~Blocks(v)
    BY <2>2, <2>3 DEF Blocks, Inv, PolledInv
  <2>5. QED
    BY <2>3, <2>4
<1>2. QED
  BY <1>1, Invariance, PTL
=============================================================================
