----------------------------- MODULE CacheStore -----------------------------
(***************************************************************************)
(* What a cache promises to the handler: the trait CacheStore of           *)
(* src/src/cache/mod.rs.  A key has one entry at most; put stores it at    *)
(* one instant, get returns what is stored at one instant or misses, and   *)
(* the cache may forget entries at any time (an eviction, an expiry, a     *)
(* failure, a restart).                                                    *)
(*                                                                         *)
(* One thing weakens the promise: once a key is put a second time, a get   *)
(* of it may return torn bytes.                                            *)
(***************************************************************************)
EXTENDS Naturals

CONSTANTS
    Key, Proc,   \* keys, and tasks that call the cache
    Rendition,   \* [Key -> set of images]: what may be put under a key
    Nothing,     \* no entry, no image
    Torn         \* bytes that no put stored

VARIABLES
    entry,    \* [Key -> the image stored under it, or Nothing]
    puts,     \* [Key -> how often it was put]
    client    \* [Proc -> what it asked of the cache and what it got]

vars == <<entry, puts, client>>

\* at: "idle", "get", "hit", "missed", "put" (not stored yet) or "stored"; key is
\* of a get, its answer or a put, image of a hit or a put.
Client(at, key, image) == [at |-> at, key |-> key, image |-> image]
Idle == Client("idle", Nothing, Nothing)
Returning == Client("stored", Nothing, Nothing)

Init ==
    /\ entry = [k \in Key |-> Nothing]
    /\ puts = [k \in Key |-> 0]
    /\ client = [p \in Proc |-> Idle]

Turn(p, c) == client' = [client EXCEPT ![p] = c]

(* get *)

Get(p, k) ==
    /\ client[p] = Idle
    /\ Turn(p, Client("get", k, Nothing))
    /\ UNCHANGED <<entry, puts>>

\* A get may miss whatever is stored, also on arrival.
Miss(p, k) ==
    /\ client[p] \in {Idle, Client("get", k, Nothing)}
    /\ Turn(p, Client("missed", k, Nothing))
    /\ UNCHANGED <<entry, puts>>

\* A hit is the entry of the key at that instant.
Hit(p, k) ==
    /\ client[p] = Client("get", k, Nothing)
    /\ entry[k] # Nothing
    /\ Turn(p, Client("hit", k, entry[k]))
    /\ UNCHANGED <<entry, puts>>

TornHit(p, k) ==
    /\ client[p] = Client("get", k, Nothing)
    /\ puts[k] > 1
    /\ Turn(p, Client("hit", k, Torn))
    /\ UNCHANGED <<entry, puts>>

(* put *)

Drop(k) == entry' = [entry EXCEPT ![k] = Nothing]

Put(p, k, image) ==
    /\ client[p] = Client("missed", k, Nothing)
    /\ puts' = [puts EXCEPT ![k] = @ + 1]
    /\ Turn(p, Client("put", k, image))
    /\ UNCHANGED entry

\* The put replaces the entry of its key, once.
Store(p, k) ==
    /\ client[p].at = "put" /\ client[p].key = k
    /\ entry' = [entry EXCEPT ![k] = client[p].image]
    /\ Turn(p, Returning)
    /\ UNCHANGED puts

\* It stores nothing, or spoils what another put of the key stored.
StoreLost(p, k) ==
    /\ client[p].at = "put" /\ client[p].key = k
    /\ UNCHANGED entry \/ Drop(k)
    /\ Turn(p, Returning)
    /\ UNCHANGED puts

\* A put that is cut short may spoil the entry of its key.
Spoil(p) == UNCHANGED entry \/ (client[p].at = "put" /\ Drop(client[p].key))

\* The handler has its answer, or the put returned, with success or not.
Return(p) ==
    /\ Spoil(p)
    /\ Turn(p, Idle)
    /\ UNCHANGED puts

Forget(k) ==
    /\ Drop(k)
    /\ UNCHANGED <<puts, client>>

\* The process dies; what is stored stays.
Restart ==
    /\ \E p \in Proc : Spoil(p)
    /\ client' = [p \in Proc |-> Idle]
    /\ UNCHANGED puts

Next ==
    \/ \E p \in Proc, k \in Key :
          \/ Get(p, k) \/ Miss(p, k) \/ Hit(p, k) \/ TornHit(p, k)
          \/ \E image \in Rendition[k] : Put(p, k, image)
          \/ Store(p, k) \/ StoreLost(p, k)
    \/ \E p \in Proc : Return(p)
    \/ \E k \in Key : Forget(k)
    \/ Restart

Spec == Init /\ [][Next]_vars
=============================================================================
