------------------------ MODULE FsCacheRequirements ------------------------
(***************************************************************************)
(* What src/src/cache/filesystem.rs promises, over the machine of FsCache. *)
(***************************************************************************)
EXTENDS FsCache

\* The sum of the numbers f[x], counted unit by unit: x has the units <<x, 1>>, <<x, 2>>
\* up to <<x, f[x]>>.
Units(f) == UNION {{x} \X (1 .. f[x]) : x \in DOMAIN f}
Total(f) == Cardinality(Units(f))

DiskBytes == Total([k \in Key |-> data[k].size])

Quiet == scan.stage = "serving" /\ \A p \in Proc : At(p, "idle")

-----------------------------------------------------------------------------
(* Accounting and eviction                                                 *)

\* Between operations the counter is the bytes in the data files
\* (fetch_add of put, fetch_sub of an expiry and of an eviction, the scan).
CounterExact == Quiet => currentSize = DiskBytes

\* Between operations no counted bytes exceed the limit: every put that lifts
\* the counter over max_size_bytes evicts before it returns.
CounterWithinLimit == Quiet => currentSize <= limits.max_size

\* Between operations data files and sidecars come in pairs, and the sidecar
\* tells the length of its data file: expiry and eviction remove both, put
\* writes both.
FilesPaired ==
    Quiet => \A k \in Key :
        /\ data[k].here = sidecar[k].here
        /\ data[k].here => Readable(k) /\ sidecar[k].optimized_size = data[k].size

\* An eviction sets out only when the files on the disk exceed the limit.
EvictsOnlyWhenFull ==
    [][\A p \in Proc : At(p, "load") /\ pc'[p] = "list" => DiskBytes > limits.max_size]_vars

\* The file an eviction removes is the oldest one on the disk, and it removes
\* no more than it needs: what stays is over the limit without the last removal.
EvictsOldestFirst ==
    [][\A p \in Proc, k \in Key :
          Listed(p) /\ data[k].here /\ ~data'[k].here =>
             /\ \A l \in Key : data[l].here => CreatedAt(k) <= CreatedAt(l)
             /\ DiskBytes > limits.max_size]_vars

-----------------------------------------------------------------------------
(* Tasks that interleave                                                   *)

\* Bytes of puts that have opened their data file and not added to the counter.
UncountedOf(p) ==
    IF pc[p] \in {"write_data", "open_meta", "write_meta", "count"} THEN op[p].size ELSE 0
Uncounted == Total([p \in Proc |-> UncountedOf(p)])

\* Bytes evictions have removed and not subtracted from the counter yet.
UnsubtractedOf(p) == op[p].freed + IF At(p, "remove_meta") THEN op[p].entry.size ELSE 0
Unsubtracted == Total([p \in Proc |-> UnsubtractedOf(p)])

\* While every operation succeeds and nothing expires, the counter may count a
\* byte twice but never misses one: what is on the disk is counted, or about to
\* be counted by the put that wrote it, whatever evictions run beside it.
NeverUndercounts == scan.stage = "serving" => DiskBytes + Unsubtracted <= currentSize + Uncounted

PutsOrEvicts(p) ==
    pc[p] \notin Outside \cup {"read_data", "expire_data", "expire_meta", "expire_count"}

\* The last of the puts that run at once leaves the files themselves within the
\* limit, even where the counter is not: its eviction saw them all, also those
\* a kill left without a sidecar or over the limit.
LastPutRestoresLimit ==
    [][\A p \in Proc :
          /\ pc[p] \in {"load", "list", "remove_data"} /\ pc'[p] = "idle" /\ Serving'
          /\ \A q \in Proc \ {p} : ~PutsOrEvicts(q)
          => DiskBytes <= limits.max_size]_vars

\* A hit on a key that has been put once is a whole image, even while it is put,
\* removed or cut short: the sidecar that makes a data file reachable is written
\* after it.
FirstPutHitsAreWhole ==
    \A p \in Proc : At(p, "hit") /\ puts[op[p].key] = 1 => op[p].content \in Image

\* The abstract cache behind the files: the entry of a key is its data file, once
\* that is whole, and the sidecar only decides whether a get looks at it.
StoredEntry == [k \in Key |->
    IF data[k].here /\ data[k].content \in Image THEN data[k].content ELSE Blank]

Caller(at, key, image) == [at |-> at, key |-> key, image |-> image]

Getting == {"read_data", "expire_data", "expire_meta", "expire_count"}

ClientOf(p) ==
    CASE At(p, "idle") -> Caller("idle", Blank, Blank)
      [] pc[p] \in Getting -> Caller("get", op[p].key, Blank)
      [] At(p, "missed") -> Caller("missed", op[p].key, Blank)
      [] At(p, "hit") -> Caller("hit", op[p].key,
                                IF op[p].content \in Image THEN op[p].content ELSE Mixed)
      [] pc[p] \in {"open_data", "write_data"} -> Caller("put", op[p].key, op[p].content)
      [] OTHER -> Caller("stored", Blank, Blank)

Store == INSTANCE CacheStore WITH
    entry <- StoredEntry, client <- [p \in Proc |-> ClientOf(p)],
    Nothing <- Blank, Torn <- Mixed

\* The files implement the cache that the handler relies on: whatever tasks, kills,
\* failures and Configures interleave, a hit is the image that the last put of its
\* key to complete has stored and nothing has removed, at the moment its data is
\* read, or it is torn and the key was put before.
ImplementsCacheStore == Store!Spec

\* Every lookup, put and eviction ends, whatever the other tasks remove or add.
OperationsEnd == \A p \in Proc : ~At(p, "idle") ~> At(p, "idle")

-----------------------------------------------------------------------------
(* What the repository says and the code does not keep                     *)

\* "cached image should match first conversion" (src/tests/e2e.rs:425-428): a
\* hit serves an image some put stored, never a part of one.
HitsAreWhole == \A p \in Proc : At(p, "hit") => op[p].content \in Image

\* max_size_bytes is the "Maximum cache size in bytes" (config.rs:106), also when a
\* Configure opens the cache anew (handler.rs:146): between operations the files
\* are within it.
DiskWithinLimit == Quiet => DiskBytes <= limits.max_size

\* "Bytes the cache currently counts as stored" (filesystem.rs:54): between operations,
\* no more than the files hold.
CountsOnlyStoredBytes == Quiet => currentSize <= DiskBytes

\* p removes the data file of a complete entry.
RemovesComplete(p, k) == pc'[p] # pc[p] /\ data[k].here /\ ~data'[k].here /\ Readable(k)

\* max_size_bytes is the "Size at which the oldest entries are evicted", ttl_secs the "Age
\* after which an entry counts as a miss" (src/README.md:168-169): of complete entries an
\* expiry removes none within that age, and an eviction none younger than another one that it found.
RemovesOnlyOldEntries ==
    [][\A p \in Proc, k \in Key : RemovesComplete(p, k) =>
          IF At(p, "expire_data")
            THEN Expired(k)
            ELSE \A e \in op[p].entries : data[e.key].here /\ Readable(e.key) =>
                    sidecar[k].created_at <= sidecar[e.key].created_at]_vars
=============================================================================
