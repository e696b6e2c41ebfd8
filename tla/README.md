# A verification project for the image optimization agent

TLA+ modules that model the agent of this repository, configurations that
model-check them with TLC, and theorems proved with TLAPS. Paths are relative
to the repository (`src/` is the crate inside it); `filesystem.rs`,
`handler.rs`, ... are the files under `src/src/`.

## The system

The agent serves a proxy. For each request the proxy sends the events
RequestHeaders, ResponseHeaders, a series of ResponseBodyChunk and
RequestComplete; on every connection it also sends a Configure.

| Component | State | Operations | Interacts with |
|---|---|---|---|
| Filesystem cache (`cache/filesystem.rs`) | `{key}.bin` and `{key}.meta.json` per key, `current_size` | `new` (with `scan_size`), `get` (with lazy expiry), `put`, `maybe_evict` | called by the pipeline, opened by `new` and Configure; shares files between all tasks |
| Cache interface and key (`cache/mod.rs`, `cache/key.rs`) | none | `get`, `put`; `cache_key(uri, format, quality)` | between pipeline and cache |
| Configure (`handler.rs: apply_config`, `configure.rs`) | `config`, `passthrough_patterns`, `converters`, `cache`, `configure_lock` | `apply_config`: merge, validate, compare, build, publish | changes under running requests what they read |
| Settings (`config.rs`) | the settings record | `validate_config` | Configure, startup |
| Request pipeline (`handler.rs`) | `request_state` (a DashMap by correlation id), locals of each handler | `on_request_headers`, `on_response_headers`, `on_response_body_chunk`, `on_request_complete` | reads the settings, calls cache and converters |
| Chunk buffer (`buffer.rs`) | the bytes of one body | `append`, `take` | part of a request's state |
| Content negotiation (`negotiation.rs`) | none | `negotiate_format` | pipeline |
| Converters (`converter/`) | none | `convert` | run in a blocking task of the pipeline |
| Errors, command line, servers, packaging | none | startup only | not modelled |

What is hard here: every file operation and every lock is an await, so tasks
interleave between any two of them and share files, one counter and four
settings that are published one by one; a data file and its sidecar are two
files, written and removed in two steps, while the process may die in between;
headers are committed before the body is known, so each failure after that must
still answer with a usable body.

What makes each component correct:

- *Cache*: the counter follows the files; the disk stays within
  `max_size_bytes`; an eviction removes the oldest and no more than needed; a
  hit is what the last put of its key stored, and whole; every operation ends.
- *Configure*: the four published places agree; no update is lost; an identical
  block applies once; what is reported as changed is what changed; a rejected
  block changes nothing; every Configure returns.
- *Negotiation*: the format is the first configured one that the Accept header
  allows.
- *Pipeline*: a cached image is what its key says; an image sent is of the
  format promised in the headers; the client gets either an image or the whole
  original; state does not outlive its request; every request is answered.

## The modules

| Module | What it is |
|---|---|
| `FsCache` | the filesystem cache, one action per file operation or atomic access |
| `FsCacheRequirements` | what it promises, the mapping under which it implements `CacheStore`, and four promises it does not keep |
| `CacheStore` | the abstract specification: the cache as the handler uses it, each get and put at one instant |
| `FsCacheProofs` | proofs of its type invariant and of `FirstPutHitsAreWhole` |
| `SerialCacheProofs` | proofs of `FilesPaired`, of the exact counter and of what an eviction does, for operations one after the other |
| `CounterProofs` | proofs of `NeverUndercounts` and `LastPutRestoresLimit` for tasks that interleave and a process that is killed |
| `CacheStoreProofs` | proof that `FsCache` implements `CacheStore` |
| `Negotiation`, `NegotiationProofs` | `negotiate_format`, what RFC 7231 says, and proofs of how they relate |
| `Configure` | `apply_config` step by step, with its properties; it extends `Negotiation` with the settings |
| `ConfigureProofs` | proofs that the settings are coherent, no update is lost, an identical block applies once and the report of changes is true |
| `RequestFlow` | the pipeline, extending `Configure`, so that requests and Configures interleave |
| `RequestRequirements` | what the pipeline promises, and one it does not keep |
| `RequestProofs` | proofs of all its safety properties |
| `ShardLock` | the shard locks of `request_state` and the worker threads, with its properties |
| `ShardLockProofs` | proof of what the guards can block a worker for |
| `MCFsCache`, `MCConfigure`, `MCRequestFlow`, `MCShardLock`, `MCSettings` | small instances for TLC |

Operators whose comment begins with *Mutant* are no part of a model: each is a
plausible bug, used to see that a property notices it when it replaces the
definition after it.

### FsCache

`data[k]` and `sidecar[k]` are the two files of key `k`. A file has a content
(an image, *blank* between truncation and write, or *mixed* when a write stopped early
or a shorter image was written over the head of a longer one) and the set of tasks that hold it
open: a write to a file that was unlinked meanwhile reaches nobody. `op[p]` holds
the locals of task `p` and `pc[p]` the file operation it is about to do. A task
is one request as it meets the cache: a `get`, and a `put` only after a miss.

| Code | Actions |
|---|---|
| `new`, `scan_size` | `Init`, `ScanEntry`, `ScanStore`; `Crash` returns to them |
| `apply_config` opening a cache (`handler.rs:146, :168`) | `Reopen`, `ScanEntry`, `Publish` |
| `get` | `GetMisses`, `GetFindsFresh`, `GetFindsExpired`, then `ReadData`, or `ExpireData`, `ExpireMeta`, `ExpireCount`; `ReadFails`, `RemovalFails` |
| `put` | `Put`, `OpenData`, `WriteData`, `OpenMeta`, `WriteMeta`, `Count`; `PutFails` |
| `maybe_evict` | `LoadSize`, `ListName`, `StatEntry`, `ReadCreatedAt` per file, `RemoveData`, `RemoveMeta`, `SubtractFreed`; `RemovalFails` |
| the handler around it | `ServeHit`, `GiveUp` |

A `get` of an existing sidecar that the code reads and parses is one action: the
read is one operation. Two-level sharding is left out: it decides where a file
lies, not what happens to it. The failure of `create_dir_all` in `put` is
`GiveUp`. A write of image bytes that fails, or is under way when the process is
killed, leaves nothing or the first bytes of the image, as many as one likes
(`CutShort`); of several writes that a kill finds, one at most is cut short. A
sidecar cut short is no JSON text and reads like an empty one. A removal that
fails though the file is there (`RemovalFails`) is skipped by an eviction and
ignored by an expiry, which subtracts the size all the same. The counter is a number
modulo `Wrap`, as `fetch_sub` of an `AtomicU64` wraps. A crash keeps what reached the files (a process crash, not a
power failure), and the next process starts from the settings file, which may
have been edited in between.

A Configure that changes a setting of the cache opens a second
`FilesystemCache` on the same directory: it scans the files while tasks go on
in the old cache, and is published when no task holds the lock of the agent's
cache, which every get and put holds for reading until it returns. `limits`
holds the `max_size_bytes` and `ttl_secs` of the cache in use, `scan.limits`
those of the one that is being opened; `Changes` are the values a Configure, or an
edit before a restart, may give them.

### CacheStore

Under the mapping `Store` of `FsCacheRequirements` the entry of a key is its
data file, once that holds a whole image; the sidecar only decides whether a
get looks at it, which is why an abstract get may always miss. A get takes
effect when it reads the data file, a put when its write completes. Evictions,
expiries, failures and kills are `Forget`, `StoreLost` and `Restart`; a put that
fails or is killed in the middle of its write may spoil the entry of its key (`Spoil`). What the
files cannot keep is in the abstract specification as `TornHit`: a key put more
than once may be hit with torn bytes (run `fs_torn_hit`).

### Negotiation

An Accept header is a sequence of parts, each a media range and its `q=`
parameters; the last one counts, one that is no number is 1.0. `Accepts` is
`accept_quality` compared with zero: the largest quality of the parts that
match. `Permits` is the rule of RFC 7231, section 5.3.2, where the most specific
part decides. They differ for `image/webp;q=0, */*`, which the code accepts.

### Configure

`stage[c]` is the await or shard-map operation connection `c`'s `apply_config`
is about to do, `new[c]` its `new_config`. `holder` is `configure_lock`; taking
it is a step (`Lock`), and the read of the settings with all that is computed
from them another (`Refuse`, `Ignore` or `Begin`), since nothing else writes the
settings while the lock is held. Each way out is to release it (`Return`). The hash
comparison of `config_hash` is equality: a 64-bit collision is left out.
`changed[c]` is what the report names, the paths at which old and new settings
differ, compared before anything is published. All settings of `config.rs` are
there, except that of the cache block only `enabled` and `directory` are: its
limits are constants of `FsCache`. A value that is no object is refused before
the lock. A pattern is the set of URIs that it matches, and a member of its own,
`NoRegex`, for one that does not compile and is refused. Defaults of missing settings are data.

### RequestFlow

`request[r]` is the entry of `request_state`, `task[r]` where the handler of
`r` is and its locals, `stream[r]` the response as the client sees it, `store`
the cache as `CacheStore` promises: a `get` may miss at any time, a `put` may
fail (torn bytes are left to `FsCache`). `AcceptOf`, `TypeOf` and `Pixels` are what
a request and its response bring along: the negotiation, the eligible content
types and the pixel limit read the settings of the moment. A chunk is its index and counts one against `max_input_size`; an image is
the record of what it was converted from and how, so that a wrong key, format
or quality shows. `SHA-256` in the key is taken as injective. WebP is always encoded without
loss, so that only AVIF images show their quality. RequestComplete may
come while a handler converts (the state's guard was dropped) but not while one
holds the guard. Two kinds of branches are not modelled, as the proxy's order of
events never takes them: those for a request without a state (`handler.rs:301`,
`:424-427`), since RequestHeaders comes first and nothing of a request follows its
RequestComplete, and that for one without a target format (`:498-514`), since
ResponseHeaders comes before the body and an eligible request has a target from
there on.

### ShardLock

`RequestFlow` lets a handler that needs the state of a request simply wait.
In the program the wait is for the lock of a DashMap shard, it blocks the worker
thread, and `on_response_headers` holds that lock across its awaits
(`handler.rs:299-377`), whereas `on_response_body_chunk` drops it before its own
(`handler.rs:521-522`). `guard[s]` is the holder of shard `s`, `worker[w]` the
task that worker `w` polls; a task at `entry` whose shard is locked keeps its
worker. Every chunk of a body is an event that takes the lock again; `left[r]`
counts those to come. What the handlers do with the state is left to `RequestFlow`.

## The runs

| Run | Bounds | Shows |
|---|---|---|
| `fs_serial` | 1 task, 3 keys, images of 2 and 3 bytes, limit 4, 3 puts per key, clock to 4 | the accounting of one task at a time is exact, files come in pairs, eviction is oldest-first and minimal |
| `fs_concurrent` | 2 tasks, 2 keys, limit 3, 2 puts per key, 1 kill at any step, also in the middle of a write, after which the limit may be lowered to 2, no expiry, no failing operation, the clock stands still, so that entries with a sidecar tie and may be evicted in any order; tasks symmetric | the counter never undercounts, also of files a kill left without a sidecar; the last put leaves the disk within the limit, also a limit lowered since; first puts are served whole |
| `fs_faults` | 2 tasks, 1 key whose image changes, expiry, 1 Configure that raises lifetime and limit, 1 failing operation (opening, writing, reading or removing), 2 puts, no kill | types, first puts, the end of every operation, and the refinement of `CacheStore` |
| `configure` | 3 connections, 12 values (2 switch formats, 2 touch the cache, 4 are refused, 1 is no object) | coherence, no lost update, at-most-once, a true report, return |
| `requests` | 2 requests for one image, one of 2 chunks that accepts AVIF and refuses WebP, one of 1 chunk that accepts both, AVIF through a wildcard; 1 Configure of 7 blocks | the pipeline's promises while settings change at any step |
| `shard_guards` | 3 requests of one shard, one with a body of 2 chunks; 2 workers | only handlers that run and cache lookups block a worker, and only lookups that block all workers keep a request from its end |

The bounds are enough for the case each run is about: two tasks suffice for
each race of this code, since every one is between one task's pair of steps and
another task's step; three keys give an eviction a choice of what to keep;
images of two sizes make one removal free too little or more than needed;
two chunks are the least at which some were dropped before a failure;
three connections let a third one see what two racing ones left. No run
combines kills with failing operations and expiry, which takes TLC too long with the
end of every operation; the types, the first puts and the refinement are proved for
all of them together.
`shard_guards` is the least instance with two workers in which the guards block the agent: one request
waits for its cache lookup with the lock held, the other two block both workers on
that lock. In general it takes as many blocked requests, beside their holders, as
there are workers, and nothing in the agent bounds the requests. Liveness is
therefore stated up to that deadlock there, and `shard_deadlock` shows it.
`Wrap = 64` is above every sum of bytes that the bounds allow, so that only an
excess subtraction wraps. Deadlock is checked on the cache, whose tasks go on
for ever; the other systems stop when each connection was configured and
each request completed, or at a deadlock that the properties name.

Runs that show where the code departs from what the repository says:

| Run | What TLC finds |
|---|---|
| `fs_double_expiry` | two gets of one expired entry both subtract its size (`filesystem.rs:227`) and the counter wraps when nothing else makes up for it; a next put that adds less than is missing evicts everything, one that adds as much wraps the counter back |
| `fs_young_removed` | an eviction reads creation time 0 for an entry whose sidecar is not written yet (`filesystem.rs:153`), and removes it, complete by then, while an older one stays |
| `fs_torn_hit` | a get reads a data file that a second put of the key has truncated (`filesystem.rs:264`) |
| `fs_reopen` | a put that ends between the scan of a Configure and its publication (`handler.rs:146`, `:168`) is in no counter of the new cache: the disk stays over the limit and nothing evicts |
| `larger_images` | an image that overflows the buffer with a later chunk loses the chunks before it (`handler.rs:483`, dropped at `:494`). One-chunk bodies (`response-body-mode "buffer"`) are not affected. A later chunk that is no base64 (`:475`) does the same |
| `shard_deadlock` | three requests of one shard, two workers: one awaits its cache lookup with the guard (`handler.rs:299-377`), the others block both workers on it, and no event is handled any more |

Two of these properties fail in other ways than the one their run shows, and TLC finds
each of these with other bounds:

- `CountsOnlyStoredBytes` also when two requests that missed one key both put it
  (`MaxPuts = 2`): one file, its size added twice (`filesystem.rs:277`), and no eviction of
  that file makes up for it. After some such puts the counter is over the limit with
  an empty disk, and each later put evicts all it finds. And with one task and a kill
  between the two removals of an expired entry: the sidecar that stays is found
  expired again, and its size is subtracted from a counter whose scan found no data file.
- `RemovesOnlyOldEntries` also when a get that read an expired sidecar removes the files
  (`filesystem.rs:225`) after another request has stored the image anew (`Ttl = 0`, one key
  put twice).

A Configure that drops a format sends the requests already promised that format the
original under the new Content-Type (`handler.rs:530`, action `FindConverter`), whereas
`src/README.md:187` says that requests in flight are not affected. `BodyIntact` says that
the original is whole.

### Fairness

`FsCache!FairSpec` assumes that a file operation completes and that the runtime
polls the task it completed for (tokio does), and that the scan runs on: weak
fairness of each task's steps. It does not assume that clients ask, the clock
moves, or operations fail. `OperationsEnd` needs no more, since no file
operation waits for another task. `Configure` assumes the same of each
`apply_config`; tokio's mutex is fair, and as a connection configures once in
the model, weak fairness is enough. `RequestFlow` assumes that handlers are
polled and that the proxy sends the next event of a response that it streams,
`ShardLock` also that an idle worker polls what is ready, where `EndsUnlessStuck`
excuses the deadlock of the guards. RequestComplete is the proxy's to send: `RequestsAnswered` does not need it, and
`StateFreed` has as its premise that the proxy does send it.

## What is proved

For all values of the constants, under the assumptions named in the modules:
`KeyAssumption`, `ProcAssumption`, `ImageAssumption`, `BoundAssumption` (there is a
key, keys and tasks are finitely many, images have natural lengths and are neither
blank nor mixed, the bounds are numbers);
`InitialAssumption` (the agent starts with valid settings, as `new` insists);
`LengthAssumption` and `DirAssumption` (a response has a chunk or more, `Dir` has
every directory that the settings or a block name); `ShardAssumption` (each
request has a shard and a body of a chunk or more, there is a worker).

*The cache.*

- `TypeCorrect`: `Spec => []TypeOK`. `TypeOK` alone is not inductive: what a put
  adds to the counter is the length of an image, so the induction carries
  `PutsAnImage`, that a task on its way to write its data holds an image.
- `FirstPutSafe`: `Spec => []FirstPutHitsAreWhole`. The invariant says, key by
  key, how far a first put may be: a key never put has no files and no task
  that puts or reads it; a key put once has at most one putting task, its
  sidecar is absent until the data file holds the image, and from then on
  whatever data file is there holds an image, as is what any reader has read; a
  put that fails or is killed leaves a file without a sidecar.
  Most actions change nothing a key's invariant looks at, or only remove files;
  the lemma `CalmStep` deals with all of these at once, and `NextKeyInv` with
  the steps of a put, the lookup and the read.
- `CacheImplemented`: `Spec => ImplementsCacheStore`. The initial state maps to
  the initial state; `LookupMaps`, `GetMaps`, `PutMaps`, `EvictMaps` and `FaultMaps`
  show step by step which abstract action, or none, each file operation is. The
  first-put invariant is what excludes torn hits before a second put.
- `SerialFilesPaired`: with one task, and neither kills nor failures,
  `Spec => []FilesPaired`. The invariant: all pairs match but that of the key the
  task is between two removals or writes of, and of that one, how far it is.
- `SerialCounterExact`, `SerialCounterWithinLimit`, `SerialEvictsOnlyWhenFull` and
  `SerialEvictsOldestFirst`: with one task, no kill, no failure, no Configure that
  opens the cache anew, and a counter whose range holds the limit and one image.
  `SoloInv` says for each place of the task by how much the counter is ahead of the
  files or behind them (`Balance`), that an eviction started over the limit and
  everything else is within it (`Within`), and that every file on the disk is on the
  list of a running eviction, as it is there, or has yet to be reached by its walk
  (`ListsAll`). The last holds only because the counter, exact at the start of the
  eviction, says how much of the disk it is; and the counter stays exact only because
  a put has the old file of its key behind it: a get has missed or expired it.
  `PairedInv` gives that, so the induction carries both.
- `NeverUndercountsBytes` and `LastPutLeavesLimit`: with any number of tasks and
  kills, under `Steady`: no operation fails, nothing expires, no Configure opens the
  cache anew, the images for a key have one length, and all puts together are fewer
  bytes than the counter's range. `NeverUndercounts` is not inductive: a put
  truncates a file whose bytes are counted, and an eviction subtracts the size it
  listed, whatever the file holds by then. `CountInv` therefore speaks of what the
  files will hold once their writers are done (`Claimed`) and says that, up to the
  range of the counter, `currentSize = Claimed + Unsubtracted - Uncounted + surplus`
  for some surplus that only grows: by what a truncated file was bound to hold, and by
  what a removed file had beyond its listed size, which is never less than nothing
  (`ListedInv`). What keeps the range out of the way is that all of it is less than
  the puts were granted. `CoverInv` adds, for the second theorem, that while an
  eviction runs there is a put still to compare the counter with the limit, or an
  eviction that has every file on its list or before it and was told of all their
  bytes, or nothing more to do. None of the conditions can go: `fs_double_expiry` and
  `fs_reopen` show two of them, a put that fails after its data is written leaves
  bytes that nobody counts, and with two lengths of image for a key an eviction may
  subtract the length of the longer one from a counter that has the shorter.

A sum over files or tasks is counted unit by unit in these modules
(`Total(f) == Cardinality(Units(f))`): the library's theorems on cardinalities then
say what one changed number does to a sum (`TotalUpdate`, `TotalMonotone`,
`TotalZero`) without an induction over sets.

*Configure.*

- `SettingsCoherent`, `UpdatesKept` and `ChangesReported`. `ConfigureInv` says
  that whoever is past the lock holds it alone, that what it publishes is its
  block over the settings still active, with their difference as its report,
  and, stage by stage, which of the four places already hold the new settings.
- `AppliedOnce`: `ConfigureSpec => []IdenticalAppliedOnce`. A block that was
  applied changes the settings no more until another one is applied, because a
  block laid over settings twice is the same as once (`MergeIdempotent`), and
  a Configure that changes nothing is not applied.

*Negotiation*, for any header and any list of formats, compares the code with RFC 7231:
`PermittedIsAccepted` (the code accepts all that the RFC permits), `WildcardOverrules`
(what it accepts beyond that is accepted by a part less specific than one that
refuses it, which is the documented `q=0` beside a wildcard, and nothing else),
`AcceptedIsPermitted` (where no part refuses anything there is no difference),
`PermittedIsServed` (a client that permits a configured format gets one, and none
configured after it) and `ServesFirstPermitted` (where no part refuses anything, the
result is the first format the RFC permits, and `NoFormat` only when it permits none).

*The pipeline*, for any requests, headers, bodies, blocks and connections:
`CacheTrueToKey`, `ImagesMatchHeaders`, `BodiesIntact`, `UntouchedResponses` and
`StatesReleased`. They share `RequestInv`: the records' types; `Settled`, that
`ConfigureInv` holds and the cache in use is one of `Dir`; `StoreInv`, that what is
stored was converted for its key; and `FlowInv`, which says of each request,
place by place, what it was promised, what it has buffered and what it has sent
(`Unstarted`, `Asking`, `Streaming`, `Promising`, `Finished`, `Promised`). `FlowStep`
has a case per action of a handler; a Configure preserves it because a handler
works with the copy of a setting that it took, and promises no more than that.

*The shard locks.* `OnlyLookupsBlock`: `Spec => []BlockedByLookups`, for any number of
requests and workers, also where the agent stands still. The invariant is that a guard
is held by one request of its shard, between its lock and its return or its
conversion, that no task is polled by two workers, and that a holder which is not in
its lookup is being polled. A holder is past its only lock, so the worker that
polls it is not blocked itself.

Every invariant and action property of the passing runs is stated by a theorem. Only
model-checked: liveness (`OperationsEnd`, `ConfiguresReturn`, `RequestsAnswered`,
`StateFreed`, `EndsUnlessStuck`), which rests on fairness and `ENABLED`.

## Not modelled

The image encoders, base64 and the wire protocol (libraries); the splitting of a
header's text into parts; parsing of the command line and of the settings file,
starting the servers, logging, the default settings, error texts (data and
straight-line code at startup); the matching of regular expressions (a pattern is the set of
URIs it matches); headers other than Content-Type and Accept; two Configures that open caches at once (`configure_lock` excludes it).

## Plan

1. *Done*: the cache and its faults, its abstract specification and the proof
   that it implements it; negotiation, Configure, the pipeline and the shard
   locks with their theorems.
2. *Done*: the accounting of the cache as theorems, for one task and for many.
3. `RequestFlow` over `FsCache` itself instead of `CacheStore`, on one key, so that
   torn hits reach the stream.
