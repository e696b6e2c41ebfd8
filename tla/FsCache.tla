------------------------------ MODULE FsCache ------------------------------
(***************************************************************************)
(* The filesystem cache of src/src/cache/filesystem.rs, at the granularity *)
(* of its awaits: between two file operations of one task any other task   *)
(* may run.  A task is one request of the handler that meets the cache: it *)
(* looks a key up (get) and, only when that missed and the conversion      *)
(* succeeded, stores the result (put), which ends in maybe_evict.          *)
(*                                                                         *)
(* A file is open-truncated and written in two steps, as std::fs::write    *)
(* does.  Removing a file unlinks its name: a writer that still holds it   *)
(* open then writes to a file nobody can reach.                            *)
(***************************************************************************)
EXTENDS Integers, FiniteSetsExt

CONSTANTS
    Key,         \* cache keys (SHA-256 of uri, format and quality)
    Proc,        \* tasks of the runtime that are inside the cache
    Image,       \* encoded images
    SizeOf,      \* [Image -> Nat]: the length of an encoded image
    Rendition,   \* [Key -> SUBSET Image]: what converting for a key can yield
    MaxSize,     \* max_size_bytes of the settings file
    Ttl,         \* ttl_secs of the settings file
    Changes,     \* SUBSET Limits: what a Configure or a restart may set them to
    Wrap,        \* 2^w, the range of the AtomicU64 counter
    MaxClock,    \* bound: the last value of the clock
    MaxCrashes,  \* bound: how often the process is killed and restarted
    MaxReopens,  \* bound: how often a Configure opens the cache anew
    MaxFaults,   \* bound: how many file operations fail
    MaxPuts      \* bound: how often a key is put

Blank == "blank"   \* content of a file that was truncated and not yet written
Mixed == "mixed"   \* the head of an image, alone or over bytes of another one

ASSUME KeyAssumption == Key # {} /\ IsFiniteSet(Key)
ASSUME ProcAssumption == IsFiniteSet(Proc)
ASSUME ImageAssumption ==
    /\ Image \cap {Blank, Mixed} = {}
    /\ SizeOf \in [Image -> Nat]
    /\ Rendition \in [Key -> SUBSET Image]
ASSUME BoundAssumption ==
    /\ {MaxSize, Ttl, MaxCrashes, MaxReopens, MaxFaults, MaxPuts} \subseteq Nat
    /\ {Wrap, MaxClock} \subseteq Nat \ {0}
    /\ Changes \subseteq [max_size: Nat, ttl: Nat]

VARIABLES
    data,         \* [Key -> data file]: {key}.bin
    sidecar,      \* [Key -> sidecar file]: {key}.meta.json
    currentSize,  \* the AtomicU64 current_size
    now,          \* now_secs()
    pc,           \* [Proc -> Label]: the file operation a task does next
    op,           \* [Proc -> Operation]: the locals of its get, put or eviction
    limits,       \* max_size_bytes and ttl_secs of the open cache
    scan,         \* the directory scan of FilesystemCache::new
    puts,         \* history: how often a key was put
    crashes, reopens, faults   \* how much of the bounds is used up

files == <<data, sidecar>>
control == <<pc, op>>
cache == <<limits, scan>>
bounds == <<crashes, reopens, faults>>
environment == <<now, cache, bounds>>
vars == <<data, sidecar, currentSize, now, pc, op, limits, scan, puts, crashes, reopens, faults>>

Content == Image \cup {Blank, Mixed}
DataFile == [here: BOOLEAN, content: Content, size: Nat, writers: SUBSET Proc]
NoData == [here |-> FALSE, content |-> Blank, size |-> 0, writers |-> {}]

\* CacheEntryMeta as JSON: "blank" is a truncated file, "garbled" does not parse.
Sidecar == [here: BOOLEAN, text: {"blank", "json", "garbled"},
            created_at: Nat, optimized_size: Nat, writers: SUBSET Proc]
NoSidecar == [here |-> FALSE, text |-> "blank",
              created_at |-> 0, optimized_size |-> 0, writers |-> {}]

\* What an eviction collects of a data file: (path, size, created_at).
Entry == [key: Key, size: Nat, created_at: Nat]
NoEntry == [key |-> CHOOSE k \in Key : TRUE, size |-> 0, created_at |-> 0]

Label ==
    {"idle", "read_data", "expire_data", "expire_meta", "expire_count",   \* get
     "hit", "missed",                                                    \* caller
     "open_data", "write_data", "open_meta", "write_meta", "count",      \* put
     "load", "list", "stat", "read_created_at",                          \* evict
     "remove_data", "remove_meta", "subtract"}

\* size: the put's data.len(), or the optimized_size of the sidecar get read.
Operation == [key: Key, content: Content, size: Nat, created_at: Nat,
              current: Nat, freed: Nat, unseen: SUBSET Key,
              entry: Entry, entries: SUBSET Entry]
NoOperation == [key |-> CHOOSE k \in Key : TRUE, content |-> Blank, size |-> 0,
                created_at |-> 0, current |-> 0, freed |-> 0, unseen |-> {},
                entry |-> NoEntry, entries |-> {}]

Limits == [max_size: Nat, ttl: Nat]
Startup == [max_size |-> MaxSize, ttl |-> Ttl]

\* left: the places not read yet; limits: of the cache that is being opened.
Scanning == [left: SUBSET Key, total: Nat, stage: {"startup", "serving", "reopening"},
             limits: Limits]

TypeOK ==
    /\ data \in [Key -> DataFile]
    /\ sidecar \in [Key -> Sidecar]
    /\ currentSize \in 0 .. Wrap - 1
    /\ now \in 1 .. MaxClock
    /\ pc \in [Proc -> Label]
    /\ op \in [Proc -> Operation]
    /\ limits \in Limits
    /\ scan \in Scanning
    /\ puts \in [Key -> 0 .. MaxPuts]
    /\ crashes \in 0 .. MaxCrashes
    /\ reopens \in 0 .. MaxReopens
    /\ faults \in 0 .. MaxFaults

-----------------------------------------------------------------------------
(* Start and restart: FilesystemCache::new scans the directory, then serves *)

Rescan(stage, new) == [left |-> Key, total |-> 0, stage |-> stage, limits |-> new]

Init ==
    /\ data = [k \in Key |-> NoData]
    /\ sidecar = [k \in Key |-> NoSidecar]
    /\ currentSize = 0
    /\ now = 1
    /\ pc = [p \in Proc |-> "idle"]
    /\ op = [p \in Proc |-> NoOperation]
    /\ limits = Startup
    /\ scan = Rescan("startup", Startup)
    /\ puts = [k \in Key |-> 0]
    /\ crashes = 0 /\ reopens = 0 /\ faults = 0

\* Mutant: only files that a get would find are counted.
ScanReadable(k) ==
    /\ k \in scan.left
    /\ LET size == IF sidecar[k].here THEN data[k].size ELSE 0 IN
         scan' = [scan EXCEPT !.left = @ \ {k}, !.total = @ + size]
    /\ UNCHANGED <<files, control, currentSize, now, limits, puts, bounds>>

ScanEntry(k) ==
    /\ k \in scan.left
    /\ scan' = [scan EXCEPT !.left = @ \ {k}, !.total = @ + data[k].size]
    /\ UNCHANGED <<files, control, currentSize, now, limits, puts, bounds>>

\* The cache that was scanned takes the place of the one before it.
Open ==
    /\ scan.left = {}
    /\ currentSize' = scan.total % Wrap
    /\ limits' = scan.limits
    /\ scan' = [scan EXCEPT !.stage = "serving"]
    /\ UNCHANGED <<files, control, now, puts, bounds>>

ScanStore == scan.stage = "startup" /\ Open

Serving == scan.stage # "startup"

(* A Configure that changes a setting of the cache opens another            *)
(* FilesystemCache on the same directory, while tasks go on in the one      *)
(* they have.                                                               *)

Reopen ==
    /\ scan.stage = "serving"
    /\ reopens < MaxReopens
    /\ reopens' = reopens + 1
    /\ \E new \in Changes \ {limits} : scan' = Rescan("reopening", new)
    /\ UNCHANGED <<files, control, currentSize, now, limits, puts, crashes, faults>>

\* Tasks inside get or put hold the lock of the agent's cache for reading.
Outside == {"idle", "hit", "missed"}

\* apply_config publishes the new cache, with the counter of its own scan.
Publish ==
    /\ scan.stage = "reopening"
    /\ \A p \in Proc : pc[p] \in Outside
    /\ Open

\* A write that stops early (the disk is full, the process dies) has put the first n
\* bytes of the image into the file.
CutShort(file, image) ==
    {[file EXCEPT !.content = IF @ = image THEN @ ELSE Mixed,
                  !.size = IF n > @ THEN n ELSE @] : n \in 1 .. SizeOf[image] - 1}

Writing(p, k) == pc[p] = "write_data" /\ op[p].key = k /\ p \in data[k].writers

\* What k's file may be when p's write of it, if it is at one, goes no further.
Interrupted(p, k) ==
    {data[k]} \cup IF Writing(p, k) THEN CutShort(data[k], op[p].content) ELSE {}

\* The process is killed: what reached the files stays, everything else is lost; one
\* write at most is cut short.
\* The next one starts from the settings file, which may have been edited.
Crash ==
    /\ crashes < MaxCrashes
    /\ crashes' = crashes + 1
    /\ \E p \in Proc, k \in Key : \E file \in Interrupted(p, k) :
          data' = [l \in Key |-> [IF l = k THEN file ELSE data[l] EXCEPT !.writers = {}]]
    /\ sidecar' = [k \in Key |-> [sidecar[k] EXCEPT !.writers = {}]]
    /\ pc' = [p \in Proc |-> "idle"]
    /\ op' = [p \in Proc |-> NoOperation]
    /\ currentSize' = 0
    /\ \E new \in Changes \cup {Startup} : limits' = new /\ scan' = Rescan("startup", new)
    /\ UNCHANGED <<now, puts, reopens, faults>>

Tick ==
    /\ now < MaxClock
    /\ now' = now + 1
    /\ UNCHANGED <<files, control, currentSize, cache, puts, bounds>>

-----------------------------------------------------------------------------
(* Steps of a task                                                         *)

At(p, label) == pc[p] = label

Goto(p, label) == pc' = [pc EXCEPT ![p] = label]

Finish(p) ==
    /\ Goto(p, "idle")
    /\ op' = [op EXCEPT ![p] = NoOperation]

Unlink(file, absent, k) == [file EXCEPT ![k] = absent]

Add(n) == currentSize' = (currentSize + n) % Wrap

\* Mutant: a counter that does not wrap.
SubUnbounded(n) == currentSize' = currentSize - n

Sub(n) == currentSize' = (currentSize - n) % Wrap     \* fetch_sub wraps around

(* get *)

Readable(k) == sidecar[k].here /\ sidecar[k].text = "json"

Expired(k) == now - sidecar[k].created_at > limits.ttl

\* An absent sidecar is None and one that does not parse is Err: a miss to the
\* handler either way.
GetMisses(p, k) ==
    /\ At(p, "idle") /\ Serving
    /\ ~Readable(k)
    /\ Goto(p, "missed")
    /\ op' = [op EXCEPT ![p].key = k]
    /\ UNCHANGED <<files, currentSize, environment, puts>>

GetFindsFresh(p, k) ==
    /\ At(p, "idle") /\ Serving
    /\ Readable(k) /\ ~Expired(k)
    /\ Goto(p, "read_data")
    /\ op' = [op EXCEPT ![p].key = k]
    /\ UNCHANGED <<files, currentSize, environment, puts>>

GetFindsExpired(p, k) ==
    /\ At(p, "idle") /\ Serving
    /\ Readable(k) /\ Expired(k)
    /\ Goto(p, "expire_data")
    /\ op' = [op EXCEPT ![p].key = k, ![p].size = sidecar[k].optimized_size]
    /\ UNCHANGED <<files, currentSize, environment, puts>>

ExpireData(p) ==
    /\ At(p, "expire_data")
    /\ data' = Unlink(data, NoData, op[p].key)
    /\ Goto(p, "expire_meta")
    /\ UNCHANGED <<sidecar, op, currentSize, environment, puts>>

ExpireMeta(p) ==
    /\ At(p, "expire_meta")
    /\ sidecar' = Unlink(sidecar, NoSidecar, op[p].key)
    /\ Goto(p, "expire_count")
    /\ UNCHANGED <<data, op, currentSize, environment, puts>>

\* Mutant: an expired entry stays counted.
ExpireUncounted(p) ==
    /\ At(p, "expire_count")
    /\ Goto(p, "missed")
    /\ op' = [op EXCEPT ![p].size = 0]
    /\ UNCHANGED <<files, currentSize, environment, puts>>

ExpireCount(p) ==
    /\ At(p, "expire_count")
    /\ Sub(op[p].size)
    /\ Goto(p, "missed")
    /\ op' = [op EXCEPT ![p].size = 0]
    /\ UNCHANGED <<files, environment, puts>>

\* Mutant: a data file that has gone is an empty hit.
ReadDataOrBlank(p) ==
    /\ At(p, "read_data")
    /\ Goto(p, "hit")
    /\ op' = [op EXCEPT ![p].content = data[op[p].key].content]
    /\ UNCHANGED <<files, currentSize, environment, puts>>

ReadData(p) ==
    /\ At(p, "read_data")
    /\ LET file == data[op[p].key] IN
         IF file.here
           THEN /\ Goto(p, "hit")
                /\ op' = [op EXCEPT ![p].content = file.content]
           ELSE /\ Goto(p, "missed")
                /\ UNCHANGED op
    /\ UNCHANGED <<files, currentSize, environment, puts>>

\* Reading the sidecar or the data fails otherwise than by its absence.
ReadFails(p, k) ==
    /\ faults < MaxFaults
    /\ faults' = faults + 1
    /\ \/ At(p, "idle") /\ Serving /\ sidecar[k].here
       \/ At(p, "read_data") /\ op[p].key = k /\ data[k].here
    /\ Goto(p, "missed")
    /\ op' = [op EXCEPT ![p].key = k]
    /\ UNCHANGED <<files, currentSize, now, cache, crashes, reopens, puts>>

\* The handler has the cached image and answers from it.
ServeHit(p) ==
    /\ At(p, "hit")
    /\ Finish(p)
    /\ UNCHANGED <<files, currentSize, environment, puts>>

\* The conversion failed or never ran, or the shard directory cannot be made.
GiveUp(p) ==
    /\ At(p, "missed")
    /\ Finish(p)
    /\ UNCHANGED <<files, currentSize, environment, puts>>

(* put *)

Put(p, image) ==
    /\ At(p, "missed")
    /\ puts[op[p].key] < MaxPuts
    /\ puts' = [puts EXCEPT ![op[p].key] = @ + 1]
    /\ Goto(p, "open_data")
    /\ op' = [op EXCEPT ![p].content = image, ![p].size = SizeOf[image],
                        ![p].created_at = now]
    /\ UNCHANGED <<files, currentSize, environment>>

\* Mutant: the sidecar is written without waiting for the data.
OpenDataUnawaited(p) ==
    /\ At(p, "open_data")
    /\ data' = [data EXCEPT ![op[p].key] = [here |-> TRUE, content |-> Blank, size |-> 0,
                                            writers |-> @.writers \cup {p}]]
    /\ Goto(p, "open_meta")
    /\ UNCHANGED <<sidecar, op, currentSize, environment, puts>>

\* open(O_CREAT | O_TRUNC): an existing file is emptied in place.
OpenData(p) ==
    /\ At(p, "open_data")
    /\ data' = [data EXCEPT ![op[p].key] = [here |-> TRUE, content |-> Blank, size |-> 0,
                                            writers |-> @.writers \cup {p}]]
    /\ Goto(p, "write_data")
    /\ UNCHANGED <<sidecar, op, currentSize, environment, puts>>

\* Writing from offset 0 over what another writer put there since the open: the
\* tail of a longer image stays.
Overwritten(file, image) ==
    IF SizeOf[image] >= file.size
      THEN [file EXCEPT !.content = image, !.size = SizeOf[image]]
      ELSE [file EXCEPT !.content = Mixed]

WriteData(p) ==
    /\ At(p, "write_data")
    /\ LET file == data[op[p].key] IN
         data' = IF p \in file.writers
                   THEN [data EXCEPT ![op[p].key] =
                           [Overwritten(file, op[p].content) EXCEPT !.writers = @ \ {p}]]
                   ELSE data
    /\ Goto(p, "open_meta")
    /\ UNCHANGED <<sidecar, op, currentSize, environment, puts>>

OpenMeta(p) ==
    /\ At(p, "open_meta")
    /\ LET k == op[p].key IN
         sidecar' = [sidecar EXCEPT ![k] =
                       [NoSidecar EXCEPT !.here = TRUE,
                                         !.writers = sidecar[k].writers \cup {p}]]
    /\ Goto(p, "write_meta")
    /\ UNCHANGED <<data, op, currentSize, environment, puts>>

\* Over a JSON text of other numbers the new one may be shorter and leave a tail.
Texts(file, size) ==
    IF file.text = "blank" \/ (file.text = "json" /\ file.optimized_size = size)
      THEN {"json"}
      ELSE {"json", "garbled"}

WriteMeta(p) ==
    /\ At(p, "write_meta")
    /\ LET k == op[p].key
           file == sidecar[k]
       IN  IF p \in file.writers
             THEN \E text \in Texts(file, op[p].size) :
                    sidecar' = [sidecar EXCEPT ![k] =
                                  [here |-> TRUE, text |-> text,
                                   created_at |-> op[p].created_at,
                                   optimized_size |-> op[p].size,
                                   writers |-> file.writers \ {p}]]
             ELSE UNCHANGED sidecar
    /\ Goto(p, "count")
    /\ UNCHANGED <<data, op, currentSize, environment, puts>>

\* Mutant: a failed write of the data is ignored and the sidecar written.
PutIgnoresFailure(p) ==
    /\ At(p, "write_data")
    /\ faults < MaxFaults
    /\ faults' = faults + 1
    /\ data' = [data EXCEPT ![op[p].key].writers = @ \ {p}]
    /\ Goto(p, "open_meta")
    /\ UNCHANGED <<sidecar, op, currentSize, now, cache, crashes, reopens, puts>>

\* An open or a write fails (a full disk, no permission): put returns at once
\* and leaves what it did before.
PutFails(p) ==
    /\ pc[p] \in {"open_data", "write_data", "open_meta", "write_meta"}
    /\ faults < MaxFaults
    /\ faults' = faults + 1
    /\ \E file \in Interrupted(p, op[p].key) :
          data' = [data EXCEPT ![op[p].key] = [file EXCEPT !.writers = @ \ {p}]]
    /\ sidecar' = [sidecar EXCEPT ![op[p].key].writers = @ \ {p}]
    /\ Finish(p)
    /\ UNCHANGED <<currentSize, now, cache, crashes, reopens, puts>>

Count(p) ==
    /\ At(p, "count")
    /\ Add(op[p].size)
    /\ Goto(p, "load")
    /\ op' = [op EXCEPT ![p] = NoOperation]
    /\ UNCHANGED <<files, environment, puts>>

(* maybe_evict *)

\* Mutant: no eviction is started while another one runs.
LoadSizeUnlessEvicting(p) ==
    /\ At(p, "load")
    /\ IF currentSize <= limits.max_size \/ \E q \in Proc : At(q, "list") \/ At(q, "remove_data")
         THEN Finish(p)
         ELSE /\ Goto(p, "list")
              /\ op' = [op EXCEPT ![p].current = currentSize, ![p].unseen = Key]
    /\ UNCHANGED <<files, currentSize, environment, puts>>

LoadSize(p) ==
    /\ At(p, "load")
    /\ IF currentSize <= limits.max_size
         THEN Finish(p)
         ELSE /\ Goto(p, "list")
              /\ op' = [op EXCEPT ![p].current = currentSize, ![p].unseen = Key]
    /\ UNCHANGED <<files, currentSize, environment, puts>>

\* The directory walk reaches the place of k's data file, in no known order.
ListName(p, k) ==
    /\ At(p, "list")
    /\ k \in op[p].unseen
    /\ op' = [op EXCEPT ![p].unseen = @ \ {k},
                        ![p].entry = IF data[k].here THEN [NoEntry EXCEPT !.key = k] ELSE @]
    /\ IF data[k].here THEN Goto(p, "stat") ELSE UNCHANGED pc
    /\ UNCHANGED <<files, currentSize, environment, puts>>

\* metadata().len(), 0 when the file has gone.
StatEntry(p) ==
    /\ At(p, "stat")
    /\ op' = [op EXCEPT ![p].entry.size = data[op[p].entry.key].size]
    /\ Goto(p, "read_created_at")
    /\ UNCHANGED <<files, currentSize, environment, puts>>

CreatedAt(k) == IF Readable(k) THEN sidecar[k].created_at ELSE 0

ReadCreatedAt(p) ==
    /\ At(p, "read_created_at")
    /\ LET entry == [op[p].entry EXCEPT !.created_at = CreatedAt(op[p].entry.key)] IN
         op' = [op EXCEPT ![p].entries = @ \cup {entry}, ![p].entry = NoEntry]
    /\ Goto(p, "list")
    /\ UNCHANGED <<files, currentSize, environment, puts>>

\* saturating_sub; current was above max_size_bytes when the eviction began.
Target(p) == op[p].current - limits.max_size

Listed(p) == (At(p, "list") /\ op[p].unseen = {}) \/ At(p, "remove_data")

\* Mutant: the eviction stops a byte early.
StillOverByOne(p) == op[p].freed + 1 < Target(p) /\ op[p].entries # {}

StillOver(p) == op[p].freed < Target(p) /\ op[p].entries # {}

\* Mutant: the entries are sorted in descending order.
Newest(entries) == {e \in entries : \A f \in entries : e.created_at >= f.created_at}

Oldest(entries) == {e \in entries : \A f \in entries : e.created_at <= f.created_at}

\* Mutant: a file that could not be removed counts as freed.
RemoveDataOrCount(p) ==
    /\ Listed(p) /\ StillOver(p)
    /\ \E e \in Oldest(op[p].entries) :
         /\ op' = [op EXCEPT ![p].entries = @ \ {e}, ![p].entry = e]
         /\ data' = Unlink(data, NoData, e.key)
    /\ Goto(p, "remove_meta")
    /\ UNCHANGED <<sidecar, currentSize, environment, puts>>

\* Mutant: a removal that fails is tried again.
RemoveDataRetrying(p) ==
    /\ Listed(p) /\ StillOver(p)
    /\ \E e \in Oldest(op[p].entries) :
         /\ op' = [op EXCEPT ![p].entries = IF data[e.key].here THEN @ \ {e} ELSE @,
                             ![p].entry = e]
         /\ data' = Unlink(data, NoData, e.key)
         /\ Goto(p, IF data[e.key].here THEN "remove_meta" ELSE "remove_data")
    /\ UNCHANGED <<sidecar, currentSize, environment, puts>>

\* remove_file of the oldest entry left; when another task removed it, skip it.
RemoveData(p) ==
    /\ Listed(p) /\ StillOver(p)
    /\ \E e \in Oldest(op[p].entries) :
         /\ op' = [op EXCEPT ![p].entries = @ \ {e}, ![p].entry = e]
         /\ IF data[e.key].here
              THEN /\ data' = Unlink(data, NoData, e.key)
                   /\ Goto(p, "remove_meta")
              ELSE /\ UNCHANGED data
                   /\ Goto(p, "remove_data")
    /\ UNCHANGED <<sidecar, currentSize, environment, puts>>

\* Mutant: the sidecar of an evicted file stays.
RemoveMetaForgotten(p) ==
    /\ At(p, "remove_meta")
    /\ op' = [op EXCEPT ![p].freed = @ + op[p].entry.size, ![p].entry = NoEntry]
    /\ Goto(p, "remove_data")
    /\ UNCHANGED <<files, currentSize, environment, puts>>

RemoveMeta(p) ==
    /\ At(p, "remove_meta")
    /\ sidecar' = Unlink(sidecar, NoSidecar, op[p].entry.key)
    /\ op' = [op EXCEPT ![p].freed = @ + op[p].entry.size, ![p].entry = NoEntry]
    /\ Goto(p, "remove_data")
    /\ UNCHANGED <<data, currentSize, environment, puts>>

\* A removal fails though the file is there (no permission, an error of the disk).  The
\* eviction warns and goes on with the next entry; it ignores the error of a sidecar,
\* as an expiry ignores both.
RemovalFails(p) ==
    /\ faults < MaxFaults
    /\ faults' = faults + 1
    /\ \/ /\ At(p, "expire_data") /\ data[op[p].key].here
          /\ Goto(p, "expire_meta")
          /\ UNCHANGED op
       \/ /\ At(p, "expire_meta") /\ sidecar[op[p].key].here
          /\ Goto(p, "expire_count")
          /\ UNCHANGED op
       \/ /\ Listed(p) /\ StillOver(p)
          /\ \E e \in Oldest(op[p].entries) :
                /\ data[e.key].here
                /\ op' = [op EXCEPT ![p].entries = @ \ {e}, ![p].entry = e]
          /\ Goto(p, "remove_data")
       \/ /\ At(p, "remove_meta") /\ sidecar[op[p].entry.key].here
          /\ op' = [op EXCEPT ![p].freed = @ + op[p].entry.size, ![p].entry = NoEntry]
          /\ Goto(p, "remove_data")
    /\ UNCHANGED <<files, currentSize, now, cache, crashes, reopens, puts>>

\* Mutant: what an eviction freed stays counted.
FreedUncounted(p) ==
    /\ Listed(p) /\ ~StillOver(p)
    /\ Finish(p)
    /\ UNCHANGED <<files, currentSize, environment, puts>>

\* fetch_sub(freed) when enough is freed or nothing is left to remove.
SubtractFreed(p) ==
    /\ Listed(p) /\ ~StillOver(p)
    /\ Sub(op[p].freed)
    /\ Finish(p)
    /\ UNCHANGED <<files, environment, puts>>

-----------------------------------------------------------------------------
Lookup(p) == \E k \in Key :
    GetMisses(p, k) \/ GetFindsFresh(p, k) \/ GetFindsExpired(p, k)

GetStep(p) ==
    ExpireData(p) \/ ExpireMeta(p) \/ ExpireCount(p) \/ ReadData(p) \/ ServeHit(p)

PutStep(p) ==
    \/ GiveUp(p)
    \/ \E image \in Rendition[op[p].key] : Put(p, image)
    \/ OpenData(p) \/ WriteData(p) \/ OpenMeta(p) \/ WriteMeta(p) \/ Count(p)

EvictStep(p) ==
    \/ LoadSize(p)
    \/ \E k \in Key : ListName(p, k)
    \/ StatEntry(p) \/ ReadCreatedAt(p)
    \/ RemoveData(p) \/ RemoveMeta(p) \/ SubtractFreed(p)

Step(p) == GetStep(p) \/ PutStep(p) \/ EvictStep(p)

Fault(p) == PutFails(p) \/ RemovalFails(p) \/ \E k \in Key : ReadFails(p, k)

Scan == (\E k \in Key : ScanEntry(k)) \/ ScanStore \/ Publish

Next ==
    \/ \E p \in Proc : Lookup(p) \/ Step(p) \/ Fault(p)
    \/ Scan \/ Reopen
    \/ Crash
    \/ Tick

Spec == Init /\ [][Next]_vars

\* The runtime polls every task whose file operation completed, and file
\* operations complete.  Nothing makes a client ask, a Configure change the
\* cache, the clock pass or the process die.
FairSpec == Spec /\ WF_vars(Scan) /\ \A p \in Proc : WF_vars(Step(p))
=============================================================================
