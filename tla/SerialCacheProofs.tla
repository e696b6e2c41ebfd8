------------------------- MODULE SerialCacheProofs -------------------------
(***************************************************************************)
(* Proofs about FsCache with one task, as long as nothing fails: for any   *)
(* keys, images, limits, lifetimes and Configures.                         *)
(***************************************************************************)
EXTENDS FsCacheProofs

Paired(k) ==
    /\ data[k].here = sidecar[k].here
    /\ data[k].here => Readable(k) /\ sidecar[k].optimized_size = data[k].size

\* p is between its removals or its writes of the two files of k.
Between(p, k) ==
    \/ On(p, k, {"expire_meta", "write_data", "open_meta", "write_meta"})
    \/ At(p, "remove_meta") /\ op[p].entry.key = k

\* What p has done so far to the files it is at.
Halfway(p) ==
    LET k == op[p].key IN
    /\ pc[p] \in BeforeData => op[p].size = SizeOf[op[p].content]
    /\ At(p, "expire_meta") => ~data[k].here
    /\ At(p, "write_data") => data[k].here /\ data[k].size = 0 /\ p \in data[k].writers
    /\ pc[p] \in {"open_meta", "write_meta"} => data[k].here /\ data[k].size = op[p].size
    /\ At(p, "write_meta") =>
          sidecar[k].here /\ sidecar[k].text = "blank" /\ p \in sidecar[k].writers
    /\ At(p, "remove_meta") => ~data[op[p].entry.key].here

\* All files are paired but those the one task is at.
PairedInv == \A p \in Proc : Halfway(p) /\ \A k \in Key : Between(p, k) \/ Paired(k)

\* The one task of the steps below.
LEMMA PairedStep ==
    ASSUME NEW solo, Proc = {solo}, MaxCrashes = 0, MaxFaults = 0,
           TypeOK, PutsAnImage, PairedInv, [Next]_vars
    PROVE  PairedInv'
<1>1. /\ pc \in [Proc -> Label] /\ op \in [Proc -> Operation] /\ solo \in Proc
      /\ data \in [Key -> DataFile] /\ sidecar \in [Key -> Sidecar]
      /\ op[solo] \in Operation /\ op[solo].key \in Key
      /\ \A k \in Key : data[k].here \in BOOLEAN /\ sidecar[k].here \in BOOLEAN
  BY DEF TypeOK, Operation, DataFile, Sidecar
<1>2. Halfway(solo) /\ \A k \in Key : Between(solo, k) \/ Paired(k)
  BY DEF PairedInv
<1>3. SUFFICES Halfway(solo)' /\ \A k \in Key : Between(solo, k)' \/ Paired(k)'
  BY DEF PairedInv
<1> USE DEF Halfway, Between, On, Paired, Readable, At, Goto, files, BeforeData
<1>4. CASE UNCHANGED <<files, control>>
  <2>1. data' = data /\ sidecar' = sidecar /\ pc' = pc /\ op' = op
    BY <1>4 DEF control
  <2>2. Halfway(solo)'
    BY <1>2, <2>1
  <2>3. ASSUME NEW k \in Key PROVE Between(solo, k)' \/ Paired(k)'
    BY <1>2, <2>1
  <2>4. QED
    BY <2>2, <2>3
<1>5. CASE Lookup(solo)
  <2>1. /\ UNCHANGED files /\ pc[solo] = "idle"
        /\ pc'[solo] \in {"missed", "read_data", "expire_data"}
    BY <1>1, <1>5 DEF Lookup, GetMisses, GetFindsFresh, GetFindsExpired
  <2>2. QED
    BY <1>2, <2>1
<1>6. CASE ReadData(solo) \/ ServeHit(solo) \/ GiveUp(solo) \/ ExpireCount(solo)
  <2>1. /\ UNCHANGED files /\ pc[solo] \in {"read_data", "hit", "missed", "expire_count"}
        /\ pc'[solo] \in {"hit", "missed", "idle"}
    BY <1>1, <1>6 DEF ReadData, ServeHit, GiveUp, ExpireCount, Finish
  <2>2. QED
    BY <1>2, <2>1
<1>7. CASE ExpireData(solo)
  BY <1>1, <1>2, <1>7 DEF ExpireData, Unlink, NoData
<1>8. CASE ExpireMeta(solo)
  BY <1>1, <1>2, <1>8 DEF ExpireMeta, Unlink, NoSidecar
<1>9. ASSUME NEW image, Put(solo, image) PROVE Halfway(solo)' /\ \A k \in Key : Between(solo, k)' \/ Paired(k)'
  <2>1. /\ UNCHANGED files /\ pc[solo] = "missed" /\ pc'[solo] = "open_data"
        /\ op'[solo] = [op[solo] EXCEPT !.content = image, !.size = SizeOf[image], !.created_at = now]
    BY <1>1, <1>9 DEF Put
  <2>2. op'[solo].content = image /\ op'[solo].size = SizeOf[image]
    BY <1>1, <2>1 DEF Operation
  <2>3. QED
    BY <1>2, <2>1, <2>2
<1>10. CASE OpenData(solo)
  BY <1>1, <1>2, <1>10 DEF OpenData
<1>11. CASE WriteData(solo)
  <2>1. op[solo].content \in Image /\ SizeOf[op[solo].content] \in Nat
    BY <1>1, <1>11, ImageAssumption DEF WriteData, PutsAnImage
  <2>2. data[op[solo].key] \in DataFile /\ data[op[solo].key].size = 0
    BY <1>1, <1>2, <1>11 DEF WriteData
  <2>3. data'[op[solo].key] = [Overwritten(data[op[solo].key], op[solo].content) EXCEPT !.writers = @ \ {solo}]
    BY <1>1, <1>2, <1>11 DEF WriteData
  <2>4. data'[op[solo].key].here /\ data'[op[solo].key].size = op[solo].size
    <3>1. SizeOf[op[solo].content] >= data[op[solo].key].size /\ op[solo].size = SizeOf[op[solo].content]
      BY <1>2, <1>11, <2>1, <2>2 DEF WriteData
    <3>2. Overwritten(data[op[solo].key], op[solo].content) =
            [data[op[solo].key] EXCEPT !.content = op[solo].content, !.size = op[solo].size]
      BY <3>1 DEF Overwritten
    <3>3. data[op[solo].key].here
      BY <1>2, <1>11 DEF WriteData
    <3>4. QED
      BY <2>2, <2>3, <3>2, <3>3 DEF DataFile
  <2>5. \A k \in Key \ {op[solo].key} : data'[k] = data[k]
    BY <1>1, <1>11 DEF WriteData
  <2>6. UNCHANGED <<sidecar, op>> /\ pc[solo] = "write_data" /\ pc'[solo] = "open_meta"
    BY <1>1, <1>11 DEF WriteData
  <2>7. QED
    BY <1>1, <1>2, <2>4, <2>5, <2>6
<1>12. CASE OpenMeta(solo)
  <2>1. /\ sidecar' = [sidecar EXCEPT ![op[solo].key] =
                         [NoSidecar EXCEPT !.here = TRUE,
                                           !.writers = sidecar[op[solo].key].writers \cup {solo}]]
        /\ pc[solo] = "open_meta" /\ pc'[solo] = "write_meta" /\ UNCHANGED <<data, op>>
    BY <1>1, <1>12 DEF OpenMeta
  <2>2. /\ sidecar'[op[solo].key].here /\ sidecar'[op[solo].key].text = "blank"
        /\ solo \in sidecar'[op[solo].key].writers
        /\ \A k \in Key \ {op[solo].key} : sidecar'[k] = sidecar[k]
    BY <1>1, <2>1 DEF NoSidecar
  <2>3. Halfway(solo)'
    BY <1>2, <2>1, <2>2
  <2>4. ASSUME NEW k \in Key PROVE Between(solo, k)' \/ Paired(k)'
    BY <1>1, <1>2, <2>1, <2>2
  <2>5. QED
    BY <2>3, <2>4
<1>13. CASE WriteMeta(solo)
  <2>1. /\ data' = data /\ op' = op /\ pc[solo] = "write_meta" /\ pc'[solo] = "count"
        /\ sidecar' = [sidecar EXCEPT ![op[solo].key] =
                         [here |-> TRUE, text |-> "json", created_at |-> op[solo].created_at,
                          optimized_size |-> op[solo].size,
                          writers |-> sidecar[op[solo].key].writers \ {solo}]]
    BY <1>1, <1>2, <1>13 DEF WriteMeta, Texts
  <2>2. Paired(op[solo].key)'
    BY <1>1, <1>2, <2>1
  <2>3. ASSUME NEW k \in Key, k # op[solo].key PROVE Paired(k)'
    BY <1>1, <1>2, <2>1, <2>3
  <2>4. QED
    BY <2>1, <2>2, <2>3
<1>14. CASE Count(solo) \/ LoadSize(solo) \/ StatEntry(solo) \/ ReadCreatedAt(solo) \/ SubtractFreed(solo)
  <2>1. /\ UNCHANGED files
        /\ pc[solo] \in {"count", "load", "list", "stat", "read_created_at", "remove_data"}
        /\ pc'[solo] \in {"load", "idle", "list", "read_created_at"}
    BY <1>1, <1>14
    DEF Count, LoadSize, StatEntry, ReadCreatedAt, SubtractFreed, Finish, Listed
  <2>2. QED
    BY <1>2, <2>1
<1>15. ASSUME NEW k \in Key, ListName(solo, k)
       PROVE  Halfway(solo)' /\ \A l \in Key : Between(solo, l)' \/ Paired(l)'
  <2>1. UNCHANGED files /\ pc[solo] = "list" /\ pc'[solo] \in {"list", "stat"}
    BY <1>1, <1>15 DEF ListName
  <2>2. QED
    BY <1>2, <2>1
<1>16. CASE RemoveData(solo)
  <2>1. PICK e \in Oldest(op[solo].entries) :
          /\ op' = [op EXCEPT ![solo].entries = @ \ {e}, ![solo].entry = e]
          /\ IF data[e.key].here
               THEN data' = Unlink(data, NoData, e.key) /\ Goto(solo, "remove_meta")
               ELSE UNCHANGED data /\ Goto(solo, "remove_data")
    BY <1>16 DEF RemoveData
  <2>2. e \in Entry /\ e.key \in Key
    BY <1>1 DEF Oldest, Operation, Entry
  <2>3. op'[solo].entry = e
    BY <1>1, <2>1 DEF Operation
  <2>4. pc[solo] \in {"list", "remove_data"} /\ UNCHANGED sidecar
    BY <1>16 DEF RemoveData, Listed
  <2>5. \A l \in Key : Paired(l)
    BY <1>2, <2>4
  <2>6. CASE data[e.key].here
    <3>1. /\ pc'[solo] = "remove_meta" /\ data'[e.key] = NoData
          /\ \A l \in Key \ {e.key} : data'[l] = data[l]
      BY <1>1, <2>1, <2>2, <2>6 DEF Unlink
    <3>2. ~data'[e.key].here
      BY <3>1 DEF NoData
    <3>3. Halfway(solo)'
      BY <2>3, <3>1, <3>2
    <3>4. ASSUME NEW l \in Key PROVE Between(solo, l)' \/ Paired(l)'
      BY <2>2, <2>3, <2>4, <2>5, <3>1
    <3>5. QED
      BY <3>3, <3>4
  <2>7. CASE ~data[e.key].here
    <3>1. pc'[solo] = "remove_data" /\ UNCHANGED data
      BY <1>1, <2>1, <2>7
    <3>2. QED
      BY <2>4, <2>5, <3>1
  <2>8. QED
    BY <2>6, <2>7
<1>17. CASE RemoveMeta(solo)
  <2>1. op[solo].entry.key \in Key
    BY <1>1 DEF Operation, Entry
  <2>2. /\ pc[solo] = "remove_meta" /\ pc'[solo] = "remove_data" /\ UNCHANGED data
        /\ sidecar' = [sidecar EXCEPT ![op[solo].entry.key] = NoSidecar]
    BY <1>1, <1>17 DEF RemoveMeta, Unlink
  <2>3. QED
    BY <1>1, <1>2, <2>1, <2>2 DEF NoSidecar
<1>18. CASE Scan \/ Reopen \/ Tick
  BY <1>4, <1>18 DEF Scan, ScanEntry, ScanStore, Publish, Open, Reopen, Tick, control
<1>19. ~Crash /\ ~Fault(solo)
  BY DEF TypeOK, Crash, Fault, PutFails, RemovalFails, ReadFails
<1>20. CASE UNCHANGED vars
  BY <1>4, <1>20 DEF vars, control
<1>21. QED
  BY <1>5, <1>6, <1>7, <1>8, <1>9, <1>10, <1>11, <1>12, <1>13, <1>14, <1>15, <1>16, <1>17, <1>18,
     <1>19, <1>20 DEF Next, Step, GetStep, PutStep, EvictStep

\* Operations that run one after the other, and do not fail, leave every data file with
\* the sidecar that describes it, whatever expires or is evicted.
THEOREM SerialFilesPaired ==
    ASSUME NEW solo, Proc = {solo}, MaxCrashes = 0, MaxFaults = 0
    PROVE  Spec => []FilesPaired
<1>1. Init => PairedInv
  <2> SUFFICES ASSUME Init PROVE PairedInv
    OBVIOUS
  <2>1. \A p \in Proc : pc[p] = "idle"
    BY DEF Init
  <2>2. \A k \in Key : data[k].here = FALSE /\ sidecar[k].here = FALSE
    BY DEF Init, NoData, NoSidecar
  <2>3. QED
    BY <2>1, <2>2 DEF PairedInv, Halfway, At, Paired, BeforeData
<1>2. TypeOK /\ FirstPutInv /\ PairedInv /\ [Next]_vars => PairedInv'
  BY PairedStep DEF FirstPutInv
<1>3. PairedInv => FilesPaired
  BY DEF PairedInv, Paired, Between, On, FilesPaired, Quiet, At
<1>4. QED
  BY <1>1, <1>2, <1>3, FirstPutInductive, PTL DEF Spec

-----------------------------------------------------------------------------
(* The accounting of one task                                              *)

\* Until the first put there is nothing to scan, and no other cache is opened.
FirstOpen ==
    /\ scan.stage # "reopening"
    /\ limits = Startup /\ scan.limits = Startup
    /\ scan.stage = "startup" =>
          /\ scan.total = 0 /\ currentSize = 0
          /\ \A p \in Proc : At(p, "idle")
          /\ \A k \in Key : ~data[k].here

Vacant == \A k \in Key : ~data[k].here => data[k].size = 0

\* A put holds the image whose length it will count, and its key has no file yet.
PutsAhead(p) ==
    /\ pc[p] \in InPut => op[p].content \in Image /\ op[p].size = SizeOf[op[p].content]
    /\ pc[p] \in {"expire_count", "missed", "open_data"} => ~data[op[p].key].here
    /\ At(p, "load") => op[p] = NoOperation

AheadBySize == {"expire_meta", "expire_count"}
BehindBySize == {"open_meta", "write_meta", "count"}

\* By how much the counter is ahead of, or behind, the files while p is at work.
Balance(p) ==
    /\ pc[p] \in AheadBySize => currentSize = DiskBytes + op[p].size
    /\ pc[p] \in BehindBySize => currentSize = DiskBytes - op[p].size
    /\ pc[p] \in Evicting =>
          currentSize = DiskBytes + op[p].freed + IF At(p, "remove_meta") THEN op[p].entry.size ELSE 0
    /\ pc[p] \notin AheadBySize \cup BehindBySize \cup Evicting => currentSize = DiskBytes

\* An eviction starts over the limit, with the counter as it is, and all else is within.
Within(p) ==
    /\ At(p, "expire_data") => data[op[p].key].here /\ op[p].size = data[op[p].key].size
    /\ pc[p] \in Evicting => currentSize = op[p].current /\ limits.max_size < currentSize
    /\ pc[p] \notin Evicting \cup {"load"} => currentSize <= limits.max_size

Exact(e) == data[e.key].here /\ e.size = data[e.key].size /\ e.created_at = CreatedAt(e.key)

\* An eviction has every file on its list, or still before it, as it is on the disk.
ListsAll(p) == pc[p] \in Evicting =>
    /\ \A e \in op[p].entries : Exact(e)
    /\ pc[p] \in {"stat", "read_created_at"} => data[op[p].entry.key].here
    /\ At(p, "read_created_at") => op[p].entry.size = data[op[p].entry.key].size
    /\ pc[p] \in {"remove_data", "remove_meta"} => op[p].unseen = {}
    /\ \A k \in Key : data[k].here =>
          \/ k \in op[p].unseen
          \/ pc[p] \in {"stat", "read_created_at"} /\ op[p].entry.key = k
          \/ \E e \in op[p].entries : e.key = k

SoloInv ==
    /\ FirstOpen /\ Vacant
    /\ \A p \in Proc : PutsAhead(p) /\ Balance(p) /\ Within(p) /\ ListsAll(p)

\* What the one task knows of itself, its files and the counter.
Solo(p) == Vacant /\ PutsAhead(p) /\ Balance(p) /\ Within(p) /\ ListsAll(p)

\* A step of get leaves the files and the counter in balance.
LEMMA SoloGet ==
    ASSUME NEW solo \in Proc, TypeOK, TypeOK', Solo(solo), limits' = limits,
           Halfway(solo), \A k \in Key : Between(solo, k) \/ Paired(k),
           Lookup(solo) \/ GetStep(solo)
    PROVE  Solo(solo)'
<1>1. /\ pc \in [Proc -> Label] /\ op \in [Proc -> Operation]
      /\ data \in [Key -> DataFile] /\ sidecar \in [Key -> Sidecar]
      /\ op[solo] \in Operation /\ op[solo].key \in Key /\ op[solo].size \in Nat
      /\ \A k \in Key : data[k].here \in BOOLEAN /\ data[k].size \in Nat
      /\ currentSize \in 0 .. Wrap - 1 /\ Wrap \in Nat \ {0}
      /\ DiskBytes \in Nat /\ limits.max_size \in Nat
  BY DiskBytesType, BoundAssumption DEF TypeOK, Operation, DataFile, Limits
<1> USE DEF Solo, At, Goto, files, environment, Evicting, AheadBySize, BehindBySize, InPut
<1>2. ASSUME NEW k \in Key, GetMisses(solo, k) \/ GetFindsFresh(solo, k) PROVE Solo(solo)'
  <2>1. /\ pc[solo] = "idle" /\ pc'[solo] \in {"missed", "read_data"}
        /\ op'[solo].key = k /\ data' = data /\ currentSize' = currentSize
        /\ pc'[solo] = "missed" => ~Readable(k)
    BY <1>1, <1>2 DEF GetMisses, GetFindsFresh, Operation
  <2>2. pc'[solo] = "missed" => ~data[k].here
    BY <2>1 DEF Between, On, Paired
  <2>3. QED
    BY <1>1, <2>1, <2>2 DEF Vacant, PutsAhead, Balance, Within, ListsAll, DiskBytes
<1>3. ASSUME NEW k \in Key, GetFindsExpired(solo, k) PROVE Solo(solo)'
  <2>1. /\ pc[solo] = "idle" /\ pc'[solo] = "expire_data" /\ Readable(k)
        /\ op'[solo].key = k /\ op'[solo].size = sidecar[k].optimized_size
        /\ data' = data /\ currentSize' = currentSize
    BY <1>1, <1>3 DEF GetFindsExpired, Operation
  <2>2. data[k].here /\ data[k].size = sidecar[k].optimized_size
    BY <1>1, <2>1 DEF Between, On, Paired, Readable
  <2>3. QED
    BY <1>1, <2>1, <2>2 DEF Vacant, PutsAhead, Balance, Within, ListsAll, DiskBytes
<1>4. CASE ExpireData(solo)
  <2>1. /\ pc[solo] = "expire_data" /\ pc'[solo] = "expire_meta" /\ op' = op
        /\ data' = [data EXCEPT ![op[solo].key] = NoData] /\ currentSize' = currentSize
    BY <1>1, <1>4 DEF ExpireData, Unlink
  <2>2. data'[op[solo].key].size = 0 /\ \A l \in Key \ {op[solo].key} : data'[l] = data[l]
    BY <1>1, <2>1 DEF NoData
  <2>3. DiskBytes' = DiskBytes - op[solo].size
    BY <1>1, <2>1, <2>2, DiskBytesStep DEF Within
  <2>4. Vacant'
    BY <1>1, <2>1, <2>2 DEF Vacant
  <2>5. QED
    BY <1>1, <2>1, <2>3, <2>4 DEF PutsAhead, Balance, Within, ListsAll
<1>5. CASE ExpireMeta(solo)
  <2>1. /\ pc[solo] = "expire_meta" /\ pc'[solo] = "expire_count" /\ op' = op
        /\ data' = data /\ currentSize' = currentSize
    BY <1>1, <1>5 DEF ExpireMeta
  <2>2. ~data[op[solo].key].here
    BY <2>1 DEF Halfway
  <2>3. QED
    BY <1>1, <2>1, <2>2 DEF Vacant, PutsAhead, Balance, Within, ListsAll, DiskBytes
<1>6. CASE ExpireCount(solo)
  <2>1. /\ pc[solo] = "expire_count" /\ pc'[solo] = "missed" /\ data' = data
        /\ op'[solo].key = op[solo].key
        /\ currentSize' = (currentSize - op[solo].size) % Wrap
    BY <1>1, <1>6 DEF ExpireCount, Sub, Operation
  <2>2. currentSize' = DiskBytes
    <3>1. currentSize - op[solo].size = DiskBytes /\ DiskBytes \in 0 .. Wrap - 1
      BY <1>1, <2>1 DEF Balance
    <3>2. QED
      BY <1>1, <2>1, <3>1, SmallRemainder
  <2>3. QED
    BY <1>1, <2>1, <2>2 DEF Vacant, PutsAhead, Balance, Within, ListsAll, DiskBytes
<1>7. CASE ReadData(solo) \/ ServeHit(solo)
  <2>1. /\ pc[solo] \in {"read_data", "hit"} /\ pc'[solo] \in {"hit", "missed", "idle"}
        /\ data' = data /\ currentSize' = currentSize
        /\ pc'[solo] = "missed" => op' = op /\ ~data[op[solo].key].here
    BY <1>1, <1>7 DEF ReadData, ServeHit, Finish
  <2>2. QED
    BY <1>1, <2>1 DEF Vacant, PutsAhead, Balance, Within, ListsAll, DiskBytes
<1>8. QED
  BY <1>2, <1>3, <1>4, <1>5, <1>6, <1>7 DEF Lookup, GetStep

\* A step of put, too, as long as no image lifts the counter past its range.
LEMMA SoloPut ==
    ASSUME NEW solo \in Proc, TypeOK, TypeOK', Solo(solo), limits = Startup, limits' = limits,
           PutsAnImage, Halfway(solo), Halfway(solo)',
           \A image \in Image : MaxSize + SizeOf[image] < Wrap,
           PutStep(solo)
    PROVE  Solo(solo)'
<1>1. /\ pc \in [Proc -> Label] /\ op \in [Proc -> Operation]
      /\ data \in [Key -> DataFile]
      /\ op[solo] \in Operation /\ op[solo].key \in Key /\ op[solo].size \in Nat
      /\ \A k \in Key : data[k].here \in BOOLEAN /\ data[k].size \in Nat
      /\ currentSize \in 0 .. Wrap - 1 /\ Wrap \in Nat \ {0}
      /\ DiskBytes \in Nat /\ limits.max_size \in Nat /\ limits.max_size = MaxSize
  BY DiskBytesType, BoundAssumption DEF TypeOK, Operation, DataFile, Limits, Startup
<1> USE DEF Solo, At, Goto, files, environment, Evicting, AheadBySize, BehindBySize, InPut
<1>2. CASE GiveUp(solo)
  <2>1. /\ pc[solo] = "missed" /\ pc'[solo] = "idle"
        /\ data' = data /\ currentSize' = currentSize
    BY <1>1, <1>2 DEF GiveUp, Finish
  <2>2. QED
    BY <1>1, <2>1 DEF Vacant, PutsAhead, Balance, Within, ListsAll, DiskBytes
<1>3. ASSUME NEW image \in Rendition[op[solo].key], Put(solo, image) PROVE Solo(solo)'
  <2>1. /\ pc[solo] = "missed" /\ pc'[solo] = "open_data" /\ image \in Image
        /\ op'[solo].key = op[solo].key /\ op'[solo].content = image
        /\ op'[solo].size = SizeOf[image]
        /\ data' = data /\ currentSize' = currentSize
    BY <1>1, <1>3, ImageAssumption DEF Put, Operation
  <2>2. QED
    BY <1>1, <2>1 DEF Vacant, PutsAhead, Balance, Within, ListsAll, DiskBytes
<1>4. CASE OpenData(solo)
  <2>1. /\ pc[solo] = "open_data" /\ pc'[solo] = "write_data" /\ op' = op
        /\ data'[op[solo].key].here /\ data'[op[solo].key].size = 0
        /\ \A l \in Key \ {op[solo].key} : data'[l] = data[l]
        /\ currentSize' = currentSize
    BY <1>1, <1>4 DEF OpenData
  <2>2. data[op[solo].key].size = 0
    BY <1>1, <2>1 DEF Vacant, PutsAhead
  <2>3. DiskBytes' = DiskBytes
    BY <1>1, <2>1, <2>2, DiskBytesStep
  <2>4. Vacant'
    BY <1>1, <2>1 DEF Vacant
  <2>5. QED
    BY <1>1, <2>1, <2>3, <2>4 DEF PutsAhead, Balance, Within, ListsAll
<1>5. CASE WriteData(solo)
  <2>1. /\ pc[solo] = "write_data" /\ pc'[solo] = "open_meta" /\ op' = op
        /\ \A l \in Key \ {op[solo].key} : data'[l] = data[l]
        /\ currentSize' = currentSize
    BY <1>1, <1>5 DEF WriteData
  <2>2. /\ data[op[solo].key].size = 0
        /\ data'[op[solo].key].here /\ data'[op[solo].key].size = op[solo].size
    BY <1>1, <2>1 DEF Halfway
  <2>3. DiskBytes' = DiskBytes + op[solo].size
    BY <1>1, <2>1, <2>2, DiskBytesStep
  <2>4. Vacant'
    BY <1>1, <2>1, <2>2 DEF Vacant
  <2>5. QED
    BY <1>1, <2>1, <2>3, <2>4 DEF PutsAhead, Balance, Within, ListsAll
<1>6. CASE OpenMeta(solo) \/ WriteMeta(solo)
  <2>1. /\ pc[solo] \in {"open_meta", "write_meta"} /\ pc'[solo] \in {"write_meta", "count"}
        /\ op' = op /\ data' = data /\ currentSize' = currentSize
    BY <1>1, <1>6 DEF OpenMeta, WriteMeta
  <2>2. QED
    BY <1>1, <2>1 DEF Vacant, PutsAhead, Balance, Within, ListsAll, DiskBytes
<1>7. CASE Count(solo)
  <2>1. /\ pc[solo] = "count" /\ pc'[solo] = "load" /\ op'[solo] = NoOperation
        /\ data' = data /\ currentSize' = (currentSize + op[solo].size) % Wrap
    BY <1>1, <1>7 DEF Count, Add
  <2>2. currentSize' = DiskBytes
    <3>1. currentSize + op[solo].size = DiskBytes
      BY <1>1, <2>1 DEF Balance
    <3>2. currentSize + op[solo].size < Wrap
      <4>1. op[solo].content \in Image /\ op[solo].size = SizeOf[op[solo].content]
        BY <2>1 DEF PutsAhead
      <4>2. currentSize <= MaxSize
        BY <1>1, <2>1 DEF Within
      <4>3. MaxSize \in Nat /\ SizeOf[op[solo].content] \in Nat
        BY <4>1, BoundAssumption, ImageAssumption
      <4>4. QED
        BY <1>1, <4>1, <4>2, <4>3
    <3>3. QED
      BY <1>1, <2>1, <3>1, <3>2, SmallRemainder
  <2>3. QED
    BY <1>1, <2>1, <2>2 DEF Vacant, PutsAhead, Balance, Within, ListsAll, DiskBytes
<1>8. QED
  BY <1>2, <1>3, <1>4, <1>5, <1>6, <1>7 DEF PutStep

\* No file, no bytes.
LEMMA EmptyDisk ==
    ASSUME TypeOK, \A k \in Key : data[k].size = 0
    PROVE  DiskBytes = 0
<1>1. [k \in Key |-> data[k].size] \in [Key -> Nat]
  BY DEF TypeOK, DataFile
<1>2. QED
  BY <1>1, TotalZero DEF DiskBytes

\* An eviction lists the files as they are and removes until it is within the limit.
LEMMA SoloEvict ==
    ASSUME NEW solo \in Proc, TypeOK, TypeOK', Solo(solo), limits' = limits,
           Halfway(solo), EvictStep(solo)
    PROVE  Solo(solo)'
<1>1. /\ pc \in [Proc -> Label] /\ op \in [Proc -> Operation]
      /\ data \in [Key -> DataFile] /\ sidecar \in [Key -> Sidecar]
      /\ op[solo] \in Operation /\ op[solo].freed \in Nat /\ op[solo].current \in Nat
      /\ op[solo].unseen \in SUBSET Key /\ op[solo].entries \in SUBSET Entry
      /\ op[solo].entry \in Entry /\ op[solo].entry.key \in Key /\ op[solo].entry.size \in Nat
      /\ \A k \in Key : data[k].here \in BOOLEAN /\ data[k].size \in Nat
      /\ currentSize \in 0 .. Wrap - 1 /\ Wrap \in Nat \ {0}
      /\ DiskBytes \in Nat /\ limits.max_size \in Nat
  BY DiskBytesType, BoundAssumption DEF TypeOK, Operation, Entry, DataFile, Limits
<1> USE DEF Solo, At, Goto, files, environment, Evicting, AheadBySize, BehindBySize, InPut
<1>2. CASE LoadSize(solo)
  <2>1. op[solo] = NoOperation /\ currentSize = DiskBytes /\ pc[solo] = "load"
    BY <1>1, <1>2 DEF LoadSize, PutsAhead, Balance
  <2>2. CASE currentSize <= limits.max_size
    <3>1. pc'[solo] = "idle" /\ data' = data /\ currentSize' = currentSize
      BY <1>1, <1>2, <2>2 DEF LoadSize, Finish
    <3>2. QED
      BY <1>1, <2>1, <2>2, <3>1 DEF Vacant, PutsAhead, Balance, Within, ListsAll, DiskBytes
  <2>3. CASE ~(currentSize <= limits.max_size)
    <3>1. /\ pc'[solo] = "list" /\ data' = data /\ currentSize' = currentSize
          /\ op' = [op EXCEPT ![solo].current = currentSize, ![solo].unseen = Key]
      BY <1>1, <1>2, <2>3 DEF LoadSize
    <3>2. /\ op'[solo].current = currentSize /\ op'[solo].unseen = Key
          /\ op'[solo].freed = 0 /\ op'[solo].entries = {}
      BY <1>1, <2>1, <3>1 DEF NoOperation
    <3>3. QED
      BY <1>1, <2>1, <2>3, <3>1, <3>2 DEF Vacant, PutsAhead, Balance, Within, ListsAll, DiskBytes
  <2>4. QED
    BY <2>2, <2>3
<1>3. ASSUME NEW k \in Key, ListName(solo, k) PROVE Solo(solo)'
  <2>1. /\ pc[solo] = "list" /\ k \in op[solo].unseen
        /\ data' = data /\ sidecar' = sidecar /\ currentSize' = currentSize
        /\ op'[solo].unseen = op[solo].unseen \ {k} /\ op'[solo].freed = op[solo].freed
        /\ op'[solo].current = op[solo].current /\ op'[solo].entries = op[solo].entries
        /\ IF data[k].here THEN pc'[solo] = "stat" /\ op'[solo].entry.key = k
                           ELSE pc'[solo] = "list"
    BY <1>1, <1>3 DEF ListName, Operation, NoEntry
  <2>2. ListsAll(solo)'
    BY <1>1, <2>1 DEF ListsAll, Exact, CreatedAt, Readable
  <2>3. QED
    BY <1>1, <2>1, <2>2 DEF Vacant, PutsAhead, Balance, Within, DiskBytes
<1>4. CASE StatEntry(solo)
  <2>1. /\ pc[solo] = "stat" /\ pc'[solo] = "read_created_at"
        /\ data' = data /\ sidecar' = sidecar /\ currentSize' = currentSize
        /\ op'[solo].unseen = op[solo].unseen /\ op'[solo].freed = op[solo].freed
        /\ op'[solo].current = op[solo].current /\ op'[solo].entries = op[solo].entries
        /\ op'[solo].entry.key = op[solo].entry.key
        /\ op'[solo].entry.size = data[op[solo].entry.key].size
    BY <1>1, <1>4 DEF StatEntry, Operation, Entry
  <2>2. ListsAll(solo)'
    BY <1>1, <2>1 DEF ListsAll, Exact, CreatedAt, Readable
  <2>3. QED
    BY <1>1, <2>1, <2>2 DEF Vacant, PutsAhead, Balance, Within, DiskBytes
<1>5. CASE ReadCreatedAt(solo)
  <2> DEFINE e == [op[solo].entry EXCEPT !.created_at = CreatedAt(op[solo].entry.key)]
  <2>1. /\ pc[solo] = "read_created_at" /\ pc'[solo] = "list"
        /\ data' = data /\ sidecar' = sidecar /\ currentSize' = currentSize
        /\ op'[solo].unseen = op[solo].unseen /\ op'[solo].freed = op[solo].freed
        /\ op'[solo].current = op[solo].current
        /\ op'[solo].entries = op[solo].entries \cup {e}
    BY <1>1, <1>5 DEF ReadCreatedAt, Operation
  <2>2. e.key = op[solo].entry.key /\ Exact(e)
    BY <1>1, <2>1 DEF ListsAll, Exact, Entry
  <2>3. ListsAll(solo)'
    <3> HIDE DEF e
    <3> QED BY <1>1, <2>1, <2>2 DEF ListsAll, Exact, CreatedAt, Readable
  <2>4. QED
    BY <1>1, <2>1, <2>3 DEF Vacant, PutsAhead, Balance, Within, DiskBytes
<1>6. CASE RemoveData(solo)
  <2>1. PICK e \in Oldest(op[solo].entries) :
          /\ op' = [op EXCEPT ![solo].entries = @ \ {e}, ![solo].entry = e]
          /\ IF data[e.key].here
               THEN data' = Unlink(data, NoData, e.key) /\ Goto(solo, "remove_meta")
               ELSE UNCHANGED data /\ Goto(solo, "remove_data")
    BY <1>6 DEF RemoveData
  <2>2. /\ e \in op[solo].entries /\ e.key \in Key /\ Exact(e)
        /\ pc[solo] \in {"list", "remove_data"} /\ op[solo].unseen = {}
    BY <1>1, <1>6 DEF RemoveData, Listed, ListsAll, Oldest, Entry
  <2>3. /\ pc'[solo] = "remove_meta" /\ data' = [data EXCEPT ![e.key] = NoData]
        /\ sidecar' = sidecar /\ currentSize' = currentSize
        /\ op'[solo].entry = e /\ op'[solo].entries = op[solo].entries \ {e}
        /\ op'[solo].unseen = {} /\ op'[solo].freed = op[solo].freed
        /\ op'[solo].current = op[solo].current
    BY <1>1, <1>6, <2>1, <2>2 DEF RemoveData, Unlink, Operation, Exact
  <2>4. /\ ~data'[e.key].here /\ data'[e.key].size = 0
        /\ \A l \in Key \ {e.key} : data'[l] = data[l]
    BY <1>1, <2>2, <2>3 DEF NoData
  <2>5. DiskBytes' = DiskBytes - e.size
    BY <1>1, <2>2, <2>4, DiskBytesStep DEF Exact
  <2>6. ASSUME NEW f \in op[solo].entries \ {e} PROVE f.key \in Key /\ f.key # e.key /\ Exact(f)
    BY <1>1, <2>2 DEF ListsAll, Exact, Entry
  <2>7. ListsAll(solo)'
    <3>1. \A f \in op'[solo].entries : Exact(f)'
      BY <1>1, <2>3, <2>4, <2>6 DEF Exact, CreatedAt, Readable
    <3>2. ASSUME NEW k \in Key, data'[k].here PROVE \E f \in op'[solo].entries : f.key = k
      <4>1. k # e.key /\ data[k].here
        BY <2>4, <3>2
      <4>2. PICK f \in op[solo].entries : f.key = k
        BY <2>2, <4>1 DEF ListsAll
      <4>3. QED
        BY <2>3, <4>1, <4>2
    <3>3. QED
      BY <2>3, <3>1, <3>2 DEF ListsAll
  <2>8. Vacant'
    BY <1>1, <2>4 DEF Vacant
  <2>9. Balance(solo)'
    <3>1. currentSize = DiskBytes + op[solo].freed /\ e.size \in Nat
      BY <1>1, <2>2 DEF Balance, Entry
    <3>2. QED
      BY <1>1, <2>3, <2>5, <3>1 DEF Balance
  <2>10. PutsAhead(solo)' /\ Within(solo)'
    BY <1>1, <2>2, <2>3 DEF PutsAhead, Within
  <2>11. QED
    BY <2>7, <2>8, <2>9, <2>10
<1>7. CASE RemoveMeta(solo)
  <2>1. /\ pc[solo] = "remove_meta" /\ pc'[solo] = "remove_data"
        /\ sidecar' = [sidecar EXCEPT ![op[solo].entry.key] = NoSidecar]
        /\ data' = data /\ currentSize' = currentSize
        /\ op'[solo].unseen = op[solo].unseen /\ op'[solo].entries = op[solo].entries
        /\ op'[solo].freed = op[solo].freed + op[solo].entry.size
        /\ op'[solo].current = op[solo].current
    BY <1>1, <1>7 DEF RemoveMeta, Unlink, Operation
  <2>2. ~data[op[solo].entry.key].here
    BY <2>1 DEF Halfway
  <2>3. ASSUME NEW e \in op[solo].entries PROVE Exact(e)'
    BY <1>1, <2>1, <2>2 DEF ListsAll, Exact, CreatedAt, Readable, Entry
  <2>4. ListsAll(solo)'
    BY <1>1, <2>1, <2>3 DEF ListsAll
  <2>5. QED
    BY <1>1, <2>1, <2>4 DEF Vacant, PutsAhead, Balance, Within, DiskBytes
<1>8. CASE SubtractFreed(solo)
  <2>1. /\ pc[solo] \in {"list", "remove_data"} /\ op[solo].unseen = {}
        /\ pc'[solo] = "idle" /\ data' = data
        /\ currentSize' = (currentSize - op[solo].freed) % Wrap
    BY <1>1, <1>8 DEF SubtractFreed, Listed, Finish, Sub, ListsAll
  <2>2. currentSize = DiskBytes + op[solo].freed
    BY <1>1, <2>1 DEF Balance
  <2>3. currentSize' = DiskBytes
    BY <1>1, <2>1, <2>2, SmallRemainder
  <2>4. DiskBytes <= limits.max_size
    <3>1. CASE op[solo].freed >= Target(solo)
      BY <1>1, <2>1, <2>2, <3>1 DEF Target, Within
    <3>2. CASE op[solo].entries = {}
      <4>1. \A k \in Key : data[k].size = 0
        BY <1>1, <2>1, <3>2 DEF ListsAll, Vacant
      <4>2. QED
        BY <1>1, <4>1, EmptyDisk
    <3>3. QED
      BY <1>1, <1>8, <3>1, <3>2 DEF SubtractFreed, StillOver, Target
  <2>5. QED
    BY <1>1, <2>1, <2>3, <2>4 DEF Vacant, PutsAhead, Balance, Within, ListsAll, DiskBytes
<1>9. QED
  BY <1>2, <1>3, <1>4, <1>5, <1>6, <1>7, <1>8 DEF EvictStep

\* Every step keeps the counter in balance with the files.
LEMMA SoloStep ==
    ASSUME NEW solo, Proc = {solo}, MaxCrashes = 0, MaxFaults = 0, MaxReopens = 0,
           \A image \in Image : MaxSize + SizeOf[image] < Wrap,
           TypeOK, TypeOK', PutsAnImage, PairedInv, PairedInv', SoloInv, [Next]_vars
    PROVE  SoloInv'
<1> DEFINE Own == PutsAhead(solo) /\ Balance(solo) /\ Within(solo) /\ ListsAll(solo)
<1>1. solo \in Proc /\ Solo(solo) /\ FirstOpen
  BY DEF SoloInv, Solo
<1>2. /\ Halfway(solo) /\ Halfway(solo)'
      /\ \A k \in Key : Between(solo, k) \/ Paired(k)
  BY <1>1 DEF PairedInv
<1>3. limits = Startup
  BY <1>1 DEF FirstOpen
<1>4. SUFFICES FirstOpen' /\ Solo(solo)'
  BY DEF SoloInv, Solo
<1>5. CASE Lookup(solo) \/ Step(solo)
  <2>1. limits' = limits /\ scan' = scan
    BY <1>5
    DEF Lookup, GetMisses, GetFindsFresh, GetFindsExpired, Step, GetStep, ExpireData,
        ExpireMeta, ExpireCount, ReadData, ServeHit, PutStep, GiveUp, Put, OpenData, WriteData,
        OpenMeta, WriteMeta, Count, EvictStep, LoadSize, ListName, StatEntry, ReadCreatedAt,
        RemoveData, RemoveMeta, SubtractFreed, environment, cache
  <2>2. scan.stage # "startup"
    <3>1. CASE scan.stage = "startup"
      <4>1. pc[solo] = "idle"
        BY <1>1, <3>1 DEF FirstOpen, At
      <4>2. ~Step(solo) /\ ~Lookup(solo)
        BY <3>1, <4>1
        DEF At, Lookup, GetMisses, GetFindsFresh, GetFindsExpired, Serving, Step, GetStep,
            ExpireData, ExpireMeta, ExpireCount, ReadData, ServeHit, PutStep, GiveUp, Put,
            OpenData, WriteData, OpenMeta, WriteMeta, Count, EvictStep, LoadSize, ListName,
            StatEntry, ReadCreatedAt, RemoveData, RemoveMeta, SubtractFreed, Listed
      <4>3. QED
        BY <1>5, <4>2
    <3>2. QED
      BY <3>1
  <2>3. FirstOpen'
    BY <1>1, <2>1, <2>2 DEF FirstOpen
  <2>4. Solo(solo)'
    BY <1>1, <1>2, <1>3, <1>5, <2>1, SoloGet, SoloPut, SoloEvict DEF Step
  <2>5. QED
    BY <2>3, <2>4
<1>6. ASSUME NEW k \in Key, ScanEntry(k) PROVE FirstOpen' /\ Solo(solo)'
  <2>1. /\ data' = data /\ sidecar' = sidecar /\ pc' = pc /\ op' = op
        /\ currentSize' = currentSize /\ limits' = limits
        /\ scan' = [scan EXCEPT !.left = @ \ {k}, !.total = @ + data[k].size]
    BY <1>6 DEF ScanEntry, files, control
  <2>2. /\ scan'.stage = scan.stage /\ scan'.limits = scan.limits
        /\ scan'.total = scan.total + data[k].size
    BY <2>1 DEF TypeOK, Scanning
  <2>3. scan.stage = "startup" => scan.total + data[k].size = 0
    BY <1>1 DEF FirstOpen, Solo, Vacant
  <2>4. FirstOpen'
    BY <1>1, <2>1, <2>2, <2>3 DEF FirstOpen, At
  <2>5. Solo(solo)'
    BY <1>1, <2>1
    DEF Solo, Vacant, PutsAhead, Balance, Within, ListsAll, Exact, CreatedAt, Readable,
        DiskBytes, At
  <2>6. QED
    BY <2>4, <2>5
<1>7. CASE ScanStore
  <2>1. /\ data' = data /\ pc' = pc /\ limits' = scan.limits /\ currentSize' = scan.total % Wrap
        /\ scan.stage = "startup" /\ scan'.stage = "serving" /\ scan'.limits = scan.limits
    BY <1>7 DEF TypeOK, Scanning, ScanStore, Open, files, control
  <2>2. /\ pc[solo] = "idle" /\ scan.total = 0 /\ scan.limits = Startup
        /\ \A k \in Key : data[k].size = 0
    BY <1>1, <2>1 DEF FirstOpen, Solo, Vacant, At
  <2>3. DiskBytes = 0 /\ currentSize' = 0
    BY <2>1, <2>2, EmptyDisk, SmallRemainder, BoundAssumption
  <2>4. DiskBytes' = 0
    BY <2>1, <2>3 DEF DiskBytes
  <2>5. limits'.max_size = MaxSize /\ MaxSize \in Nat
    BY <2>1, <2>2, BoundAssumption DEF Startup
  <2>6. Solo(solo)'
    BY <1>1, <2>1, <2>2, <2>3, <2>4, <2>5
    DEF Solo, Vacant, PutsAhead, Balance, Within, ListsAll, At, InPut, Evicting, AheadBySize,
        BehindBySize
  <2>7. QED
    BY <2>1, <2>2, <2>6 DEF FirstOpen
<1>8. CASE Tick
  <2>1. /\ data' = data /\ sidecar' = sidecar /\ pc' = pc /\ op' = op
        /\ currentSize' = currentSize /\ limits' = limits /\ scan' = scan
    BY <1>8 DEF Tick, files, control, cache
  <2>2. QED
    BY <1>1, <2>1
    DEF FirstOpen, Solo, Vacant, PutsAhead, Balance, Within, ListsAll, Exact, CreatedAt,
        Readable, DiskBytes, At
<1>9. CASE UNCHANGED vars
  <2>1. /\ data' = data /\ sidecar' = sidecar /\ pc' = pc /\ op' = op
        /\ currentSize' = currentSize /\ limits' = limits /\ scan' = scan
    BY <1>9 DEF vars
  <2>2. QED
    BY <1>1, <2>1
    DEF FirstOpen, Solo, Vacant, PutsAhead, Balance, Within, ListsAll, Exact, CreatedAt,
        Readable, DiskBytes, At
<1>10. ~Crash /\ ~Fault(solo) /\ ~Reopen /\ ~Publish
  BY <1>1 DEF TypeOK, Crash, Fault, PutFails, RemovalFails, ReadFails, Reopen, Publish, FirstOpen
<1>11. QED
  BY <1>5, <1>6, <1>7, <1>8, <1>9, <1>10 DEF Next, Scan

\* What is known of one task's accounting is an invariant of its operations.
LEMMA SoloInductive ==
    ASSUME NEW solo, Proc = {solo}, MaxCrashes = 0, MaxFaults = 0, MaxReopens = 0,
           \A image \in Image : MaxSize + SizeOf[image] < Wrap
    PROVE  Spec => [](TypeOK /\ FirstPutInv /\ PairedInv /\ SoloInv)
<1>1. Init => PairedInv /\ SoloInv
  <2> SUFFICES ASSUME Init PROVE PairedInv /\ SoloInv
    OBVIOUS
  <2>1. /\ \A p \in Proc : pc[p] = "idle"
        /\ \A k \in Key : data[k].here = FALSE /\ data[k].size = 0 /\ sidecar[k].here = FALSE
        /\ currentSize = 0 /\ limits = Startup /\ scan = Rescan("startup", Startup)
    BY DEF Init, NoData, NoSidecar
  <2>2. PairedInv
    BY <2>1 DEF PairedInv, Halfway, At, Paired, BeforeData
  <2>3. DiskBytes = 0
    BY <2>1, InitType, EmptyDisk
  <2>4. limits.max_size \in Nat
    BY <2>1, BoundAssumption DEF Startup
  <2>5. FirstOpen /\ Vacant
    BY <2>1 DEF FirstOpen, Vacant, Rescan, At
  <2>6. ASSUME NEW p \in Proc PROVE PutsAhead(p) /\ Balance(p) /\ Within(p) /\ ListsAll(p)
    BY <2>1, <2>3, <2>4
    DEF PutsAhead, Balance, Within, ListsAll, At, InPut, Evicting, AheadBySize, BehindBySize
  <2>7. QED
    BY <2>2, <2>5, <2>6 DEF SoloInv
<1>2. TypeOK /\ TypeOK' /\ FirstPutInv /\ PairedInv /\ SoloInv /\ [Next]_vars
        => PairedInv' /\ SoloInv'
  BY PairedStep, SoloStep DEF FirstPutInv
<1>3. QED
  BY <1>1, <1>2, FirstPutInductive, PTL DEF Spec

\* Operations that run one after the other, and do not fail, keep the counter equal to the
\* bytes in the data files, through every sequence of puts, expiries and evictions.
THEOREM SerialCounterExact ==
    ASSUME NEW solo, Proc = {solo}, MaxCrashes = 0, MaxFaults = 0, MaxReopens = 0,
           \A image \in Image : MaxSize + SizeOf[image] < Wrap
    PROVE  Spec => []CounterExact
<1>1. SoloInv => CounterExact
  BY DEF SoloInv, Balance, CounterExact, Quiet, At, AheadBySize, BehindBySize, Evicting
<1>2. QED
  BY <1>1, SoloInductive, PTL

\* And within the limit: each put that exceeds it evicts what it must before it returns.
THEOREM SerialCounterWithinLimit ==
    ASSUME NEW solo, Proc = {solo}, MaxCrashes = 0, MaxFaults = 0, MaxReopens = 0,
           \A image \in Image : MaxSize + SizeOf[image] < Wrap
    PROVE  Spec => []CounterWithinLimit
<1>1. SoloInv => CounterWithinLimit
  BY DEF SoloInv, Within, CounterWithinLimit, Quiet, At, Evicting
<1>2. QED
  BY <1>1, SoloInductive, PTL

\* What the one task may do at the points where an eviction decides.
LEMMA SoloDecides ==
    ASSUME NEW solo, Proc = {solo}, MaxCrashes = 0, MaxFaults = 0, MaxReopens = 0,
           TypeOK, FirstOpen, pc[solo] \in {"load", "list", "remove_data"}, Next
    PROVE  \/ UNCHANGED <<pc, data>>
           \/ LoadSize(solo) /\ At(solo, "load")
           \/ RemoveData(solo)
           \/ pc[solo] # "load" /\ UNCHANGED data
<1>1. CASE Lookup(solo) \/ GetStep(solo) \/ PutStep(solo)
  <2>1. FALSE
    BY <1>1
    DEF At, Lookup, GetMisses, GetFindsFresh, GetFindsExpired, GetStep, ExpireData, ExpireMeta,
        ExpireCount, ReadData, ServeHit, PutStep, GiveUp, Put, OpenData, WriteData, OpenMeta,
        WriteMeta, Count
  <2>2. QED
    BY <2>1
<1>2. CASE EvictStep(solo)
  <2>1. ~StatEntry(solo) /\ ~ReadCreatedAt(solo) /\ ~RemoveMeta(solo)
    BY DEF StatEntry, ReadCreatedAt, RemoveMeta, At
  <2>2. QED
    BY <1>2, <2>1 DEF EvictStep, LoadSize, ListName, SubtractFreed, Listed, At, files
<1>3. ~Crash /\ ~Fault(solo) /\ ~Reopen /\ ~Publish
  BY DEF TypeOK, Crash, Fault, PutFails, RemovalFails, ReadFails, Reopen, Publish, FirstOpen
<1>4. CASE Scan \/ Tick
  BY <1>3, <1>4 DEF Scan, ScanEntry, ScanStore, Open, Tick, files, control
<1>5. QED
  BY <1>1, <1>2, <1>3, <1>4 DEF Next, Step

\* An eviction sets out only when the files themselves exceed the limit.
THEOREM SerialEvictsOnlyWhenFull ==
    ASSUME NEW solo, Proc = {solo}, MaxCrashes = 0, MaxFaults = 0, MaxReopens = 0,
           \A image \in Image : MaxSize + SizeOf[image] < Wrap
    PROVE  Spec => EvictsOnlyWhenFull
<1> DEFINE Starts == \A p \in Proc : At(p, "load") /\ pc'[p] = "list" => DiskBytes > limits.max_size
<1>1. TypeOK /\ SoloInv /\ [Next]_vars => [Starts]_vars
  <2> SUFFICES ASSUME TypeOK, SoloInv, Next, At(solo, "load"), pc'[solo] = "list"
               PROVE  DiskBytes > limits.max_size
    OBVIOUS
  <2>1. currentSize = DiskBytes
    BY DEF SoloInv, Balance, At, AheadBySize, BehindBySize, Evicting
  <2>2. LoadSize(solo)
    <3>1. pc[solo] = "load" /\ pc'[solo] # pc[solo]
      BY DEF At
    <3>2. ~RemoveData(solo)
      BY <3>1 DEF RemoveData, Listed, At
    <3>3. QED
      BY <3>1, <3>2, SoloDecides DEF SoloInv
  <2>3. ~(currentSize <= limits.max_size)
    BY <2>2 DEF LoadSize, Finish, Goto, TypeOK
  <2>4. DiskBytes \in Nat /\ limits.max_size \in Nat
    BY DiskBytesType DEF TypeOK, Limits
  <2>5. QED
    BY <2>1, <2>3, <2>4
<1>2. QED
  BY <1>1, SoloInductive, PTL DEF Spec, EvictsOnlyWhenFull

\* An eviction removes the oldest file on the disk, and only while what is left exceeds
\* the limit.
THEOREM SerialEvictsOldestFirst ==
    ASSUME NEW solo, Proc = {solo}, MaxCrashes = 0, MaxFaults = 0, MaxReopens = 0,
           \A image \in Image : MaxSize + SizeOf[image] < Wrap
    PROVE  Spec => EvictsOldestFirst
<1> DEFINE Removes == \A p \in Proc, k \in Key :
              Listed(p) /\ data[k].here /\ ~data'[k].here =>
                 /\ \A l \in Key : data[l].here => CreatedAt(k) <= CreatedAt(l)
                 /\ DiskBytes > limits.max_size
<1>1. TypeOK /\ SoloInv /\ [Next]_vars => [Removes]_vars
  <2> SUFFICES ASSUME TypeOK, SoloInv, Next, NEW k \in Key, Listed(solo), data[k].here,
                      ~data'[k].here
               PROVE  /\ \A l \in Key : data[l].here => CreatedAt(k) <= CreatedAt(l)
                      /\ DiskBytes > limits.max_size
    OBVIOUS
  <2>1. RemoveData(solo)
    <3>1. pc[solo] \in {"list", "remove_data"} /\ data' # data
      BY DEF Listed, At
    <3>2. QED
      BY <3>1, SoloDecides DEF SoloInv, At
  <2>2. /\ pc[solo] \in {"list", "remove_data"} /\ op[solo].unseen = {}
        /\ ListsAll(solo) /\ Balance(solo) /\ Within(solo)
    BY DEF Listed, At, SoloInv, ListsAll, Evicting
  <2>3. PICK e \in Oldest(op[solo].entries) : data' = data \/ data' = Unlink(data, NoData, e.key)
    BY <2>1 DEF RemoveData
  <2>4. /\ e \in op[solo].entries /\ \A f \in op[solo].entries : e.created_at <= f.created_at
        /\ \A f \in op[solo].entries : Exact(f)
    BY <2>2 DEF Oldest, ListsAll, Evicting
  <2>5. e.key = k
    BY <2>3 DEF Unlink, TypeOK
  <2>6. ASSUME NEW l \in Key, data[l].here PROVE CreatedAt(k) <= CreatedAt(l)
    <3>1. PICK f \in op[solo].entries : f.key = l
      BY <2>2, <2>6 DEF ListsAll, Evicting
    <3>2. QED
      BY <2>4, <2>5, <3>1 DEF Exact
  <2>7. DiskBytes > limits.max_size
    <3>1. op[solo].freed < op[solo].current - limits.max_size
      BY <2>1 DEF RemoveData, StillOver, Target
    <3>2. currentSize = DiskBytes + op[solo].freed /\ currentSize = op[solo].current
      <4>1. DiskBytes + op[solo].freed + 0 = DiskBytes + op[solo].freed
        BY DiskBytesType DEF TypeOK, Operation
      <4>2. QED
        BY <2>2, <4>1 DEF Balance, Within, Evicting, At
    <3>3. DiskBytes \in Nat /\ op[solo].freed \in Nat /\ limits.max_size \in Nat
      BY DiskBytesType DEF TypeOK, Operation, Limits
    <3>4. QED
      BY <3>1, <3>2, <3>3
  <2>8. QED
    BY <2>6, <2>7
<1>2. QED
  BY <1>1, SoloInductive, PTL DEF Spec, EvictsOldestFirst
=============================================================================
