-------------------------- MODULE CacheStoreProofs --------------------------
(***************************************************************************)
(* The filesystem cache implements CacheStore: the initial state maps to   *)
(* the initial state, and every step to a step or to none, for any sets of *)
(* keys, tasks and images and for any bounds.                              *)
(***************************************************************************)
EXTENDS FsCacheProofs

-----------------------------------------------------------------------------
(* The mapping                                                             *)

\* A put that is past its data file, or evicts.
Stored == {"open_meta", "write_meta", "count", "load", "list", "stat", "read_created_at",
           "remove_data", "remove_meta", "subtract"}

\* What a task is to the abstract cache, label by label.
Mapped(p) ==
    /\ pc[p] = "idle" => ClientOf(p) = Caller("idle", Blank, Blank)
    /\ pc[p] \in Getting => ClientOf(p) = Caller("get", op[p].key, Blank)
    /\ pc[p] = "missed" => ClientOf(p) = Caller("missed", op[p].key, Blank)
    /\ pc[p] = "hit" => ClientOf(p) = Caller("hit", op[p].key,
                            IF op[p].content \in Image THEN op[p].content ELSE Mixed)
    /\ pc[p] \in BeforeData => ClientOf(p) = Caller("put", op[p].key, op[p].content)
    /\ pc[p] \in Stored => ClientOf(p) = Caller("stored", Blank, Blank)

\* The cases of ClientOf exclude each other.
LEMMA Clients == ASSUME NEW p \in Proc PROVE Mapped(p) /\ Mapped(p)'
BY DEF Mapped, ClientOf, At, Getting, BeforeData, Stored

\* A step of p turns the client p and no other.
LEMMA TurnsOneClient ==
    ASSUME TypeOK, NEW p \in Proc, Lookup(p) \/ Step(p) \/ Fault(p)
    PROVE  [q \in Proc |-> ClientOf(q)'] = [[q \in Proc |-> ClientOf(q)] EXCEPT ![p] = ClientOf(p)']
<1>1. ASSUME NEW q \in Proc, q # p PROVE ClientOf(q)' = ClientOf(q)
  <2>1. pc'[q] = pc[q] /\ op'[q] = op[q]
    BY <1>1, StepIsLocal
  <2>2. QED
    BY <2>1 DEF ClientOf, At
<1>2. QED
  BY <1>1

\* A file that gets another content, size or writers changes the entry of its key.
LEMMA ChangesOneEntry ==
    ASSUME TypeOK, NEW k \in Key, NEW file \in DataFile, data' = [data EXCEPT ![k] = file]
    PROVE  StoredEntry' = [StoredEntry EXCEPT ![k] =
               IF file.here /\ file.content \in Image THEN file.content ELSE Blank]
BY DEF TypeOK, StoredEntry

\* Entries stay where contents stay.
LEMMA KeepsEntries ==
    ASSUME \A k \in Key : data'[k].here = data[k].here /\ data'[k].content = data[k].content
    PROVE  StoredEntry' = StoredEntry
BY DEF StoredEntry

-----------------------------------------------------------------------------
(* Each step of a task                                                     *)

\* The lookup of a sidecar begins a get, or is a whole get that misses.
LEMMA LookupMaps ==
    ASSUME TypeOK, NEW p \in Proc, Lookup(p)
    PROVE  Store!Next
<1> USE Clients DEF Mapped, At, Goto, Getting
<1>1. PICK k \in Key : GetMisses(p, k) \/ GetFindsFresh(p, k) \/ GetFindsExpired(p, k)
  BY DEF Lookup
<1>2. StoredEntry' = StoredEntry /\ puts' = puts
  BY <1>1 DEF GetMisses, GetFindsFresh, GetFindsExpired, files, StoredEntry
<1>3. ClientOf(p) = Caller("idle", Blank, Blank)
  BY <1>1 DEF GetMisses, GetFindsFresh, GetFindsExpired
<1>4. CASE GetMisses(p, k)
  <2>1. pc'[p] = "missed" /\ op'[p].key = k
    BY <1>4 DEF GetMisses, TypeOK, Operation
  <2>2. Store!Miss(p, k)
    BY <1>2, <1>3, <2>1, TurnsOneClient
    DEF Store!Miss, Store!Turn, Store!Idle, Store!Client, Caller
  <2>3. QED
    BY <2>2 DEF Store!Next
<1>5. CASE GetFindsFresh(p, k) \/ GetFindsExpired(p, k)
  <2>1. pc'[p] \in Getting /\ op'[p].key = k
    BY <1>5 DEF GetFindsFresh, GetFindsExpired, TypeOK, Operation
  <2>2. Store!Get(p, k)
    BY <1>2, <1>3, <2>1, TurnsOneClient
    DEF Store!Get, Store!Turn, Store!Idle, Store!Client, Caller
  <2>3. QED
    BY <2>2 DEF Store!Next
<1>6. QED
  BY <1>1, <1>4, <1>5

\* A get forgets what expired, hits at the read of the data, or misses.
LEMMA GetMaps ==
    ASSUME TypeOK, FirstPutInv, NEW p \in Proc, GetStep(p)
    PROVE  Store!Next \/ UNCHANGED Store!vars
<1> USE Clients DEF Mapped, At, Goto, Getting
<1>k. op[p].key \in Key /\ Step(p)
  BY DEF TypeOK, Operation, Step
<1> DEFINE k == op[p].key
<1>1. CASE ExpireData(p)
  <2>1. ClientOf(p)' = ClientOf(p) /\ puts' = puts
    BY <1>1 DEF ExpireData, TypeOK
  <2>2. StoredEntry' = [StoredEntry EXCEPT ![k] = Blank]
    BY <1>1, <1>k, ConstantTypes, ChangesOneEntry DEF ExpireData, Unlink, NoData
  <2>3. Store!Forget(k)
    BY <1>k, <2>1, <2>2, TurnsOneClient DEF Store!Forget, Store!Drop
  <2>4. QED
    BY <1>k, <2>3 DEF Store!Next
<1>2. CASE ExpireMeta(p)
  <2>1. ClientOf(p)' = ClientOf(p) /\ puts' = puts /\ data' = data
    BY <1>2 DEF ExpireMeta, TypeOK
  <2>2. QED
    BY <1>k, <2>1, TurnsOneClient, KeepsEntries DEF Store!vars
<1>3. CASE ExpireCount(p)
  <2>1. pc'[p] = "missed" /\ op'[p].key = k /\ puts' = puts /\ data' = data
    BY <1>3 DEF ExpireCount, TypeOK, Operation, files
  <2>2. Store!Miss(p, k)
    BY <1>3, <1>k, <2>1, TurnsOneClient, KeepsEntries
    DEF ExpireCount, Store!Miss, Store!Turn, Store!Client, Caller
  <2>3. QED
    BY <1>k, <2>2 DEF Store!Next
<1>4. CASE ReadData(p)
  <2>1. op'[p].key = k /\ puts' = puts /\ data' = data
    BY <1>4 DEF ReadData, TypeOK, Operation, files
  <2>2. ClientOf(p) = Caller("get", k, Blank)
    BY <1>4 DEF ReadData
  <2>3. CASE ~data[k].here
    <3>1. pc'[p] = "missed"
      BY <1>4, <2>3 DEF ReadData, TypeOK
    <3>2. Store!Miss(p, k)
      BY <1>k, <2>1, <2>2, <3>1, TurnsOneClient, KeepsEntries
      DEF Store!Miss, Store!Turn, Store!Client, Caller
    <3>3. QED
      BY <1>k, <3>2 DEF Store!Next
  <2>4. CASE data[k].here
    <3>1. pc'[p] = "hit" /\ op'[p].content = data[k].content
      BY <1>4, <2>4 DEF ReadData, TypeOK, Operation
    <3>2. CASE data[k].content \in Image
      <4>1. StoredEntry[k] = data[k].content /\ StoredEntry[k] # Blank
        BY <1>k, <2>4, <3>2, ImageAssumption DEF StoredEntry
      <4>2. ClientOf(p)' = Caller("hit", k, StoredEntry[k])
        BY <2>1, <3>1, <3>2, <4>1
      <4>3. Store!Hit(p, k)
        BY <1>k, <2>1, <2>2, <4>1, <4>2, TurnsOneClient, KeepsEntries
        DEF Store!Hit, Store!Turn, Store!Client, Caller
      <4>4. QED
        BY <1>k, <4>3 DEF Store!Next
    <3>3. CASE data[k].content \notin Image
      <4>1. puts[k] > 1
        <5>1. KeyInv(k) /\ pc[p] = "read_data"
          BY <1>4, <1>k DEF FirstPutInv, ReadData
        <5>2. puts[k] \in Nat /\ puts[k] # 0 /\ puts[k] # 1
          BY <1>k, <2>4, <3>3, <5>1, BoundAssumption
          DEF KeyInv, NeverPut, PutOnce, On, Whole, TypeOK
        <5>3. QED
          BY <5>2
      <4>2. ClientOf(p)' = Caller("hit", k, Mixed)
        BY <2>1, <3>1, <3>3
      <4>3. Store!TornHit(p, k)
        BY <1>k, <2>1, <2>2, <4>1, <4>2, TurnsOneClient, KeepsEntries
        DEF Store!TornHit, Store!Turn, Store!Client, Caller
      <4>4. QED
        BY <1>k, <4>3 DEF Store!Next
    <3>4. QED
      BY <3>2, <3>3
  <2>5. QED
    BY <2>3, <2>4
<1>5. CASE ServeHit(p)
  <2>1. pc'[p] = "idle" /\ puts' = puts /\ data' = data
    BY <1>5 DEF ServeHit, Finish, TypeOK, files
  <2>2. Store!Return(p)
    BY <1>k, <2>1, TurnsOneClient, KeepsEntries
    DEF Store!Return, Store!Spoil, Store!Turn, Store!Idle, Store!Client, Caller
  <2>3. QED
    BY <2>2 DEF Store!Next
<1>6. QED
  BY <1>1, <1>2, <1>3, <1>4, <1>5 DEF GetStep

\* A put spoils the entry it replaces when it opens the data file and stores its
\* own when it writes it; nothing of what follows touches an entry.
LEMMA PutMaps ==
    ASSUME TypeOK, FirstPutInv, NEW p \in Proc, PutStep(p)
    PROVE  Store!Next \/ UNCHANGED Store!vars
<1> USE Clients DEF Mapped, At, Goto, BeforeData, Stored
<1>k. op[p].key \in Key /\ Step(p)
  BY DEF TypeOK, Operation, Step
<1> DEFINE k == op[p].key
<1>1. CASE GiveUp(p)
  <2>1. pc'[p] = "idle" /\ puts' = puts /\ data' = data
    BY <1>1 DEF GiveUp, Finish, TypeOK, files
  <2>2. Store!Return(p)
    BY <1>k, <2>1, TurnsOneClient, KeepsEntries
    DEF Store!Return, Store!Spoil, Store!Turn, Store!Idle, Store!Client, Caller
  <2>3. QED
    BY <2>2 DEF Store!Next
<1>2. ASSUME NEW image \in Rendition[k], Put(p, image) PROVE Store!Next
  <2>1. pc'[p] = "open_data" /\ op'[p].key = k /\ op'[p].content = image /\ data' = data
    <3>1. op' = [op EXCEPT ![p].content = image, ![p].size = SizeOf[image], ![p].created_at = now]
      BY <1>2 DEF Put
    <3>2. QED
      BY <1>2, <3>1 DEF Put, TypeOK, Operation, files
  <2>2. Store!Put(p, k, image)
    BY <1>2, <1>k, <2>1, TurnsOneClient, KeepsEntries
    DEF Put, Store!Put, Store!Turn, Store!Client, Caller
  <2>3. QED
    BY <1>2, <1>k, <2>2 DEF Store!Next
<1>3. CASE OpenData(p)
  <2>1. ClientOf(p)' = ClientOf(p) /\ puts' = puts
    BY <1>3 DEF OpenData, TypeOK
  <2>2. StoredEntry' = [StoredEntry EXCEPT ![k] = Blank]
    <3>1. PICK file \in DataFile : file.content = Blank /\ data' = [data EXCEPT ![k] = file]
      <4>1. [here |-> TRUE, content |-> Blank, size |-> 0,
             writers |-> data[k].writers \cup {p}] \in DataFile
        BY <1>k DEF TypeOK, DataFile, Content
      <4>2. QED
        BY <1>3, <4>1 DEF OpenData
    <3>2. QED
      BY <1>k, <3>1, ChangesOneEntry, ImageAssumption
  <2>3. Store!Forget(k)
    BY <1>k, <2>1, <2>2, TurnsOneClient DEF Store!Forget, Store!Drop
  <2>4. QED
    BY <1>k, <2>3 DEF Store!Next
<1>4. CASE WriteData(p)
  <2>1. pc[p] = "write_data" /\ pc'[p] = "open_meta" /\ puts' = puts
    BY <1>4 DEF WriteData, TypeOK
  <2>2. ClientOf(p) = Caller("put", k, op[p].content) /\ op[p].content \in Image
    BY <2>1 DEF FirstPutInv, PutsAnImage
  <2>3. \/ StoredEntry' = StoredEntry
        \/ StoredEntry' = [StoredEntry EXCEPT ![k] = Blank]
        \/ StoredEntry' = [StoredEntry EXCEPT ![k] = op[p].content]
    <3>1. CASE data' = data
      BY <3>1, KeepsEntries
    <3>2. CASE data' # data
      <4>1. PICK file \in DataFile :
              /\ data' = [data EXCEPT ![k] = file]
              /\ file.content \in {op[p].content, Mixed}
        <5> DEFINE written == Overwritten(data[k], op[p].content)
        <5>0. data[k] \in DataFile /\ SizeOf[op[p].content] \in Nat
          BY <1>k, <2>2, ImageAssumption DEF TypeOK
        <5>1. written \in DataFile /\ written.content \in {op[p].content, Mixed}
          <6>1. written \in DataFile
            BY <2>2, <5>0 DEF Overwritten, DataFile, Content
          <6>2. written.content \in {op[p].content, Mixed}
            BY <5>0 DEF Overwritten, DataFile
          <6>3. QED
            BY <6>1, <6>2
        <5> HIDE DEF written
        <5>2. [written EXCEPT !.writers = @ \ {p}] \in DataFile
          BY <5>1 DEF DataFile
        <5>3. [written EXCEPT !.writers = @ \ {p}].content = written.content
          BY <5>1 DEF DataFile
        <5>4. data' = [data EXCEPT ![k] = [written EXCEPT !.writers = @ \ {p}]]
          BY <1>4, <3>2 DEF WriteData, written
        <5>5. QED
          BY <5>1, <5>2, <5>3, <5>4
      <4>2. QED
        BY <1>k, <2>2, <4>1, ChangesOneEntry, ImageAssumption
    <3>3. QED
      BY <3>1, <3>2
  <2>4. Store!Store(p, k) \/ Store!StoreLost(p, k)
    BY <1>k, <2>1, <2>2, <2>3, TurnsOneClient
    DEF Store!Store, Store!StoreLost, Store!Drop, Store!Turn, Store!Returning, Store!Client, Caller
  <2>5. QED
    BY <1>k, <2>4 DEF Store!Next
<1>5. CASE OpenMeta(p) \/ WriteMeta(p) \/ Count(p)
  <2>1. pc[p] \in Stored /\ pc'[p] \in Stored /\ puts' = puts /\ data' = data
    BY <1>5 DEF OpenMeta, WriteMeta, Count, TypeOK, files
  <2>2. QED
    BY <1>k, <2>1, TurnsOneClient, KeepsEntries DEF Store!vars
<1>6. QED
  BY <1>1, <1>2, <1>3, <1>4, <1>5 DEF PutStep

\* An eviction forgets the entry of each data file it removes.
LEMMA EvictMaps ==
    ASSUME TypeOK, NEW p \in Proc, EvictStep(p)
    PROVE  Store!Next \/ UNCHANGED Store!vars
<1> USE Clients DEF Mapped, At, Goto, Stored
<1>s. Step(p)
  BY DEF Step
<1>1. ASSUME pc[p] \in Stored, pc'[p] = "idle", puts' = puts, data' = data PROVE Store!Next
  <2>1. Store!Return(p)
    BY <1>1, <1>s, TurnsOneClient, KeepsEntries
    DEF Store!Return, Store!Spoil, Store!Turn, Store!Idle, Store!Client, Caller
  <2>2. QED
    BY <2>1 DEF Store!Next
<1>2. ASSUME pc[p] \in Stored, pc'[p] \in Stored, puts' = puts, data' = data
      PROVE  UNCHANGED Store!vars
  BY <1>2, <1>s, TurnsOneClient, KeepsEntries DEF Store!vars
<1>3. CASE LoadSize(p)
  BY <1>1, <1>2, <1>3 DEF LoadSize, Finish, TypeOK, files
<1>4. CASE (\E k \in Key : ListName(p, k)) \/ StatEntry(p) \/ ReadCreatedAt(p) \/ RemoveMeta(p)
  <2>1. pc[p] \in Stored /\ pc'[p] \in Stored /\ puts' = puts /\ data' = data
    BY <1>4 DEF ListName, StatEntry, ReadCreatedAt, RemoveMeta, TypeOK, files
  <2>2. QED
    BY <1>2, <2>1
<1>5. CASE RemoveData(p)
  <2>1. pc[p] \in Stored /\ pc'[p] \in Stored /\ puts' = puts
    BY <1>5 DEF RemoveData, Listed, TypeOK
  <2>2. CASE data' = data
    BY <1>2, <2>1, <2>2
  <2>3. CASE data' # data
    <3>1. PICK e \in op[p].entries : data' = [data EXCEPT ![e.key] = NoData]
      BY <1>5, <2>3 DEF RemoveData, Oldest, Unlink
    <3>2. e.key \in Key
      BY DEF TypeOK, Operation, Entry
    <3>3. StoredEntry' = [StoredEntry EXCEPT ![e.key] = Blank]
      BY <3>1, <3>2, ConstantTypes, ChangesOneEntry DEF NoData
    <3>4. Store!Forget(e.key)
      BY <1>s, <2>1, <3>3, TurnsOneClient DEF Store!Forget, Store!Drop
    <3>5. QED
      BY <3>2, <3>4 DEF Store!Next
  <2>4. QED
    BY <2>2, <2>3
<1>6. CASE SubtractFreed(p)
  <2>1. pc[p] \in Stored /\ pc'[p] = "idle" /\ puts' = puts /\ data' = data
    BY <1>6 DEF SubtractFreed, Listed, Finish, TypeOK, files
  <2>2. QED
    BY <1>1, <2>1
<1>7. QED
  BY <1>3, <1>4, <1>5, <1>6 DEF EvictStep

\* A write that is cut short leaves the entry of its key or spoils it.
LEMMA InterruptedMaps ==
    ASSUME TypeOK, FirstPutInv, NEW p \in Proc, NEW k \in Key, NEW file \in Interrupted(p, k),
           \A l \in Key \ {k} : data'[l].here = data[l].here /\ data'[l].content = data[l].content,
           data'[k].here = file.here, data'[k].content = file.content
    PROVE  StoredEntry' = StoredEntry \/ (Writing(p, k) /\ StoredEntry' = [StoredEntry EXCEPT ![k] = Blank])
<1>1. /\ file.here = data[k].here /\ file.content \in {data[k].content, Mixed}
      /\ file # data[k] => Writing(p, k)
  BY InterruptedType DEF FirstPutInv
<1>2. CASE file.content = data[k].content
  BY <1>1, <1>2, KeepsEntries
<1>3. CASE file.content # data[k].content
  <2>1. Mixed \notin Image
    BY ImageAssumption
  <2>2. StoredEntry'[k] = Blank /\ \A l \in Key \ {k} : StoredEntry'[l] = StoredEntry[l]
    BY <1>1, <1>3, <2>1 DEF StoredEntry
  <2>3. StoredEntry' = [StoredEntry EXCEPT ![k] = Blank]
    <3>1. /\ StoredEntry' = [l \in Key |-> StoredEntry'[l]]
          /\ StoredEntry = [l \in Key |-> StoredEntry[l]]
      BY DEF StoredEntry
    <3>2. QED
      BY <2>2, <3>1
  <2>4. QED
    BY <1>1, <1>3, <2>3
<1>4. QED
  BY <1>2, <1>3

\* A put that fails returns; a read that fails is a miss, a removal that fails nothing.
LEMMA FaultMaps ==
    ASSUME TypeOK, FirstPutInv, NEW p \in Proc, Fault(p)
    PROVE  Store!Next \/ UNCHANGED Store!vars
<1> USE Clients DEF Mapped, At, Goto, Getting
<1>1. CASE PutFails(p)
  <2>1. pc'[p] = "idle" /\ puts' = puts
    BY <1>1 DEF PutFails, Finish, TypeOK
  <2> DEFINE k == op[p].key
  <2>k. k \in Key
    BY DEF TypeOK, Operation
  <2>2. StoredEntry' = StoredEntry \/ (Writing(p, k) /\ StoredEntry' = [StoredEntry EXCEPT ![k] = Blank])
    <3>1. PICK file \in Interrupted(p, k) : data' = [data EXCEPT ![k] = [file EXCEPT !.writers = @ \ {p}]]
      BY <1>1 DEF PutFails
    <3>2. file \in DataFile
      BY <2>k, InterruptedType DEF FirstPutInv
    <3>3. /\ data'[k].here = file.here /\ data'[k].content = file.content
          /\ \A l \in Key \ {k} : data'[l] = data[l]
      BY <2>k, <3>1, <3>2 DEF TypeOK, DataFile
    <3>4. QED
      BY <2>k, <3>3, InterruptedMaps
  <2>3. Store!Return(p)
    <3>1. Writing(p, k) => ClientOf(p) = Caller("put", k, op[p].content)
      BY DEF Writing, BeforeData
    <3>2. Store!Spoil(p)
      BY <2>2, <3>1 DEF Store!Spoil, Store!Drop, Caller
    <3>3. QED
      BY <2>1, <3>2, TurnsOneClient DEF Store!Return, Store!Turn, Store!Idle, Store!Client, Caller
  <2>4. QED
    BY <2>3 DEF Store!Next
<1>2. ASSUME NEW k \in Key, ReadFails(p, k) PROVE Store!Next
  <2>1. /\ pc'[p] = "missed" /\ op'[p].key = k /\ puts' = puts /\ data' = data
        /\ pc[p] = "idle" \/ (pc[p] = "read_data" /\ op[p].key = k)
    BY <1>2 DEF ReadFails, TypeOK, Operation, files
  <2>2. Store!Miss(p, k)
    BY <2>1, TurnsOneClient, KeepsEntries
    DEF Store!Miss, Store!Turn, Store!Idle, Store!Client, Caller
  <2>3. QED
    BY <2>2 DEF Store!Next
<1>3. CASE RemovalFails(p)
  <2>1. ClientOf(p)' = ClientOf(p)
    <3>1. \/ pc[p] \in Getting /\ pc'[p] \in Getting
          \/ pc[p] \in Stored /\ pc'[p] \in Stored
      BY <1>3 DEF RemovalFails, Listed, Stored, TypeOK
    <3>2. op'[p].key = op[p].key
      <4>1. \/ op' = op
            \/ \E e : op' = [op EXCEPT ![p].entries = @ \ {e}, ![p].entry = e]
            \/ op' = [op EXCEPT ![p].freed = @ + op[p].entry.size, ![p].entry = NoEntry]
        BY <1>3 DEF RemovalFails
      <4>2. op[p] \in Operation /\ op \in [Proc -> Operation]
        BY DEF TypeOK
      <4>3. QED
        BY <4>1, <4>2 DEF Operation
    <3>3. QED
      BY <3>1, <3>2
  <2>2. UNCHANGED Store!vars
    BY <1>3, <2>1, TurnsOneClient, KeepsEntries DEF RemovalFails, files, Store!vars
  <2>3. QED
    BY <2>2
<1>4. QED
  BY <1>1, <1>2, <1>3 DEF Fault

-----------------------------------------------------------------------------
\* The filesystem cache implements the abstract one: whatever tasks, kills,
\* failures and Configures interleave, a hit is the image stored under its key
\* when the data is read, and torn bytes come only from keys put before.
THEOREM CacheImplemented == Spec => ImplementsCacheStore
<1> USE Clients DEF Mapped
<1>1. Init => Store!Init
  BY DEF Init, NoData, StoredEntry, Store!Init, Store!Idle, Store!Client, Caller
<1>2. TypeOK /\ FirstPutInv /\ [Next]_vars => [Store!Next]_(Store!vars)
  <2> SUFFICES ASSUME TypeOK, FirstPutInv, [Next]_vars
               PROVE  Store!Next \/ UNCHANGED Store!vars
    OBVIOUS
  <2>1. CASE Scan \/ Reopen \/ Tick \/ UNCHANGED vars
    <3>1. UNCHANGED <<data, pc, op, puts>>
      BY <2>1 DEF Scan, ScanEntry, ScanStore, Publish, Open, Reopen, Tick, vars, files, control
    <3>2. \A p \in Proc : ClientOf(p)' = ClientOf(p)
      BY <3>1 DEF ClientOf, At
    <3>3. QED
      BY <3>1, <3>2, KeepsEntries DEF Store!vars
  <2>2. CASE Crash
    <3>1. PICK p \in Proc, k \in Key : \E file \in Interrupted(p, k) :
            data' = [l \in Key |-> [IF l = k THEN file ELSE data[l] EXCEPT !.writers = {}]]
      BY <2>2 DEF Crash
    <3>2. StoredEntry' = StoredEntry \/ (Writing(p, k) /\ StoredEntry' = [StoredEntry EXCEPT ![k] = Blank])
      <4>1. PICK file \in Interrupted(p, k) :
              data' = [l \in Key |-> [IF l = k THEN file ELSE data[l] EXCEPT !.writers = {}]]
        BY <3>1
      <4>2. file \in DataFile /\ \A l \in Key : data[l] \in DataFile
        BY InterruptedType DEF FirstPutInv, TypeOK
      <4>3. /\ data'[k].here = file.here /\ data'[k].content = file.content
            /\ \A l \in Key \ {k} : data'[l].here = data[l].here /\ data'[l].content = data[l].content
        BY <4>1, <4>2 DEF DataFile
      <4>4. QED
        BY <4>3, InterruptedMaps
    <3>3. Writing(p, k) => ClientOf(p) = Caller("put", k, op[p].content)
      BY DEF Writing, BeforeData
    <3>4. Store!Spoil(p)
      BY <3>2, <3>3 DEF Store!Spoil, Store!Drop, Caller
    <3>5. Store!Restart
      BY <2>2, <3>4 DEF Crash, Store!Restart, Store!Idle, Store!Client, Caller
    <3>6. QED
      BY <3>5 DEF Store!Next
  <2>3. ASSUME NEW p \in Proc, Lookup(p) \/ Step(p) \/ Fault(p)
        PROVE  Store!Next \/ UNCHANGED Store!vars
    BY <2>3, LookupMaps, GetMaps, PutMaps, EvictMaps, FaultMaps DEF Step
  <2>4. QED
    BY <2>1, <2>2, <2>3 DEF Next
<1>3. Spec => [](TypeOK /\ FirstPutInv)
  BY FirstPutInductive
<1>4. QED
  BY <1>1, <1>2, <1>3, PTL DEF Spec, ImplementsCacheStore, Store!Spec
=============================================================================
