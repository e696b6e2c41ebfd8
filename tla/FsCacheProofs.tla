--------------------------- MODULE FsCacheProofs ---------------------------
(***************************************************************************)
(* Proofs about FsCache, for any sets of keys, tasks and images and for    *)
(* any bounds.                                                             *)
(***************************************************************************)
EXTENDS FsCacheRequirements, FiniteSetTheorems, TLAPS

-----------------------------------------------------------------------------
(* Sums                                                                    *)

\* The units of one number.
LEMMA SliceSize ==
    ASSUME NEW x, NEW n \in Nat
    PROVE  IsFiniteSet({x} \X (1 .. n)) /\ Cardinality({x} \X (1 .. n)) = n
<1> DEFINE unit == [i \in 1 .. n |-> <<x, i>>]
<1>1. unit \in Bijection(1 .. n, {x} \X (1 .. n))
  BY DEF Bijection, Injection, IsInjective, Surjection
<1>2. IsFiniteSet(1 .. n) /\ Cardinality(1 .. n) = n
  BY FS_Interval
<1>3. ExistsBijection(1 .. n, {x} \X (1 .. n))
  BY <1>1 DEF ExistsBijection
<1>4. QED
  BY <1>2, <1>3, FS_Bijection

\* A finite family of finite numbers has finitely many units.
LEMMA UnitsFinite ==
    ASSUME NEW D, IsFiniteSet(D), NEW f \in [D -> Nat]
    PROVE  IsFiniteSet(Units(f)) /\ Total(f) \in Nat
<1> DEFINE slice == [x \in D |-> {x} \X (1 .. f[x])]
           slices == {{x} \X (1 .. f[x]) : x \in D}
<1>1. slice \in Surjection(D, slices)
  BY DEF Surjection
<1>2. IsFiniteSet(slices)
  <2> HIDE DEF slice, slices
  <2> QED BY <1>1, FS_Surjection
<1>3. ASSUME NEW x \in D PROVE IsFiniteSet({x} \X (1 .. f[x]))
  BY SliceSize
<1>4. IsFiniteSet(UNION slices)
  BY <1>2, <1>3, FS_UNION
<1>5. QED
  BY <1>4, FS_CardinalityType DEF Units, Total

\* Changing one number changes the sum by as much.
LEMMA TotalUpdate ==
    ASSUME NEW D, IsFiniteSet(D), NEW f \in [D -> Nat], NEW g \in [D -> Nat],
           NEW x \in D, \A y \in D \ {x} : g[y] = f[y]
    PROVE  Total(g) = Total(f) - f[x] + g[x]
<1> DEFINE rest == Units(f) \ ({x} \X (1 .. f[x]))
<1>1. rest = Units(g) \ ({x} \X (1 .. g[x]))
  BY DEF Units
<1>2. /\ Units(f) \cap ({x} \X (1 .. f[x])) = {x} \X (1 .. f[x])
      /\ Units(g) \cap ({x} \X (1 .. g[x])) = {x} \X (1 .. g[x])
  BY DEF Units
<1>0. IsFiniteSet(Units(f)) /\ IsFiniteSet(Units(g)) /\ f[x] \in Nat /\ g[x] \in Nat
  BY UnitsFinite
<1>3. Cardinality(rest) = Total(f) - f[x]
  <2>3. Cardinality({x} \X (1 .. f[x])) = f[x]
    BY <1>0, SliceSize
  <2>1. Cardinality(rest) = Cardinality(Units(f)) - Cardinality(Units(f) \cap ({x} \X (1 .. f[x])))
    BY <1>0, FS_Difference, Zenon
  <2>2. QED
    BY <1>2, <2>1, <2>3 DEF Total
<1>4. Cardinality(rest) = Total(g) - g[x]
  <2>3. Cardinality({x} \X (1 .. g[x])) = g[x]
    BY <1>0, SliceSize
  <2>1. Cardinality(rest) = Cardinality(Units(g)) - Cardinality(Units(g) \cap ({x} \X (1 .. g[x])))
    BY <1>0, <1>1, FS_Difference, Zenon
  <2>2. QED
    BY <1>2, <2>1, <2>3 DEF Total
<1>5. QED
  BY <1>3, <1>4, UnitsFinite

\* Larger numbers have the larger sum.
LEMMA TotalMonotone ==
    ASSUME NEW D, IsFiniteSet(D), NEW f \in [D -> Nat], NEW g \in [D -> Nat],
           \A x \in D : f[x] <= g[x]
    PROVE  Total(f) <= Total(g)
<1>1. Units(f) \subseteq Units(g)
  BY DEF Units
<1>2. QED
  BY <1>1, UnitsFinite, FS_Subset DEF Total

\* Zeros add up to zero.
LEMMA TotalZero ==
    ASSUME NEW D, NEW f \in [D -> Nat], \A x \in D : f[x] = 0
    PROVE  Total(f) = 0
<1>1. Units(f) = {}
  BY DEF Units
<1>2. QED
  BY <1>1, FS_EmptySet DEF Total
-----------------------------------------------------------------------------
(* The inductive invariant behind FirstPutHitsAreWhole                     *)

\* p works on key k and its next step is one of labels.
On(p, k, labels) == pc[p] \in labels /\ op[p].key = k

BeforeData == {"open_data", "write_data"}
BeforeMeta == {"open_data", "write_data", "open_meta"}
InPut == {"open_data", "write_data", "open_meta", "write_meta", "count"}
Evicting == {"list", "stat", "read_created_at", "remove_data", "remove_meta"}

Whole(k) == data[k].here => data[k].content \in Image

\* A key nobody put has no file, no writer and no reader past the sidecar.
NeverPut(k) ==
    /\ ~data[k].here /\ ~sidecar[k].here
    /\ \A p \in Proc : ~On(p, k, InPut \cup {"read_data", "hit"})

\* A key put once has one writer at most; before that writer opens the sidecar
\* there is none and nobody reads the data, and from then on the data is whole.
PutOnce(k) ==
    /\ \A p, q \in Proc : On(p, k, InPut) /\ On(q, k, InPut) => p = q
    /\ \A p, q \in Proc :
          On(p, k, BeforeMeta) => ~sidecar[k].here /\ ~On(q, k, {"read_data"})
    /\ \A p \in Proc :
          /\ On(p, k, {"open_data"}) => ~data[k].here
          /\ On(p, k, {"write_data"}) =>
                data[k].size = 0 /\ (data[k].here => p \in data[k].writers)
          /\ On(p, k, {"open_meta", "write_meta", "read_data"}) => Whole(k)
          /\ On(p, k, {"hit"}) => op[p].content \in Image
    /\ sidecar[k].here => Whole(k)

\* A put holds an image until its data is written.
PutsAnImage == \A p \in Proc : pc[p] \in BeforeData => op[p].content \in Image

KeyInv(k) == (puts[k] = 0 => NeverPut(k)) /\ (puts[k] = 1 => PutOnce(k))

FirstPutInv == PutsAnImage /\ \A k \in Key : KeyInv(k)

-----------------------------------------------------------------------------
(* Types                                                                   *)

\* A remainder lies below its divisor: the counter stays a w-bit number.
LEMMA Remainder ==
    ASSUME NEW m \in Nat \ {0}, NEW a \in Int
    PROVE  a % m \in 0 .. m - 1
OBVIOUS

\* A number below the divisor is its own remainder.
LEMMA SmallRemainder ==
    ASSUME NEW m \in Nat \ {0}, NEW a \in 0 .. m - 1
    PROVE  a % m = a
OBVIOUS

\* The constants of the model are what their comments say.
LEMMA ConstantTypes ==
    /\ (CHOOSE k \in Key : TRUE) \in Key
    /\ NoData \in DataFile
    /\ NoSidecar \in Sidecar
    /\ NoEntry \in Entry
    /\ NoOperation \in Operation
<1>1. (CHOOSE k \in Key : TRUE) \in Key
  BY KeyAssumption
<1>2. NoData \in DataFile
  BY DEF NoData, DataFile, Content
<1>3. NoSidecar \in Sidecar
  BY DEF NoSidecar, Sidecar
<1>4. NoEntry \in Entry
  BY <1>1 DEF NoEntry, Entry
<1>5. NoOperation \in Operation
  BY <1>1, <1>4 DEF NoOperation, Operation, Content
<1>6. QED
  BY <1>1, <1>2, <1>3, <1>4, <1>5

\* The bytes on the disk are a number, and change by what one file changes.
LEMMA DiskBytesType == TypeOK => DiskBytes \in Nat
<1> SUFFICES ASSUME TypeOK PROVE DiskBytes \in Nat
  OBVIOUS
<1>1. [k \in Key |-> data[k].size] \in [Key -> Nat]
  BY DEF TypeOK, DataFile
<1>2. QED
  BY <1>1, KeyAssumption, UnitsFinite DEF DiskBytes

LEMMA DiskBytesStep ==
    ASSUME TypeOK, TypeOK', NEW k \in Key, \A l \in Key \ {k} : data'[l] = data[l]
    PROVE  DiskBytes' = DiskBytes - data[k].size + data'[k].size
<1> DEFINE old == [l \in Key |-> data[l].size]
           new == [l \in Key |-> data'[l].size]
<1>1. old \in [Key -> Nat] /\ new \in [Key -> Nat]
  BY DEF TypeOK, DataFile
<1>2. \A l \in Key \ {k} : new[l] = old[l]
  OBVIOUS
<1>3. Total(new) = Total(old) - old[k] + new[k]
  <2> HIDE DEF old, new
  <2> QED BY <1>1, <1>2, KeyAssumption, TotalUpdate
<1>4. QED
  BY <1>3 DEF DiskBytes

\* An empty cache has the types of its state.
LEMMA InitType == Init => TypeOK
BY ConstantTypes, BoundAssumption DEF Init, TypeOK, Rescan, Scanning, Startup, Limits, Label

\* A write that is cut short leaves a file of the same writers.
LEMMA InterruptedType ==
    ASSUME TypeOK, PutsAnImage, NEW p \in Proc, NEW k \in Key, NEW file \in Interrupted(p, k)
    PROVE  /\ file \in DataFile
           /\ file.here = data[k].here /\ file.writers = data[k].writers
           /\ file.content \in {data[k].content, Mixed}
           /\ file # data[k] => Writing(p, k)
<1>1. data[k] \in DataFile
  BY DEF TypeOK
<1>2. CASE file = data[k]
  BY <1>1, <1>2
<1>3. CASE file # data[k]
  <2>1. Writing(p, k) /\ file \in CutShort(data[k], op[p].content)
    BY <1>3 DEF Interrupted
  <2>2. SizeOf[op[p].content] \in Nat
    BY <2>1, ImageAssumption DEF Writing, PutsAnImage, BeforeData
  <2>3. PICK n \in 1 .. SizeOf[op[p].content] - 1 :
          file = [data[k] EXCEPT !.content = IF @ = op[p].content THEN @ ELSE Mixed,
                                 !.size = IF n > @ THEN n ELSE @]
    BY <2>1 DEF CutShort
  <2>4. n \in Nat
    BY <2>2, <2>3
  <2>5. Mixed \in Content
    BY DEF Content
  <2>6. QED
    BY <1>1, <2>1, <2>3, <2>4, <2>5 DEF DataFile
<1>4. QED
  BY <1>2, <1>3

\* Every step preserves the types, given that a put writes an image: what is no
\* image has no length.
LEMMA NextType == TypeOK /\ PutsAnImage /\ [Next]_vars => TypeOK'
<1> SUFFICES ASSUME TypeOK, PutsAnImage, [Next]_vars PROVE TypeOK'
  OBVIOUS
<1> USE ConstantTypes
<1>a. Wrap \in Nat \ {0}
  BY BoundAssumption
<1>b. op \in [Proc -> Operation]
  BY DEF TypeOK
<1>c. ASSUME NEW n \in Nat, Add(n) \/ Sub(n) PROVE currentSize' \in 0 .. Wrap - 1
  <2>1. currentSize + n \in Int /\ currentSize - n \in Int
    BY <1>a DEF TypeOK
  <2>2. QED
    BY <1>c, <1>a, <2>1, Remainder DEF Add, Sub
<1>1. ASSUME NEW k \in Key, ScanEntry(k) PROVE TypeOK'
  <2>1. data[k].size \in Nat
    BY DEF TypeOK, DataFile
  <2>2. scan' \in Scanning
    <3>1. scan \in Scanning
      BY DEF TypeOK
    <3>2. scan' = [scan EXCEPT !.left = @ \ {k}, !.total = @ + data[k].size]
      BY <1>1 DEF ScanEntry
    <3>3. scan.left \ {k} \in SUBSET Key /\ scan.total + data[k].size \in Nat
      BY <2>1, <3>1 DEF Scanning
    <3>4. QED
      BY <3>1, <3>2, <3>3 DEF Scanning
  <2>3. QED
    BY <1>1, <2>2 DEF TypeOK, ScanEntry, files, control, bounds
<1>2. CASE ScanStore \/ Publish
  <2>1. Open
    BY <1>2 DEF ScanStore, Publish
  <2>2. scan.total \in Nat /\ scan.limits \in Limits
    BY DEF TypeOK, Scanning
  <2>3. currentSize' \in 0 .. Wrap - 1
    BY <2>1, <1>a, <2>2, Remainder DEF Open
  <2>4. scan' \in Scanning
    BY <2>1 DEF TypeOK, Open, Scanning
  <2>5. QED
    BY <2>1, <2>2, <2>3, <2>4 DEF TypeOK, Open, files, control, bounds
<1>3. CASE Crash
  <2>1. data' \in [Key -> DataFile]
    <3>1. PICK p \in Proc, k \in Key : \E file \in Interrupted(p, k) :
            data' = [l \in Key |-> [IF l = k THEN file ELSE data[l] EXCEPT !.writers = {}]]
      BY <1>3 DEF Crash
    <3>2. PICK file \in Interrupted(p, k) :
            data' = [l \in Key |-> [IF l = k THEN file ELSE data[l] EXCEPT !.writers = {}]]
      BY <3>1
    <3>3. file \in DataFile
      BY InterruptedType
    <3>4. \A l \in Key : (IF l = k THEN file ELSE data[l]) \in DataFile
      BY <3>3 DEF TypeOK
    <3>5. QED
      BY <3>2, <3>4 DEF DataFile
  <2>2. sidecar' \in [Key -> Sidecar]
    BY <1>3 DEF TypeOK, Crash, Sidecar
  <2>3. limits' \in Limits /\ scan' \in Scanning
    <3>1. PICK new \in Limits : limits' = new /\ scan' = Rescan("startup", new)
      BY <1>3, BoundAssumption DEF Crash, Startup, Limits
    <3>2. QED
      BY <3>1 DEF Rescan, Scanning
  <2>4. QED
    BY <1>3, <1>a, BoundAssumption, <2>1, <2>2, <2>3 DEF TypeOK, Crash, Label
<1>12. CASE Reopen
  <2>1. reopens' \in 0 .. MaxReopens
    BY <1>12, BoundAssumption DEF TypeOK, Reopen
  <2>2. scan' \in Scanning
    <3>1. PICK new \in Limits : scan' = Rescan("reopening", new)
      BY <1>12, BoundAssumption DEF Reopen, Limits
    <3>2. QED
      BY <3>1 DEF Rescan, Scanning
  <2>3. QED
    BY <1>12, <2>1, <2>2 DEF TypeOK, Reopen, files, control
<1>4. CASE Tick
  BY <1>4, BoundAssumption DEF TypeOK, Tick, files, control, cache, bounds
<1>5. ASSUME NEW p \in Proc, Lookup(p) PROVE TypeOK'
  <2>1. PICK k \in Key : GetMisses(p, k) \/ GetFindsFresh(p, k) \/ GetFindsExpired(p, k)
    BY <1>5 DEF Lookup
  <2>2. pc' \in [Proc -> Label]
    BY <2>1 DEF TypeOK, GetMisses, GetFindsFresh, GetFindsExpired, Goto, Label
  <2>3. op' \in [Proc -> Operation]
    <3>1. sidecar[k].optimized_size \in Nat
      BY DEF TypeOK, Sidecar
    <3>2. CASE GetFindsExpired(p, k)
      <4>1. op' = [op EXCEPT ![p].key = k, ![p].size = sidecar[k].optimized_size]
        BY <3>2 DEF GetFindsExpired
      <4>2. QED
        BY <1>b, <3>1, <4>1 DEF Operation
    <3>3. CASE GetMisses(p, k) \/ GetFindsFresh(p, k)
      <4>1. op' = [op EXCEPT ![p].key = k]
        BY <3>3 DEF GetMisses, GetFindsFresh
      <4>2. QED
        BY <1>b, <4>1 DEF Operation
    <3>4. QED
      BY <2>1, <3>2, <3>3
  <2>4. UNCHANGED <<files, currentSize, environment, puts>>
    BY <2>1 DEF GetMisses, GetFindsFresh, GetFindsExpired
  <2>5. QED
    BY <2>2, <2>3, <2>4 DEF TypeOK, files, environment, cache, bounds
<1>6. ASSUME NEW p \in Proc, GetStep(p) PROVE TypeOK'
  <2>1. CASE ExpireData(p)
    BY <2>1 DEF TypeOK, ExpireData, Unlink, Goto, environment, cache, bounds, Operation, Label
  <2>2. CASE ExpireMeta(p)
    BY <2>2 DEF TypeOK, ExpireMeta, Unlink, Goto, environment, cache, bounds, Operation, Label
  <2>3. CASE ExpireCount(p)
    <3>1. currentSize' \in 0 .. Wrap - 1
      BY <2>3, <1>b, <1>c DEF ExpireCount, Operation
    <3>2. QED
      BY <2>3, <3>1 DEF TypeOK, ExpireCount, Goto, files, environment, cache, bounds, Operation, Label
  <2>4. CASE ReadData(p)
    <3>1. data[op[p].key].content \in Content
      BY DEF TypeOK, Operation, DataFile
    <3>2. op' \in [Proc -> Operation]
      <4>1. \/ op' = [op EXCEPT ![p].content = data[op[p].key].content]
            \/ op' = op
        BY <2>4 DEF ReadData
      <4>2. QED
        BY <1>b, <3>1, <4>1 DEF Operation
    <3>3. QED
      BY <2>4, <3>2 DEF TypeOK, ReadData, Goto, files, environment, cache, bounds, Label
  <2>5. CASE ServeHit(p)
    BY <2>5 DEF TypeOK, ServeHit, Finish, Goto, files, environment, cache, bounds, Label
  <2>6. QED
    BY <1>6, <2>1, <2>2, <2>3, <2>4, <2>5 DEF GetStep
<1>7. ASSUME NEW p \in Proc, PutStep(p) PROVE TypeOK'
  <2>1. CASE GiveUp(p)
    BY <2>1 DEF TypeOK, GiveUp, Finish, Goto, files, environment, cache, bounds, Label
  <2>2. ASSUME NEW image \in Rendition[op[p].key], Put(p, image) PROVE TypeOK'
    <3>1. op[p].key \in Key /\ image \in Image
      BY ImageAssumption DEF TypeOK, Operation
    <3>2. op' \in [Proc -> Operation]
      <4>1. image \in Content /\ SizeOf[image] \in Nat /\ now \in Nat
        BY <3>1, ImageAssumption, BoundAssumption DEF TypeOK, Content
      <4>2. op' = [op EXCEPT ![p].content = image, ![p].size = SizeOf[image],
                             ![p].created_at = now]
        BY <2>2 DEF Put
      <4>3. QED
        BY <1>b, <4>1, <4>2 DEF Operation
    <3>3. puts' \in [Key -> 0 .. MaxPuts]
      BY <2>2, <3>1, BoundAssumption DEF TypeOK, Put
    <3>4. QED
      BY <2>2, <3>2, <3>3 DEF TypeOK, Put, Goto, files, environment, cache, bounds, Label
  <2>3. CASE OpenData(p)
    <3>1. data' \in [Key -> DataFile]
      BY <2>3 DEF TypeOK, OpenData, DataFile, Content, Operation
    <3>2. QED
      BY <2>3, <3>1 DEF TypeOK, OpenData, Goto, environment, cache, bounds, Label
  <2>4. CASE WriteData(p)
    <3>1. op[p].key \in Key
      BY DEF TypeOK, Operation
    <3>2. op[p].content \in Image
      BY <2>4 DEF PutsAnImage, BeforeData, WriteData, At
    <3>3. Overwritten(data[op[p].key], op[p].content) \in DataFile
      BY <3>1, <3>2, ImageAssumption DEF TypeOK, Overwritten, DataFile, Content
    <3>4. data' \in [Key -> DataFile]
      BY <2>4, <3>1, <3>3 DEF TypeOK, WriteData, DataFile
    <3>5. QED
      BY <2>4, <3>4 DEF TypeOK, WriteData, Goto, environment, cache, bounds, Label
  <2>5. CASE OpenMeta(p)
    <3>1. sidecar' \in [Key -> Sidecar]
      BY <2>5 DEF TypeOK, OpenMeta, NoSidecar, Sidecar, Operation
    <3>2. QED
      BY <2>5, <3>1 DEF TypeOK, OpenMeta, Goto, environment, cache, bounds, Label
  <2>6. CASE WriteMeta(p)
    <3>1. sidecar' \in [Key -> Sidecar]
      <4>1. op[p].key \in Key /\ op[p].created_at \in Nat /\ op[p].size \in Nat
        BY DEF TypeOK, Operation
      <4>2. sidecar[op[p].key].writers \in SUBSET Proc
        BY <4>1 DEF TypeOK, Sidecar
      <4>3. Texts(sidecar[op[p].key], op[p].size) \subseteq {"blank", "json", "garbled"}
        BY DEF Texts
      <4>4. \/ \E text \in {"blank", "json", "garbled"} :
                  sidecar' = [sidecar EXCEPT ![op[p].key] =
                                [here |-> TRUE, text |-> text,
                                 created_at |-> op[p].created_at,
                                 optimized_size |-> op[p].size,
                                 writers |-> sidecar[op[p].key].writers \ {p}]]
            \/ sidecar' = sidecar
        BY <2>6, <4>3 DEF WriteMeta
      <4>5. sidecar \in [Key -> Sidecar]
        BY DEF TypeOK
      <4>6. ASSUME NEW text \in {"blank", "json", "garbled"}
            PROVE  [here |-> TRUE, text |-> text,
                    created_at |-> op[p].created_at,
                    optimized_size |-> op[p].size,
                    writers |-> sidecar[op[p].key].writers \ {p}] \in Sidecar
        BY <4>1, <4>2 DEF Sidecar
      <4>7. QED
        BY <4>4, <4>5, <4>6
    <3>2. QED
      BY <2>6, <3>1 DEF TypeOK, WriteMeta, Goto, environment, cache, bounds, Label
  <2>7. CASE Count(p)
    <3>1. currentSize' \in 0 .. Wrap - 1
      BY <2>7, <1>b, <1>c DEF Count, Operation
    <3>2. QED
      BY <2>7, <3>1 DEF TypeOK, Count, Goto, files, environment, cache, bounds, Label
  <2>8. QED
    BY <1>7, <2>1, <2>2, <2>3, <2>4, <2>5, <2>6, <2>7 DEF PutStep
<1>8. ASSUME NEW p \in Proc, EvictStep(p) PROVE TypeOK'
  <2> USE DEF EvictStep
  <2>1. CASE LoadSize(p)
    <3>1. op' \in [Proc -> Operation]
      <4>1. \/ op' = [op EXCEPT ![p] = NoOperation]
            \/ op' = [op EXCEPT ![p].current = currentSize, ![p].unseen = Key]
        BY <2>1 DEF LoadSize, Finish
      <4>2. currentSize \in Nat
        BY <1>a DEF TypeOK
      <4>3. QED
        BY <1>b, <4>1, <4>2 DEF Operation
    <3>2. QED
      BY <2>1, <3>1 DEF TypeOK, LoadSize, Finish, Goto, files, environment, cache, bounds, Label
  <2>2. ASSUME NEW k \in Key, ListName(p, k) PROVE TypeOK'
    <3>1. [NoEntry EXCEPT !.key = k] \in Entry
      BY DEF Entry
    <3>2. op' \in [Proc -> Operation]
      BY <2>2, <3>1 DEF TypeOK, ListName, Operation
    <3>3. QED
      BY <2>2, <3>2 DEF TypeOK, ListName, Goto, files, environment, cache, bounds, Label
  <2>3. CASE StatEntry(p)
    <3>1. data[op[p].entry.key].size \in Nat
      BY DEF TypeOK, Operation, Entry, DataFile
    <3>2. op' \in [Proc -> Operation]
      BY <2>3, <3>1 DEF TypeOK, StatEntry, Operation, Entry
    <3>3. QED
      BY <2>3, <3>2 DEF TypeOK, StatEntry, Goto, files, environment, cache, bounds, Label
  <2>4. CASE ReadCreatedAt(p)
    <3>1. CreatedAt(op[p].entry.key) \in Nat
      BY DEF TypeOK, Operation, Entry, Sidecar, CreatedAt
    <3>2. op' \in [Proc -> Operation]
      <4>1. PICK entry \in Entry :
              op' = [op EXCEPT ![p].entries = @ \cup {entry}, ![p].entry = NoEntry]
        <5>1. op[p].entry \in Entry
          BY <1>b DEF Operation
        <5>2. [op[p].entry EXCEPT !.created_at = CreatedAt(op[p].entry.key)] \in Entry
          BY <3>1, <5>1 DEF Entry
        <5>3. QED
          BY <2>4, <5>2 DEF ReadCreatedAt
      <4>2. QED
        BY <1>b, <4>1 DEF Operation
    <3>3. QED
      BY <2>4, <3>2 DEF TypeOK, ReadCreatedAt, Goto, files, environment, cache, bounds, Label
  <2>5. CASE RemoveData(p)
    <3>1. PICK e \in Oldest(op[p].entries) :
            /\ op' = [op EXCEPT ![p].entries = @ \ {e}, ![p].entry = e]
            /\ IF data[e.key].here
                 THEN data' = Unlink(data, NoData, e.key) /\ Goto(p, "remove_meta")
                 ELSE UNCHANGED data /\ Goto(p, "remove_data")
      BY <2>5 DEF RemoveData
    <3>2. e \in Entry
      BY DEF TypeOK, Operation, Oldest
    <3>3. op' \in [Proc -> Operation]
      BY <3>1, <3>2 DEF TypeOK, Operation
    <3>4. data' \in [Key -> DataFile]
      BY <3>1 DEF TypeOK, Unlink
    <3>5. QED
      BY <2>5, <3>1, <3>3, <3>4 DEF TypeOK, RemoveData, Goto, environment, cache, bounds, Label
  <2>6. CASE RemoveMeta(p)
    <3>1. op[p].freed + op[p].entry.size \in Nat
      BY DEF TypeOK, Operation, Entry
    <3>2. op' \in [Proc -> Operation]
      BY <2>6, <3>1 DEF TypeOK, RemoveMeta, Operation
    <3>3. QED
      BY <2>6, <3>2 DEF TypeOK, RemoveMeta, Unlink, Goto, environment, cache, bounds, Label
  <2>7. CASE SubtractFreed(p)
    <3>1. currentSize' \in 0 .. Wrap - 1
      BY <2>7, <1>b, <1>c DEF SubtractFreed, Operation
    <3>2. QED
      BY <2>7, <3>1 DEF TypeOK, SubtractFreed, Finish, Goto, files, environment, cache, bounds, Label
  <2>8. QED
    BY <1>8, <2>1, <2>2, <2>3, <2>4, <2>5, <2>6, <2>7
<1>9. ASSUME NEW p \in Proc, Fault(p) PROVE TypeOK'
  <2>1. CASE PutFails(p)
    <3>1. data' \in [Key -> DataFile]
      <4>1. op[p].key \in Key
        BY DEF TypeOK, Operation
      <4>2. PICK file \in Interrupted(p, op[p].key) :
              data' = [data EXCEPT ![op[p].key] = [file EXCEPT !.writers = @ \ {p}]]
        BY <2>1 DEF PutFails
      <4>3. file \in DataFile
        BY <4>1, InterruptedType
      <4>4. [file EXCEPT !.writers = @ \ {p}] \in DataFile
        BY <4>3 DEF DataFile
      <4>5. QED
        BY <4>2, <4>4 DEF TypeOK
    <3>2. sidecar' \in [Key -> Sidecar]
      BY <2>1 DEF TypeOK, PutFails, Sidecar
    <3>3. QED
      BY <2>1, <3>1, <3>2, BoundAssumption DEF TypeOK, PutFails, Finish, Goto, cache, Label
  <2>2. ASSUME NEW k \in Key, ReadFails(p, k) PROVE TypeOK'
    <3>1. op' \in [Proc -> Operation]
      BY <2>2 DEF TypeOK, ReadFails, Operation
    <3>2. QED
      BY <2>2, <3>1, BoundAssumption DEF TypeOK, ReadFails, Goto, files, cache, Label
  <2>3. CASE RemovalFails(p)
    <3>1. op' \in [Proc -> Operation]
      <4>1. \/ op' = op
            \/ \E e \in op[p].entries : op' = [op EXCEPT ![p].entries = @ \ {e}, ![p].entry = e]
            \/ op' = [op EXCEPT ![p].freed = @ + op[p].entry.size, ![p].entry = NoEntry]
        BY <2>3 DEF RemovalFails, Oldest
      <4>2. op[p].freed + op[p].entry.size \in Nat /\ op[p].entries \subseteq Entry
        BY <1>b DEF Operation, Entry
      <4>3. \A o \in Operation, e \in Entry, n \in Nat :
              /\ [o EXCEPT !.entries = @ \ {e}, !.entry = e] \in Operation
              /\ [o EXCEPT !.freed = n, !.entry = NoEntry] \in Operation
        BY DEF Operation
      <4>4. CASE op' = [op EXCEPT ![p].freed = @ + op[p].entry.size, ![p].entry = NoEntry]
        BY <1>b, <4>2, <4>4 DEF Operation
      <4>5. ASSUME NEW e \in op[p].entries,
                   op' = [op EXCEPT ![p].entries = @ \ {e}, ![p].entry = e]
            PROVE  op' \in [Proc -> Operation]
        <5>1. [op[p] EXCEPT !.entries = @ \ {e}, !.entry = e] \in Operation
          BY <1>b, <4>2, <4>3
        <5>2. QED
          BY <1>b, <4>5, <5>1
      <4>6. QED
        BY <1>b, <4>1, <4>4, <4>5
    <3>2. QED
      BY <2>3, <3>1, BoundAssumption DEF TypeOK, RemovalFails, Goto, files, cache, Label
  <2>4. QED
    BY <1>9, <2>1, <2>2, <2>3 DEF Fault
<1>10. CASE UNCHANGED vars
  BY <1>10 DEF TypeOK, vars
<1>11. QED
  BY <1>1, <1>2, <1>3, <1>4, <1>5, <1>6, <1>7, <1>8, <1>9, <1>10, <1>12
  DEF Next, Step, Scan

-----------------------------------------------------------------------------
(* The first put of a key                                                  *)

\* A task changes its own control state and its own locals only.
LEMMA StepIsLocal ==
    ASSUME TypeOK, NEW p \in Proc, Lookup(p) \/ Step(p) \/ Fault(p),
           NEW q \in Proc, q # p
    PROVE  pc'[q] = pc[q] /\ op'[q] = op[q]
<1> USE DEF TypeOK, Goto, Finish
<1>1. CASE Lookup(p)
  BY <1>1 DEF Lookup, GetMisses, GetFindsFresh, GetFindsExpired
<1>2. CASE GetStep(p)
  BY <1>2 DEF GetStep, ExpireData, ExpireMeta, ExpireCount, ReadData, ServeHit
<1>3. CASE PutStep(p)
  BY <1>3 DEF PutStep, GiveUp, Put, OpenData, WriteData, OpenMeta, WriteMeta, Count
<1>4. CASE EvictStep(p)
  <2>1. CASE LoadSize(p) \/ StatEntry(p) \/ ReadCreatedAt(p) \/ RemoveMeta(p) \/ SubtractFreed(p)
    BY <2>1 DEF LoadSize, StatEntry, ReadCreatedAt, RemoveMeta, SubtractFreed
  <2>2. CASE \E k \in Key : ListName(p, k)
    BY <2>2 DEF ListName
  <2>3. CASE RemoveData(p)
    BY <2>3 DEF RemoveData
  <2>4. QED
    BY <1>4, <2>1, <2>2, <2>3 DEF EvictStep
<1>5. CASE Fault(p)
  BY <1>5 DEF Fault, PutFails, RemovalFails, ReadFails
<1>6. QED
  BY <1>1, <1>2, <1>3, <1>4, <1>5 DEF Step

\* A put that has not written its data still holds the image it was given.
LEMMA NextPutsAnImage == TypeOK /\ PutsAnImage /\ [Next]_vars => PutsAnImage'
<1> SUFFICES ASSUME TypeOK, PutsAnImage, [Next]_vars,
                    NEW q \in Proc, pc'[q] \in BeforeData
             PROVE  op'[q].content \in Image
  BY DEF PutsAnImage
<1> USE DEF PutsAnImage, BeforeData
<1>1. CASE pc'[q] = pc[q] /\ op'[q] = op[q]
  BY <1>1
<1>2. ASSUME NEW image \in Rendition[op[q].key], Put(q, image)
      PROVE  op'[q].content \in Image
  <2>1. image \in Image
    BY ImageAssumption DEF TypeOK, Operation
  <2>2. op' = [op EXCEPT ![q].content = image, ![q].size = SizeOf[image],
                         ![q].created_at = now]
    BY <1>2 DEF Put
  <2>3. op'[q].content = image
    BY <2>2 DEF TypeOK, Operation
  <2>4. QED
    BY <2>1, <2>3
<1>3. CASE OpenData(q)
  BY <1>3 DEF TypeOK, OpenData, At
<1>4. ASSUME Lookup(q) \/ Step(q) \/ Fault(q)
      PROVE  \/ \E image \in Rendition[op[q].key] : Put(q, image)
             \/ OpenData(q)
  <2> USE DEF TypeOK, Goto, Finish
  <2>1. CASE Lookup(q)
    BY <2>1 DEF Lookup, GetMisses, GetFindsFresh, GetFindsExpired
  <2>2. CASE GetStep(q)
    BY <2>2 DEF GetStep, ExpireData, ExpireMeta, ExpireCount, ReadData, ServeHit
  <2>3. CASE PutStep(q)
    BY <2>3 DEF PutStep, GiveUp, WriteData, OpenMeta, WriteMeta, Count
  <2>4. CASE EvictStep(q)
    BY <2>4 DEF EvictStep, LoadSize, ListName, StatEntry, ReadCreatedAt, RemoveData,
                RemoveMeta, SubtractFreed, At
  <2>5. CASE Fault(q)
    BY <2>5 DEF Fault, PutFails, RemovalFails, ReadFails, Listed, At
  <2>6. QED
    BY <1>4, <2>1, <2>2, <2>3, <2>4, <2>5 DEF Step
<1>5. CASE \E p \in Proc : Lookup(p) \/ Step(p) \/ Fault(p)
  BY <1>1, <1>2, <1>3, <1>4, <1>5, StepIsLocal
<1>6. QED
  BY <1>1, <1>5 DEF Next, vars, Scan, ScanEntry, ScanStore, Publish, Open, Reopen, Crash, Tick, control, TypeOK

\* Types hold in every behaviour.
THEOREM TypeCorrect == Spec => []TypeOK
<1>1. Init => TypeOK /\ PutsAnImage
  BY InitType DEF Init, PutsAnImage, BeforeData
<1>2. TypeOK /\ PutsAnImage /\ [Next]_vars => TypeOK' /\ PutsAnImage'
  BY NextType, NextPutsAnImage
<1>3. QED
  BY <1>1, <1>2, PTL DEF Spec

\* A step abandons the put of k that was about to write its data.
Abandons(k) == \E p \in Proc : On(p, k, {"write_data"}) /\ pc'[p] = "idle"

\* A step that is calm for k opens, writes and creates nothing of k, or no more than
\* the part of a data file whose put it abandons, and lets no task past the sidecar of k.
Calm(k) ==
    /\ puts'[k] = puts[k]
    /\ sidecar'[k].here => sidecar[k].here
    /\ data'[k].here => data[k].here
    /\ \/ /\ data'[k].here => data'[k].content = data[k].content
          /\ data'[k].size \in {0, data[k].size}
       \/ Abandons(k)
    /\ \A q \in Proc :
          pc'[q] \in InPut \cup {"read_data", "hit"} /\ op'[q].key = k =>
             /\ pc'[q] = pc[q] /\ op[q].key = k /\ op'[q].content = op[q].content
             /\ data'[k].here /\ q \in data[k].writers => q \in data'[k].writers

\* A calm step preserves what is known of the key.
LEMMA CalmStep ==
    ASSUME NEW k \in Key, KeyInv(k), Calm(k)
    PROVE  KeyInv(k)'
<1> USE DEF Calm, On, InPut, BeforeMeta, Whole
<1>1. (puts[k] = 0 => NeverPut(k))'
  BY DEF KeyInv, NeverPut
<1>2. ASSUME puts'[k] = 1 PROVE PutOnce(k)'
  <2>1. PutOnce(k)
    BY <1>2 DEF KeyInv
  <2>2. CASE Abandons(k)
    <3>1. PICK p \in Proc : On(p, k, {"write_data"}) /\ pc'[p] = "idle"
      BY <2>2 DEF Abandons
    <3>2. ~sidecar[k].here /\ \A q \in Proc : ~On(q, k, {"read_data"}) /\ (On(q, k, InPut) => q = p)
      BY <2>1, <3>1 DEF PutOnce
    <3>3. ~sidecar'[k].here /\ \A q \in Proc : ~On(q, k, InPut \cup {"read_data"})'
      BY <3>1, <3>2
    <3>4. \A q \in Proc : On(q, k, {"hit"})' => op'[q].content \in Image
      BY <2>1 DEF PutOnce
    <3>5. QED
      BY <3>3, <3>4 DEF PutOnce
  <2>3. CASE ~Abandons(k)
    BY <2>1, <2>3 DEF PutOnce
  <2>4. QED
    BY <2>2, <2>3
<1>3. QED
  BY <1>1, <1>2 DEF KeyInv

\* Everything but the lookup that finds a fresh sidecar, the read of the data
\* and the steps of a put is calm for every key.
LEMMA CalmActions ==
    ASSUME TypeOK, PutsAnImage, NEW k \in Key, NEW p \in Proc,
           \/ \E l \in Key : GetMisses(p, l) \/ GetFindsExpired(p, l)
           \/ ExpireData(p) \/ ExpireMeta(p) \/ ExpireCount(p) \/ ServeHit(p)
           \/ GiveUp(p) \/ Count(p)
           \/ EvictStep(p) \/ Fault(p)
    PROVE  Calm(k)
<1> USE DEF TypeOK, Calm, Goto, Finish, InPut, files, environment
<1> USE ConstantTypes
<1>1. ASSUME NEW l \in Key, GetMisses(p, l) \/ GetFindsExpired(p, l) PROVE Calm(k)
  BY <1>1 DEF GetMisses, GetFindsExpired
<1>2. CASE ExpireData(p) \/ ExpireMeta(p) \/ ExpireCount(p)
  BY <1>2 DEF ExpireData, ExpireMeta, ExpireCount, Unlink, NoData, NoSidecar
<1>3. CASE ServeHit(p) \/ GiveUp(p) \/ Count(p)
  BY <1>3 DEF ServeHit, GiveUp, Count
<1>4. CASE EvictStep(p)
  <2>1. CASE LoadSize(p) \/ StatEntry(p) \/ ReadCreatedAt(p) \/ SubtractFreed(p)
    BY <2>1 DEF LoadSize, StatEntry, ReadCreatedAt, SubtractFreed
  <2>2. ASSUME NEW l \in Key, ListName(p, l) PROVE Calm(k)
    BY <2>2 DEF ListName, At
  <2>3. CASE RemoveData(p)
    BY <2>3 DEF RemoveData, Unlink, NoData
  <2>4. CASE RemoveMeta(p)
    BY <2>4 DEF RemoveMeta, Unlink, NoSidecar
  <2>5. QED
    BY <1>4, <2>1, <2>2, <2>3, <2>4 DEF EvictStep
<1>5. CASE PutFails(p)
  <2>1. op[p].key \in Key
    BY DEF Operation
  <2>2. PICK file \in Interrupted(p, op[p].key) :
          data' = [data EXCEPT ![op[p].key] = [file EXCEPT !.writers = @ \ {p}]]
    BY <1>5 DEF PutFails
  <2>3. /\ file \in DataFile
        /\ file.here = data[op[p].key].here /\ file.writers = data[op[p].key].writers
        /\ file # data[op[p].key] => Writing(p, op[p].key)
    BY <2>1, InterruptedType
  <2>4. /\ data'[op[p].key].here = data[op[p].key].here
        /\ data'[op[p].key].writers = data[op[p].key].writers \ {p}
        /\ data'[op[p].key].content = file.content /\ data'[op[p].key].size = file.size
    BY <2>1, <2>2, <2>3 DEF DataFile
  <2>5. \A l \in Key \ {op[p].key} : data'[l] = data[l]
    BY <2>2
  <2>6. \A l \in Key : sidecar'[l].here = sidecar[l].here
    BY <1>5 DEF PutFails, Sidecar
  <2>7. puts' = puts /\ pc'[p] = "idle" /\ \A q \in Proc \ {p} : pc'[q] = pc[q] /\ op'[q] = op[q]
    BY <1>5 DEF PutFails
  <2>8. CASE k = op[p].key
    <3>1. CASE file = data[k]
      BY <2>4, <2>6, <2>7, <2>8, <3>1
    <3>2. CASE file # data[k]
      <4>1. Abandons(k)
        BY <1>5, <2>3, <2>8, <3>2 DEF PutFails, Abandons, Writing, On
      <4>2. QED
        BY <2>4, <2>6, <2>7, <2>8, <4>1
    <3>3. QED
      BY <3>1, <3>2
  <2>9. CASE k # op[p].key
    BY <2>5, <2>6, <2>7, <2>9
  <2>10. QED
    BY <2>8, <2>9
<1>6. ASSUME NEW l \in Key, ReadFails(p, l) PROVE Calm(k)
  BY <1>6 DEF ReadFails
<1>7. CASE RemovalFails(p)
  BY <1>7 DEF RemovalFails, Listed, At
<1>8. QED
  BY <1>1, <1>2, <1>3, <1>4, <1>5, <1>6, <1>7 DEF Fault

\* Every step preserves what is known of each key.
LEMMA NextKeyInv ==
    ASSUME TypeOK, PutsAnImage, NEW k \in Key, KeyInv(k), [Next]_vars
    PROVE  KeyInv(k)'
<1> USE DEF On, InPut, BeforeMeta, Whole
<1>t. /\ data \in [Key -> DataFile] /\ sidecar \in [Key -> Sidecar]
      /\ pc \in [Proc -> Label] /\ op \in [Proc -> Operation]
      /\ puts \in [Key -> 0 .. MaxPuts]
  BY DEF TypeOK
<1>1. CASE UNCHANGED vars \/ Scan \/ Reopen \/ Tick
  <2>1. Calm(k)
    BY <1>1 DEF vars, Scan, ScanEntry, ScanStore, Publish, Open, Reopen, Tick, files, control, Calm
  <2>2. QED
    BY <2>1, CalmStep
<1>2. CASE Crash
  <2>1. Calm(k)
    <3>1. PICK p \in Proc, l \in Key : \E f \in Interrupted(p, l) :
            data' = [m \in Key |-> [IF m = l THEN f ELSE data[m] EXCEPT !.writers = {}]]
      BY <1>2 DEF Crash
    <3>2. PICK f \in Interrupted(p, l) :
            data' = [m \in Key |-> [IF m = l THEN f ELSE data[m] EXCEPT !.writers = {}]]
      BY <3>1
    <3>3. f \in DataFile /\ f.here = data[l].here /\ (f # data[l] => Writing(p, l))
      BY InterruptedType
    <3>4. data'[k] = [IF k = l THEN f ELSE data[k] EXCEPT !.writers = {}]
      BY <3>2
    <3>5. \A q \in Proc : pc'[q] = "idle"
      BY <1>2 DEF Crash
    <3>6. sidecar'[k].here = sidecar[k].here /\ puts' = puts
      BY <1>2, <1>t DEF Crash, Sidecar
    <3>7. data[k] \in DataFile
      BY <1>t
    <3>8. CASE k # l \/ f = data[l]
      <4>1. /\ data'[k].here = data[k].here /\ data'[k].content = data[k].content
            /\ data'[k].size = data[k].size
        BY <3>4, <3>7, <3>8 DEF DataFile
      <4>2. QED
        BY <3>5, <3>6, <4>1 DEF Calm
    <3>9. CASE k = l /\ f # data[l]
      <4>1. Abandons(k)
        BY <3>3, <3>5, <3>9 DEF Abandons, Writing
      <4>2. data'[k].here = data[k].here
        BY <3>3, <3>4, <3>9 DEF DataFile
      <4>3. QED
        BY <3>5, <3>6, <4>1, <4>2 DEF Calm
    <3>10. QED
      BY <3>8, <3>9
  <2>2. QED
    BY <2>1, CalmStep
<1>3. ASSUME NEW p \in Proc,
             \/ \E l \in Key : GetMisses(p, l) \/ GetFindsExpired(p, l)
             \/ ExpireData(p) \/ ExpireMeta(p) \/ ExpireCount(p) \/ ServeHit(p)
             \/ GiveUp(p) \/ Count(p)
             \/ EvictStep(p) \/ Fault(p)
      PROVE  KeyInv(k)'
  BY <1>3, CalmActions, CalmStep
<1>4. ASSUME NEW p \in Proc, NEW l \in Key, GetFindsFresh(p, l) PROVE KeyInv(k)'
  <2>1. CASE l # k
    <3>1. Calm(k)
      BY <1>4, <2>1, <1>t DEF GetFindsFresh, Goto, files, Calm
    <3>2. QED
      BY <3>1, CalmStep
  <2>2. CASE l = k
    BY <1>4, <2>2, <1>t
    DEF GetFindsFresh, At, Readable, Goto, files, KeyInv, NeverPut, PutOnce
  <2>3. QED
    BY <2>1, <2>2
<1>5. ASSUME NEW p \in Proc, op[p].key # k,
             \/ ReadData(p) \/ OpenData(p) \/ WriteData(p) \/ OpenMeta(p) \/ WriteMeta(p)
             \/ \E image \in Rendition[op[p].key] : Put(p, image)
      PROVE  KeyInv(k)'
  <2>1. CASE ReadData(p)
    <3>1. op'[p].key = op[p].key
      BY <2>1, <1>t DEF ReadData, Operation
    <3>2. Calm(k)
      BY <1>5, <2>1, <1>t, <3>1 DEF ReadData, Goto, files, Calm
    <3>3. QED
      BY <3>2, CalmStep
  <2>2. CASE OpenData(p) \/ WriteData(p)
    <3>1. Calm(k)
      BY <1>5, <2>2, <1>t DEF OpenData, WriteData, Goto, Calm
    <3>2. QED
      BY <3>1, CalmStep
  <2>3. CASE OpenMeta(p) \/ WriteMeta(p)
    <3>1. Calm(k)
      BY <1>5, <2>3, <1>t DEF OpenMeta, WriteMeta, Goto, Calm
    <3>2. QED
      BY <3>1, CalmStep
  <2>4. CASE \E image \in Rendition[op[p].key] : Put(p, image)
    <3>1. op'[p].key = op[p].key
      BY <2>4, <1>t DEF Put, Operation
    <3>2. Calm(k)
      BY <1>5, <2>4, <1>t, <3>1 DEF Put, Goto, files, Calm
    <3>3. QED
      BY <3>2, CalmStep
  <2>5. QED
    BY <1>5, <2>1, <2>2, <2>3, <2>4
<1>6. ASSUME NEW p \in Proc, op[p].key = k, ReadData(p) PROVE KeyInv(k)'
  <2>1. CASE data[k].here
    <3>1. op' = [op EXCEPT ![p].content = data[k].content]
      BY <1>6, <2>1 DEF ReadData
    <3>2. \A q \in Proc : op'[q].key = op[q].key /\ (q # p => op'[q] = op[q])
      BY <1>t, <3>1 DEF Operation
    <3>3. op'[p].content = data[k].content
      BY <1>t, <3>1 DEF Operation
    <3>4. QED
      BY <1>6, <1>t, <2>1, <3>2, <3>3
      DEF ReadData, At, Goto, files, KeyInv, NeverPut, PutOnce
  <2>2. CASE ~data[k].here
    <3>1. Calm(k)
      BY <1>6, <1>t, <2>2 DEF ReadData, Goto, files, Calm
    <3>2. QED
      BY <3>1, CalmStep
  <2>3. QED
    BY <2>1, <2>2
<1>7. ASSUME NEW p \in Proc, op[p].key = k,
             NEW image \in Rendition[k], Put(p, image)
      PROVE  KeyInv(k)'
  BY <1>7, <1>t DEF Put, At, Goto, files, KeyInv, NeverPut, PutOnce
<1>8. ASSUME NEW p \in Proc, op[p].key = k, OpenData(p) PROVE KeyInv(k)'
  BY <1>8, <1>t DEF OpenData, At, Goto, KeyInv, NeverPut, PutOnce
<1>9. ASSUME NEW p \in Proc, op[p].key = k, WriteData(p) PROVE KeyInv(k)'
  BY <1>9, <1>t, ImageAssumption
  DEF WriteData, At, Goto, KeyInv, NeverPut, PutOnce, PutsAnImage, BeforeData, Overwritten
<1>10. ASSUME NEW p \in Proc, op[p].key = k, OpenMeta(p) PROVE KeyInv(k)'
  BY <1>10, <1>t DEF OpenMeta, At, Goto, KeyInv, NeverPut, PutOnce
<1>11. ASSUME NEW p \in Proc, op[p].key = k, WriteMeta(p) PROVE KeyInv(k)'
  BY <1>11, <1>t DEF WriteMeta, At, Goto, KeyInv, NeverPut, PutOnce
<1>12. QED
  BY <1>1, <1>2, <1>3, <1>4, <1>5, <1>6, <1>7, <1>8, <1>9, <1>10, <1>11
  DEF Next, Lookup, Step, GetStep, PutStep

\* What is known of each key is an invariant.
LEMMA FirstPutInductive == Spec => [](TypeOK /\ FirstPutInv)
<1>1. Init => TypeOK /\ FirstPutInv
  <2>1. ASSUME Init, NEW k \in Key PROVE KeyInv(k)
    BY <2>1 DEF Init, KeyInv, NeverPut, On, InPut, NoData, NoSidecar
  <2>2. QED
    BY <2>1, InitType DEF Init, FirstPutInv, PutsAnImage, BeforeData
<1>2. TypeOK /\ FirstPutInv /\ [Next]_vars => TypeOK' /\ FirstPutInv'
  BY NextType, NextPutsAnImage, NextKeyInv DEF FirstPutInv
<1>3. QED
  BY <1>1, <1>2, PTL DEF Spec

\* A hit on a key put once serves a whole image, whatever crashes, failures,
\* expiries, evictions and Configures surround the put: the sidecar that publishes
\* a data file is opened only after that file is complete.
THEOREM FirstPutSafe == Spec => []FirstPutHitsAreWhole
<1>1. TypeOK /\ FirstPutInv => FirstPutHitsAreWhole
  BY DEF TypeOK, FirstPutInv, KeyInv, PutOnce, On, FirstPutHitsAreWhole, At, Operation
<1>2. QED
  BY <1>1, FirstPutInductive, PTL
=============================================================================
