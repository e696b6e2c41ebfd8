--------------------------- MODULE CounterProofs ---------------------------
(***************************************************************************)
(* Proofs about the counter of FsCache with any number of tasks and kills, *)
(* as long as no operation fails, nothing expires, no Configure opens the  *)
(* cache anew and an image for a key has one length.                       *)
(***************************************************************************)
EXTENDS FsCacheProofs

-----------------------------------------------------------------------------
(* Remainders                                                              *)

\* A number is a multiple of the divisor and its remainder.
LEMMA Quotient ==
    ASSUME NEW m \in Nat \ {0}, NEW a \in Int
    PROVE  \E q \in Int : a = q * m + (a % m)
<1>1. a = (a \div m) * m + (a % m)
  OBVIOUS
<1>2. a \div m \in Int
  OBVIOUS
<1>3. QED
  BY <1>1, <1>2, Zenon

\* Numbers below the divisor that differ by a multiple of it are equal.
LEMMA SameRemainder ==
    ASSUME NEW m \in Nat \ {0}, NEW q \in Int,
           NEW a \in 0 .. m - 1, NEW b \in 0 .. m - 1, a = b + q * m
    PROVE  a = b
OBVIOUS

\* A multiple of the divisor leaves the remainder as it is.
LEMMA Congruent ==
    ASSUME NEW m \in Nat \ {0}, NEW a \in Int, NEW q \in Int
    PROVE  (a + q * m) % m = a % m
<1>1. PICK r \in Int : a = r * m + (a % m)
  BY Quotient
<1>2. a + q * m \in Int
  OBVIOUS
<1>3. PICK s \in Int : a + q * m = s * m + ((a + q * m) % m)
  BY <1>2, Quotient
<1>4. a % m \in 0 .. m - 1 /\ (a + q * m) % m \in 0 .. m - 1
  BY <1>2, Remainder
<1>5. (a + q * m) % m = (a % m) + (r + q - s) * m
  BY <1>1, <1>3, <1>4
<1>6. r + q - s \in Int
  OBVIOUS
<1>7. QED
  BY <1>4, <1>5, <1>6, SameRemainder, Zenon

\* A sum may wrap before a number is added or after.
LEMMA RemainderAdds ==
    ASSUME NEW m \in Nat \ {0}, NEW a \in Int, NEW n \in Int
    PROVE  ((a % m) + n) % m = (a + n) % m
<1>1. PICK q \in Int : a = q * m + (a % m)
  BY Quotient
<1>2. a % m \in Int /\ (a % m) + n \in Int
  OBVIOUS
<1>3. a + n = ((a % m) + n) + q * m
  BY <1>1, <1>2
<1>4. (((a % m) + n) + q * m) % m = ((a % m) + n) % m
  BY <1>2, Congruent, Zenon
<1>5. QED
  BY <1>3, <1>4

\* The larger number has the larger product.
LEMMA Times ==
    ASSUME NEW a \in Nat, NEW b \in Nat, NEW c \in Nat, a <= b
    PROVE  a * c \in Nat /\ b * c \in Nat /\ a * c <= b * c
OBVIOUS

\* One more time.
LEMMA OnceMore ==
    ASSUME NEW a \in Nat, NEW c \in Nat
    PROVE  (a + 1) * c = a * c + c
OBVIOUS

-----------------------------------------------------------------------------
(* The inductive invariant                                                 *)

\* The length of the images for k.
Length == [k \in Key |-> CHOOSE n \in Nat : \A image \in Rendition[k] : SizeOf[image] = n]

\* No operation fails, no Configure opens the cache anew and nothing expires, an image
\* for a key has one length, and fewer than Wrap bytes are ever put.
Steady ==
    /\ MaxFaults = 0 /\ MaxReopens = 0
    /\ \A new \in Changes \cup {Startup} : MaxClock <= new.ttl
    /\ \A k \in Key : \A i, j \in Rendition[k] : SizeOf[i] = SizeOf[j]
    /\ Total([k \in Key |-> MaxPuts * Length[k]]) < Wrap

\* What the file of k holds once its writers are done.
Footprint(k) == IF data[k].writers # {} THEN Length[k] ELSE data[k].size

\* A file holds an image or the head of one, and only a put between its open and its write has it open.
FileInv(k) ==
    /\ data[k].size \in 0 .. Length[k]
    /\ ~data[k].here => data[k].size = 0 /\ data[k].writers = {}
    /\ \A p \in data[k].writers : On(p, k, {"write_data"})

\* An entry on the list of an eviction is not longer than the file will be.
ListedInv(e) ==
    /\ e.size \in 0 .. Length[e.key]
    /\ data[e.key].here => e.size <= Footprint(e.key)

TaskInv(p) ==
    /\ pc[p] \notin {"expire_data", "expire_meta", "expire_count"}
    /\ pc[p] \in InPut => op[p].size = Length[op[p].key]
    /\ pc[p] \in BeforeData => SizeOf[op[p].content] = Length[op[p].key]
    /\ pc[p] \notin Evicting => op[p].freed = 0 /\ op[p].entries = {}
    /\ \A e \in op[p].entries : ListedInv(e)
    /\ At(p, "read_created_at") => ListedInv(op[p].entry)
    /\ pc[p] \in {"remove_data", "remove_meta"} => op[p].unseen = {}

\* Until the directory is scanned nothing moves, and the scan adds up its files.
Scanned(k) == IF k \in scan.left THEN 0 ELSE data[k].size

StartInv ==
    /\ scan.stage # "reopening"
    /\ {limits, scan.limits} \subseteq Changes \cup {Startup}
    /\ scan.stage = "startup" =>
          /\ \A p \in Proc : At(p, "idle")
          /\ scan.total = Total([k \in Key |-> Scanned(k)])

\* The bytes the files will hold, what puts are about to add, what all puts may add.
Claimed == Total([k \in Key |-> Footprint(k)])
OpeningOf(p) == IF At(p, "open_data") THEN op[p].size ELSE 0
Opening == Total([p \in Proc |-> OpeningOf(p)])
Granted == Total([k \in Key |-> puts[k] * Length[k]])

\* What the counter should be at, and what the puts leave room for beyond it.
Ledger == Claimed + Unsubtracted - Uncounted
Room == Granted - Claimed - Unsubtracted - Opening

\* Up to the range of the counter it is the ledger and a surplus, what was counted for
\* nothing: a put over a file, a removal of a file that grew since it was listed.
CountInv == \E surplus \in Nat :
    /\ surplus <= Room
    /\ scan.stage = "serving" => currentSize = (Ledger + surplus) % Wrap

\* p will run an eviction that starts from now.
Pending(p) == pc[p] \in InPut \cup {"load"}

\* The eviction of p leaves the files within the limit if nobody puts meanwhile.
Covers(p) ==
    /\ pc[p] \in Evicting
    /\ DiskBytes + UnsubtractedOf(p) <= op[p].current
    /\ \A k \in Key : data[k].here =>
          \/ k \in op[p].unseen
          \/ pc[p] \in {"stat", "read_created_at"} /\ op[p].entry.key = k
          \/ \E e \in op[p].entries : e.key = k

CoverInv ==
    scan.stage = "serving" /\ (\E p \in Proc : pc[p] \in Evicting) =>
        \/ \E p \in Proc : Pending(p) \/ Covers(p)
        \/ DiskBytes <= limits.max_size

SteadyInv ==
    /\ \A k \in Key : FileInv(k)
    /\ \A p \in Proc : TaskInv(p)
    /\ StartInv /\ CountInv /\ CoverInv

-----------------------------------------------------------------------------
(* The sums                                                                *)

\* Under Steady every image for a key has the length of the key.
LEMMA LengthType ==
    ASSUME Steady
    PROVE  /\ Length \in [Key -> Nat]
           /\ \A k \in Key : \A image \in Rendition[k] : SizeOf[image] = Length[k]
<1>1. ASSUME NEW k \in Key
      PROVE  \E n \in Nat : \A image \in Rendition[k] : SizeOf[image] = n
  <2>1. CASE Rendition[k] = {}
    BY <2>1
  <2>2. CASE Rendition[k] # {}
    <3>1. PICK i \in Rendition[k] : TRUE
      BY <2>2
    <3>2. SizeOf[i] \in Nat
      BY ImageAssumption
    <3>3. QED
      BY <3>1, <3>2 DEF Steady
  <2>3. QED
    BY <2>1, <2>2
<1>2. ASSUME NEW k \in Key
      PROVE  /\ Length[k] \in Nat
             /\ \A image \in Rendition[k] : SizeOf[image] = Length[k]
  BY <1>1 DEF Length
<1>3. QED
  BY <1>2 DEF Length

\* The numbers that are added up, and their sums.
UnitsType ==
    /\ \A k \in Key : Footprint(k) \in Nat /\ Scanned(k) \in Nat
    /\ \A k \in Key : Length[k] \in Nat /\ puts[k] * Length[k] \in Nat
    /\ \A p \in Proc : UncountedOf(p) \in Nat /\ UnsubtractedOf(p) \in Nat
    /\ \A p \in Proc : OpeningOf(p) \in Nat

SumsType ==
    /\ Claimed \in Nat /\ Granted \in Nat
    /\ Uncounted \in Nat /\ Unsubtracted \in Nat /\ Opening \in Nat
    /\ Ledger \in Int /\ Room \in Int
    /\ DiskBytes \in Nat

\* The numbers that are added up have their type.
LEMMA UnitTypes == Steady /\ TypeOK => UnitsType
<1> SUFFICES ASSUME Steady, TypeOK PROVE UnitsType
  OBVIOUS
<1>1. /\ \A k \in Key : data[k].size \in Nat /\ Length[k] \in Nat /\ puts[k] \in Nat
      /\ \A p \in Proc : op[p].size \in Nat /\ op[p].freed \in Nat /\ op[p].entry.size \in Nat
  BY LengthType, BoundAssumption DEF TypeOK, DataFile, Operation, Entry
<1>2. \A k \in Key : puts[k] * Length[k] \in Nat
  BY <1>1, Times
<1>3. QED
  BY <1>1, <1>2 DEF UnitsType, Footprint, Scanned, UncountedOf, UnsubtractedOf, OpeningOf, At

\* And so have their sums.
LEMMA SumTypes == Steady /\ TypeOK => SumsType
<1> SUFFICES ASSUME Steady, TypeOK PROVE SumsType
  OBVIOUS
<1>1. /\ [k \in Key |-> Footprint(k)] \in [Key -> Nat]
      /\ [k \in Key |-> puts[k] * Length[k]] \in [Key -> Nat]
      /\ [p \in Proc |-> UncountedOf(p)] \in [Proc -> Nat]
      /\ [p \in Proc |-> UnsubtractedOf(p)] \in [Proc -> Nat]
      /\ [p \in Proc |-> OpeningOf(p)] \in [Proc -> Nat]
  BY UnitTypes DEF UnitsType
<1>2. /\ Claimed \in Nat /\ Granted \in Nat
      /\ Uncounted \in Nat /\ Unsubtracted \in Nat /\ Opening \in Nat
  BY <1>1, KeyAssumption, ProcAssumption, UnitsFinite
  DEF Claimed, Granted, Uncounted, Unsubtracted, Opening
<1>3. QED
  BY <1>2, DiskBytesType DEF SumsType, Ledger, Room

\* A step of one task changes the sums over the tasks by what that task changes.
LEMMA TaskSums ==
    ASSUME Steady, TypeOK, TypeOK', NEW p \in Proc,
           \A q \in Proc \ {p} : pc'[q] = pc[q] /\ op'[q] = op[q]
    PROVE  /\ Uncounted' = Uncounted - UncountedOf(p) + UncountedOf(p)'
           /\ Unsubtracted' = Unsubtracted - UnsubtractedOf(p) + UnsubtractedOf(p)'
           /\ Opening' = Opening - OpeningOf(p) + OpeningOf(p)'
<1>1. UnitsType /\ UnitsType'
  BY UnitTypes, PTL
<1>2. ASSUME NEW q \in Proc \ {p}
      PROVE  /\ UncountedOf(q)' = UncountedOf(q) /\ UnsubtractedOf(q)' = UnsubtractedOf(q)
             /\ OpeningOf(q)' = OpeningOf(q)
  BY DEF UncountedOf, UnsubtractedOf, OpeningOf, At
<1>3. Uncounted' = Uncounted - UncountedOf(p) + UncountedOf(p)'
  <2> DEFINE f == [q \in Proc |-> UncountedOf(q)]
             g == [q \in Proc |-> UncountedOf(q)']
  <2>1. f \in [Proc -> Nat] /\ g \in [Proc -> Nat] /\ \A q \in Proc \ {p} : g[q] = f[q]
    BY <1>1, <1>2 DEF UnitsType
  <2>2. Total(g) = Total(f) - f[p] + g[p]
    <3> HIDE DEF f, g
    <3> QED BY <2>1, ProcAssumption, TotalUpdate
  <2>3. QED
    BY <2>2 DEF Uncounted
<1>4. Unsubtracted' = Unsubtracted - UnsubtractedOf(p) + UnsubtractedOf(p)'
  <2> DEFINE f == [q \in Proc |-> UnsubtractedOf(q)]
             g == [q \in Proc |-> UnsubtractedOf(q)']
  <2>1. f \in [Proc -> Nat] /\ g \in [Proc -> Nat] /\ \A q \in Proc \ {p} : g[q] = f[q]
    BY <1>1, <1>2 DEF UnitsType
  <2>2. Total(g) = Total(f) - f[p] + g[p]
    <3> HIDE DEF f, g
    <3> QED BY <2>1, ProcAssumption, TotalUpdate
  <2>3. QED
    BY <2>2 DEF Unsubtracted
<1>5. Opening' = Opening - OpeningOf(p) + OpeningOf(p)'
  <2> DEFINE f == [q \in Proc |-> OpeningOf(q)]
             g == [q \in Proc |-> OpeningOf(q)']
  <2>1. f \in [Proc -> Nat] /\ g \in [Proc -> Nat] /\ \A q \in Proc \ {p} : g[q] = f[q]
    BY <1>1, <1>2 DEF UnitsType
  <2>2. Total(g) = Total(f) - f[p] + g[p]
    <3> HIDE DEF f, g
    <3> QED BY <2>1, ProcAssumption, TotalUpdate
  <2>3. QED
    BY <2>2 DEF Opening
<1>6. QED
  BY <1>3, <1>4, <1>5

\* A step that changes the file of one key changes what the files will hold by that.
LEMMA ClaimedStep ==
    ASSUME Steady, TypeOK, TypeOK', NEW k \in Key, \A l \in Key \ {k} : data'[l] = data[l]
    PROVE  Claimed' = Claimed - Footprint(k) + Footprint(k)'
<1> DEFINE f == [l \in Key |-> Footprint(l)]
           g == [l \in Key |-> Footprint(l)']
<1>1. UnitsType /\ UnitsType'
  BY UnitTypes, PTL
<1>2. \A l \in Key \ {k} : Footprint(l)' = Footprint(l)
  BY DEF Footprint
<1>3. f \in [Key -> Nat] /\ g \in [Key -> Nat] /\ \A l \in Key \ {k} : g[l] = f[l]
  BY <1>1, <1>2 DEF UnitsType
<1>4. Total(g) = Total(f) - f[k] + g[k]
  <2> HIDE DEF f, g
  <2> QED BY <1>3, KeyAssumption, TotalUpdate
<1>5. QED
  BY <1>4 DEF Claimed

\* A put of k may add one more time the length of its image.
LEMMA GrantedStep ==
    ASSUME Steady, TypeOK, TypeOK', NEW k \in Key, puts' = [puts EXCEPT ![k] = @ + 1]
    PROVE  Granted' = Granted + Length[k]
<1> DEFINE f == [l \in Key |-> puts[l] * Length[l]]
           g == [l \in Key |-> puts'[l] * Length[l]]
<1>1. /\ \A l \in Key : puts[l] \in Nat /\ puts'[l] \in Nat /\ Length[l] \in Nat
      /\ puts \in [Key -> 0 .. MaxPuts]
  <2>1. puts \in [Key -> 0 .. MaxPuts] /\ puts' \in [Key -> 0 .. MaxPuts] /\ MaxPuts \in Nat
    BY BoundAssumption DEF TypeOK
  <2>2. QED
    BY <2>1, LengthType
<1>2. puts'[k] = puts[k] + 1 /\ \A l \in Key \ {k} : puts'[l] = puts[l]
  BY <1>1
<1>3. f \in [Key -> Nat] /\ g \in [Key -> Nat] /\ \A l \in Key \ {k} : g[l] = f[l]
  BY <1>1, <1>2, Times
<1>4. Total(g) = Total(f) - f[k] + g[k] /\ Total(f) \in Nat /\ f[k] \in Nat
  <2> HIDE DEF f, g
  <2> QED BY <1>3, KeyAssumption, TotalUpdate, UnitsFinite
<1>5. g[k] = f[k] + Length[k]
  BY <1>1, <1>2, OnceMore
<1>6. QED
  <2>1. Granted' = Total(g) /\ Granted = Total(f)
    BY DEF Granted
  <2>2. Length[k] \in Nat
    BY <1>1
  <2> HIDE DEF f, g
  <2>3. QED
    BY <1>4, <1>5, <2>1, <2>2

\* All puts together stay below the range of the counter.
LEMMA GrantedBound ==
    ASSUME Steady, TypeOK
    PROVE  Granted < Wrap
<1> DEFINE f == [k \in Key |-> puts[k] * Length[k]]
           g == [k \in Key |-> MaxPuts * Length[k]]
<1>1. \A k \in Key : puts[k] \in Nat /\ puts[k] <= MaxPuts /\ Length[k] \in Nat /\ MaxPuts \in Nat
  BY LengthType, BoundAssumption DEF TypeOK
<1>2. f \in [Key -> Nat] /\ g \in [Key -> Nat] /\ \A k \in Key : f[k] <= g[k]
  BY <1>1, Times
<1>3. Total(f) <= Total(g) /\ Total(f) \in Nat /\ Total(g) \in Nat
  <2> HIDE DEF f, g
  <2> QED BY <1>2, KeyAssumption, TotalMonotone, UnitsFinite
<1>4. QED
  <2>1. Granted = Total(f) /\ Total(g) < Wrap
    BY DEF Granted, Steady
  <2>2. Wrap \in Nat
    BY BoundAssumption
  <2> HIDE DEF f, g
  <2>3. QED
    BY <1>3, <2>1, <2>2

-----------------------------------------------------------------------------
(* What a step of one task leaves as it was                                *)

\* Tasks run once the directory is scanned, and leave the limits alone.
LEMMA TaskRuns ==
    ASSUME TypeOK, StartInv, NEW p \in Proc, Lookup(p) \/ Step(p)
    PROVE  scan.stage = "serving" /\ scan' = scan /\ limits' = limits
<1>1. scan' = scan /\ limits' = limits
  <2>1. CASE Lookup(p)
    BY <2>1 DEF Lookup, GetMisses, GetFindsFresh, GetFindsExpired, environment, cache
  <2>2. CASE GetStep(p)
    BY <2>2
    DEF GetStep, ExpireData, ExpireMeta, ExpireCount, ReadData, ServeHit, environment, cache
  <2>3. CASE PutStep(p)
    BY <2>3
    DEF PutStep, GiveUp, Put, OpenData, WriteData, OpenMeta, WriteMeta, Count, environment, cache
  <2>4. CASE EvictStep(p)
    BY <2>4
    DEF EvictStep, LoadSize, ListName, StatEntry, ReadCreatedAt, RemoveData, RemoveMeta,
        SubtractFreed, environment, cache
  <2>5. QED
    BY <2>1, <2>2, <2>3, <2>4 DEF Step
<1>2. CASE scan.stage = "startup"
  <2>1. pc[p] = "idle"
    BY <1>2 DEF StartInv, At
  <2>2. ~Lookup(p) /\ ~GetStep(p)
    BY <1>2, <2>1
    DEF Lookup, GetMisses, GetFindsFresh, GetFindsExpired, Serving, GetStep, ExpireData,
        ExpireMeta, ExpireCount, ReadData, ServeHit, At
  <2>3. ~PutStep(p) /\ ~EvictStep(p)
    BY <2>1
    DEF PutStep, GiveUp, Put, OpenData, WriteData, OpenMeta, WriteMeta, Count, EvictStep,
        LoadSize, ListName, StatEntry, ReadCreatedAt, RemoveData, RemoveMeta, SubtractFreed,
        Listed, At
  <2>4. QED
    BY <2>2, <2>3 DEF Step
<1>3. QED
  BY <1>1, <1>2 DEF StartInv, TypeOK, Scanning

\* A file that is not there, as it was, or as long as it ever gets.
Grows(k) == data'[k] = data[k] \/ ~data'[k].here \/ Footprint(k)' = Length[k]

\* A listed entry is still not longer than the file will be.
LEMMA ListedStays ==
    ASSUME Steady, TypeOK, NEW e \in Entry, ListedInv(e), Grows(e.key)
    PROVE  ListedInv(e)'
<1>1. Length[e.key] \in Nat /\ e.size \in Nat
  BY LengthType DEF Entry
<1>2. QED
  BY <1>1 DEF ListedInv, Grows, Footprint

\* What is known of a task holds while another one runs.
LEMMA OthersStay ==
    ASSUME Steady, TypeOK, NEW p \in Proc, \A k \in Key : Grows(k),
           NEW q \in Proc, TaskInv(q), pc'[q] = pc[q] /\ op'[q] = op[q]
    PROVE  TaskInv(q)'
<1>1. op[q].entry \in Entry /\ op[q].entries \subseteq Entry
  BY DEF TypeOK, Operation
<1>2. /\ \A e \in op[q].entries : ListedInv(e)'
      /\ At(q, "read_created_at") => ListedInv(op[q].entry)'
  BY <1>1, ListedStays DEF TaskInv, Entry
<1>3. QED
  BY <1>2 DEF TaskInv, At, ListedInv, Footprint

\* The counter follows the ledger by d; gain is what the ledger loses beyond that.
LEMMA CountMoves ==
    ASSUME Steady, TypeOK, TypeOK', CountInv, scan.stage = "serving", scan' = scan,
           NEW gain \in Nat, NEW d \in Int,
           currentSize' = (currentSize + d) % Wrap,
           Ledger' + gain = Ledger + d, Room + gain <= Room'
    PROVE  CountInv'
<1>1. PICK surplus \in Nat : /\ surplus <= Room
                             /\ currentSize = (Ledger + surplus) % Wrap
  BY DEF CountInv
<1>2. SumsType /\ SumsType'
  BY SumTypes, PTL
<1>3. surplus + gain \in Nat /\ surplus + gain <= Room'
  BY <1>1, <1>2 DEF SumsType
<1>4. Wrap \in Nat \ {0} /\ Ledger + surplus \in Int
  BY <1>2, BoundAssumption DEF SumsType
<1>5. currentSize' = ((Ledger + surplus) + d) % Wrap
  BY <1>1, <1>4, RemainderAdds
<1>6. (Ledger + surplus) + d = Ledger' + (surplus + gain)
  <2> DEFINE old == Ledger
             new == Ledger'
  <2>1. old \in Int /\ new \in Int /\ surplus \in Nat /\ new + gain = old + d
    BY <1>2 DEF SumsType
  <2>2. (old + surplus) + d = new + (surplus + gain)
    <3> HIDE DEF old, new
    <3> QED BY <2>1
  <2>3. QED
    BY <2>2
<1>7. QED
  BY <1>3, <1>5, <1>6 DEF CountInv

\* The same by what the task p and the file of k change of each sum.
Moves(p, k, file, freed, stored, opened, granted, gain, d) ==
    /\ {file, freed, stored, opened, granted, d} \subseteq Int /\ gain \in Nat
    /\ Footprint(k)' = Footprint(k) + file
    /\ UnsubtractedOf(p)' = UnsubtractedOf(p) + freed
    /\ UncountedOf(p)' = UncountedOf(p) + stored
    /\ OpeningOf(p)' = OpeningOf(p) + opened
    /\ Granted' = Granted + granted
    /\ currentSize' = (currentSize + d) % Wrap
    /\ file + freed - stored + gain = d
    /\ gain <= granted - file - freed - opened

\* A step that moves the sums in balance preserves the invariant of the counter.
LEMMA CountStep ==
    ASSUME Steady, TypeOK, TypeOK', CountInv, scan.stage = "serving", scan' = scan,
           NEW p \in Proc, \A q \in Proc \ {p} : pc'[q] = pc[q] /\ op'[q] = op[q],
           NEW k \in Key, \A l \in Key \ {k} : data'[l] = data[l],
           NEW file, NEW freed, NEW stored, NEW opened, NEW granted, NEW gain, NEW d,
           Moves(p, k, file, freed, stored, opened, granted, gain, d)
    PROVE  CountInv'
<1>0. /\ file \in Int /\ freed \in Int /\ stored \in Int /\ opened \in Int
      /\ granted \in Int /\ d \in Int /\ gain \in Nat
      /\ file + freed - stored + gain = d
      /\ gain <= granted - file - freed - opened
      /\ currentSize' = (currentSize + d) % Wrap
  BY DEF Moves
<1> DEFINE claimed0 == Claimed          claimed1 == Claimed'
           unsubtracted0 == Unsubtracted  unsubtracted1 == Unsubtracted'
           uncounted0 == Uncounted      uncounted1 == Uncounted'
           opening0 == Opening          opening1 == Opening'
           granted0 == Granted          granted1 == Granted'
<1>1. SumsType /\ SumsType' /\ UnitsType /\ UnitsType'
  BY SumTypes, UnitTypes, PTL
<1>2. /\ claimed0 \in Int /\ unsubtracted0 \in Int /\ uncounted0 \in Int
      /\ opening0 \in Int /\ granted0 \in Int
  BY <1>1 DEF SumsType
<1>3. claimed1 = claimed0 + file
  <2> DEFINE before == Footprint(k)  after == Footprint(k)'
  <2>1. claimed1 = claimed0 - before + after /\ before \in Int /\ after = before + file
    BY <1>0, <1>1, ClaimedStep DEF UnitsType, Moves
  <2> HIDE DEF claimed0, claimed1, before, after
  <2>2. QED
    BY <1>0, <1>2, <2>1
<1>4. unsubtracted1 = unsubtracted0 + freed
  <2> DEFINE before == UnsubtractedOf(p)  after == UnsubtractedOf(p)'
  <2>1. unsubtracted1 = unsubtracted0 - before + after /\ before \in Int /\ after = before + freed
    BY <1>0, <1>1, TaskSums DEF UnitsType, Moves
  <2> HIDE DEF unsubtracted0, unsubtracted1, before, after
  <2>2. QED
    BY <1>0, <1>2, <2>1
<1>5. uncounted1 = uncounted0 + stored
  <2> DEFINE before == UncountedOf(p)  after == UncountedOf(p)'
  <2>1. uncounted1 = uncounted0 - before + after /\ before \in Int /\ after = before + stored
    BY <1>0, <1>1, TaskSums DEF UnitsType, Moves
  <2> HIDE DEF uncounted0, uncounted1, before, after
  <2>2. QED
    BY <1>0, <1>2, <2>1
<1>6. opening1 = opening0 + opened
  <2> DEFINE before == OpeningOf(p)  after == OpeningOf(p)'
  <2>1. opening1 = opening0 - before + after /\ before \in Int /\ after = before + opened
    BY <1>0, <1>1, TaskSums DEF UnitsType, Moves
  <2> HIDE DEF opening0, opening1, before, after
  <2>2. QED
    BY <1>0, <1>2, <2>1
<1>7. granted1 = granted0 + granted
  BY DEF Moves
<1>8. /\ Ledger = claimed0 + unsubtracted0 - uncounted0
      /\ Ledger' = claimed1 + unsubtracted1 - uncounted1
      /\ Room = granted0 - claimed0 - unsubtracted0 - opening0
      /\ Room' = granted1 - claimed1 - unsubtracted1 - opening1
  BY DEF Ledger, Room
<1>9. Ledger' + gain = Ledger + d /\ Room + gain <= Room'
  <2> DEFINE ledger0 == Ledger  ledger1 == Ledger'  room0 == Room  room1 == Room'
  <2>1. /\ ledger0 = claimed0 + unsubtracted0 - uncounted0
        /\ ledger1 = claimed1 + unsubtracted1 - uncounted1
        /\ room0 = granted0 - claimed0 - unsubtracted0 - opening0
        /\ room1 = granted1 - claimed1 - unsubtracted1 - opening1
    BY <1>8
  <2>2. ledger1 + gain = ledger0 + d /\ room0 + gain <= room1
    <3> HIDE DEF claimed0, claimed1, unsubtracted0, unsubtracted1, uncounted0, uncounted1,
                 opening0, opening1, granted0, granted1, ledger0, ledger1, room0, room1
    <3> QED BY <1>0, <1>2, <1>3, <1>4, <1>5, <1>6, <1>7, <2>1
  <2>3. QED
    BY <2>2
<1>10. QED
  BY <1>0, <1>9, CountMoves

\* p ran, from and to where it may be when the files stay as they are.
LEMMA Untouched ==
    ASSUME Steady, TypeOK, TypeOK', SteadyInv, scan.stage = "serving",
           NEW p \in Proc, \A q \in Proc \ {p} : pc'[q] = pc[q] /\ op'[q] = op[q],
           UNCHANGED <<data, currentSize, limits, scan, puts>>,
           pc[p] # "write_data",
           UncountedOf(p)' = UncountedOf(p), UnsubtractedOf(p)' = UnsubtractedOf(p),
           OpeningOf(p)' = OpeningOf(p),
           TaskInv(p)', CoverInv'
    PROVE  SteadyInv'
<1>1. ASSUME NEW k \in Key PROVE FileInv(k)'
  <2>1. FileInv(k) /\ data[k].writers \subseteq Proc /\ p \notin data[k].writers
    BY DEF SteadyInv, FileInv, On, TypeOK, DataFile
  <2>2. QED
    BY <2>1 DEF FileInv, On
<1>2. \A q \in Proc : TaskInv(q)'
  BY OthersStay DEF SteadyInv, Grows
<1>3. StartInv'
  BY DEF SteadyInv, StartInv
<1>4. CountInv'
  <2>1. SumsType /\ SumsType' /\ UnitsType
    BY SumTypes, UnitTypes, PTL
  <2>2. /\ Uncounted' = Uncounted /\ Unsubtracted' = Unsubtracted /\ Opening' = Opening
    BY <2>1, TaskSums DEF SumsType, UnitsType
  <2>3. Claimed' = Claimed /\ Granted' = Granted
    BY DEF Claimed, Granted, Footprint
  <2>4. QED
    BY <2>2, <2>3 DEF SteadyInv, CountInv, Ledger, Room
<1>5. QED
  BY <1>1, <1>2, <1>3, <1>4 DEF SteadyInv

\* An eviction that covers the disk goes on to, when the files only shrink.
LEMMA CoverStays ==
    ASSUME Steady, TypeOK, TypeOK', CoverInv, scan' = scan, limits' = limits,
           NEW p \in Proc, \A q \in Proc \ {p} : pc'[q] = pc[q] /\ op'[q] = op[q],
           DiskBytes' <= DiskBytes, \A k \in Key : data'[k].here => data[k].here,
           pc'[p] \in Evicting => pc[p] \in Evicting,
           Pending(p) => Pending(p)',
           Covers(p) => Covers(p)' \/ DiskBytes' <= limits.max_size
    PROVE  CoverInv'
<1>0. SumsType /\ SumsType'
  BY SumTypes, PTL
<1>1. ASSUME NEW q \in Proc, q # p, Covers(q) PROVE Covers(q)'
  <2>1. UnsubtractedOf(q)' = UnsubtractedOf(q) /\ pc'[q] = pc[q] /\ op'[q] = op[q]
    BY <1>1 DEF UnsubtractedOf, At
  <2>2. /\ UnsubtractedOf(q) \in Nat /\ op[q].current \in Nat
        /\ DiskBytes \in Nat /\ DiskBytes' \in Nat
    <3>1. op[q].freed \in Nat /\ op[q].entry.size \in Nat /\ op[q].current \in Nat
      BY DEF TypeOK, Operation, Entry
    <3>2. DiskBytes \in Nat /\ DiskBytes' \in Nat
      BY <1>0 DEF SumsType
    <3>3. QED
      BY <3>1, <3>2 DEF UnsubtractedOf
  <2>3. DiskBytes' + UnsubtractedOf(q) <= op[q].current
    BY <1>1, <2>2 DEF Covers
  <2>4. QED
    BY <1>1, <2>1, <2>3 DEF Covers
<1>2. ASSUME NEW q \in Proc, q # p, Pending(q) PROVE Pending(q)'
  BY <1>2 DEF Pending
<1>3. DiskBytes <= limits.max_size => DiskBytes' <= limits'.max_size
  <2>1. DiskBytes \in Nat /\ DiskBytes' \in Nat
    BY <1>0 DEF SumsType
  <2>2. limits.max_size \in Nat
    BY DEF TypeOK, Limits
  <2>3. QED
    BY <2>1, <2>2
<1>4. QED
  BY <1>1, <1>2, <1>3 DEF CoverInv

-----------------------------------------------------------------------------
(* The steps of get and of the caller                                      *)

\* A task without an operation holds nothing.
LEMMA Cleared == NoOperation.freed = 0 /\ NoOperation.entries = {}
BY DEF NoOperation

\* The types of what a task's step reads.
LEMMA StepTypes ==
    ASSUME TypeOK, NEW p \in Proc
    PROVE  /\ pc \in [Proc -> Label] /\ op \in [Proc -> Operation] /\ data \in [Key -> DataFile]
           /\ op[p] \in Operation /\ op[p].key \in Key /\ op[p].entry \in Entry
           /\ op[p].entry.key \in Key /\ op[p].entries \subseteq Entry
           /\ op[p].size \in Nat /\ op[p].freed \in Nat /\ op[p].current \in Nat
           /\ op[p].entry.size \in Nat
           /\ limits.max_size \in Nat
           /\ \A k \in Key : data[k].size \in Nat /\ data[k].writers \subseteq Proc
BY DEF TypeOK, Operation, Entry, DataFile, Limits

\* Nothing expires before the clock stops.
LEMMA NoExpiry ==
    ASSUME Steady, TypeOK, StartInv, NEW k \in Key
    PROVE  ~Expired(k)
<1>1. now \in Nat /\ now <= MaxClock /\ MaxClock \in Nat /\ MaxClock <= limits.ttl
  BY BoundAssumption DEF TypeOK, Steady, StartInv
<1>2. sidecar[k].created_at \in Nat /\ limits.ttl \in Nat
  BY DEF TypeOK, Sidecar, Limits
<1>3. QED
  BY <1>1, <1>2 DEF Expired

\* A step of get, or of the caller, changes nothing that is counted.
LEMMA GetSteady ==
    ASSUME Steady, TypeOK, TypeOK', SteadyInv, NEW p \in Proc,
           Lookup(p) \/ GetStep(p) \/ GiveUp(p)
    PROVE  SteadyInv'
<1> USE DEF At, Goto, files, environment
<1>1. /\ scan.stage = "serving" /\ scan' = scan /\ limits' = limits
      /\ \A q \in Proc \ {p} : pc'[q] = pc[q] /\ op'[q] = op[q]
  BY TaskRuns, StepIsLocal DEF SteadyInv, Step, PutStep
<1>2. TaskInv(p)
  BY DEF SteadyInv
<1>3. /\ UNCHANGED <<data, currentSize, puts>>
      /\ pc[p] \in {"idle", "read_data", "hit", "missed"}
      /\ pc'[p] \in {"idle", "read_data", "hit", "missed"}
      /\ \/ op'[p].freed = op[p].freed /\ op'[p].entries = op[p].entries
         \/ op'[p] = NoOperation
  <2>1. CASE Lookup(p)
    <3>1. PICK k \in Key : GetMisses(p, k) \/ GetFindsFresh(p, k)
      BY <2>1, NoExpiry DEF Lookup, GetFindsExpired, SteadyInv
    <3>2. QED
      BY <3>1, StepTypes DEF GetMisses, GetFindsFresh, Operation
  <2>2. CASE ReadData(p) \/ ServeHit(p) \/ GiveUp(p)
    BY <2>2, StepTypes DEF ReadData, ServeHit, GiveUp, Finish, Operation
  <2>3. ~ExpireData(p) /\ ~ExpireMeta(p) /\ ~ExpireCount(p)
    BY <1>2 DEF TaskInv, ExpireData, ExpireMeta, ExpireCount
  <2>4. QED
    BY <2>1, <2>2, <2>3 DEF GetStep
<1>4. /\ op[p].freed = 0 /\ op[p].entries = {}
      /\ op'[p].freed = 0 /\ op'[p].entries = {}
  BY <1>2, <1>3 DEF TaskInv, Evicting, NoOperation
<1>5. TaskInv(p)'
  BY <1>3, <1>4 DEF TaskInv, InPut, BeforeData, Evicting
<1>6. /\ UncountedOf(p)' = UncountedOf(p) /\ UnsubtractedOf(p)' = UnsubtractedOf(p)
      /\ OpeningOf(p)' = OpeningOf(p)
  BY <1>3, <1>4 DEF UncountedOf, UnsubtractedOf, OpeningOf
<1>7. CoverInv'
  <2>1. DiskBytes' <= DiskBytes
    BY <1>3, DiskBytesType DEF DiskBytes
  <2>2. CoverInv
    BY DEF SteadyInv
  <2>3. /\ pc'[p] \notin Evicting /\ ~Pending(p) /\ ~Covers(p)
        /\ \A k \in Key : data'[k].here => data[k].here
    BY <1>3 DEF Evicting, Pending, Covers, InPut
  <2>4. QED
    BY <1>1, <2>1, <2>2, <2>3, CoverStays
<1>8. QED
  BY <1>1, <1>3, <1>5, <1>6, <1>7, Untouched

-----------------------------------------------------------------------------
(* The steps of put                                                        *)

\* The counter as it is, in the form of CountStep.
LEMMA CounterKept ==
    ASSUME TypeOK, currentSize' = currentSize
    PROVE  currentSize' = (currentSize + 0) % Wrap
<1>1. currentSize \in 0 .. Wrap - 1 /\ Wrap \in Nat \ {0}
  BY BoundAssumption DEF TypeOK
<1>2. currentSize + 0 = currentSize
  BY <1>1
<1>3. QED
  BY <1>1, <1>2, SmallRemainder

\* A put that begins is granted the length of its image.
LEMMA PutSteady ==
    ASSUME Steady, TypeOK, TypeOK', SteadyInv, NEW p \in Proc,
           NEW image \in Rendition[op[p].key], Put(p, image)
    PROVE  SteadyInv'
<1> USE DEF At, Goto, files, environment, cache
<1> DEFINE k == op[p].key
<1>1. /\ scan.stage = "serving" /\ scan' = scan /\ limits' = limits
      /\ \A q \in Proc \ {p} : pc'[q] = pc[q] /\ op'[q] = op[q]
  BY TaskRuns, StepIsLocal DEF SteadyInv, Step, PutStep
<1>2. /\ data' = data /\ currentSize' = currentSize /\ puts' = [puts EXCEPT ![k] = @ + 1]
      /\ pc[p] = "missed" /\ pc'[p] = "open_data" /\ k \in Key
      /\ op'[p].key = k /\ op'[p].content = image /\ op'[p].size = SizeOf[image]
      /\ op'[p].freed = op[p].freed /\ op'[p].entries = op[p].entries
      /\ op'[p].entry = op[p].entry
  BY StepTypes DEF Put, Operation
<1>3. Length[k] \in Nat /\ SizeOf[image] = Length[k]
  BY <1>2, LengthType
<1>4. TaskInv(p) /\ op[p].freed = 0 /\ op[p].entries = {}
  BY <1>2 DEF SteadyInv, TaskInv, Evicting
<1>5. TaskInv(p)'
  BY <1>2, <1>3, <1>4 DEF TaskInv, InPut, BeforeData, Evicting
<1>6. \A q \in Proc : TaskInv(q)'
  BY <1>1, <1>2, <1>5, OthersStay DEF SteadyInv, Grows
<1>7. ASSUME NEW l \in Key PROVE FileInv(l)'
  <2>1. FileInv(l) /\ data[l].writers \subseteq Proc
    BY StepTypes DEF SteadyInv
  <2>2. p \notin data[l].writers
    BY <1>2, <2>1 DEF FileInv, On
  <2>3. QED
    BY <1>1, <1>2, <2>1, <2>2 DEF FileInv, On
<1>8. CountInv'
  <2>1. /\ Footprint(k)' = Footprint(k) /\ UnsubtractedOf(p)' = UnsubtractedOf(p)
        /\ UncountedOf(p)' = UncountedOf(p) /\ OpeningOf(p) = 0 /\ OpeningOf(p)' = Length[k]
    BY <1>2, <1>3 DEF Footprint, UnsubtractedOf, UncountedOf, OpeningOf
  <2>2. /\ Footprint(k) \in Nat /\ UnsubtractedOf(p) \in Nat /\ UncountedOf(p) \in Nat
    BY <1>2, UnitTypes DEF UnitsType
  <2>3. /\ Footprint(k)' = Footprint(k) + 0 /\ UnsubtractedOf(p)' = UnsubtractedOf(p) + 0
        /\ UncountedOf(p)' = UncountedOf(p) + 0 /\ OpeningOf(p)' = OpeningOf(p) + Length[k]
    BY <1>3, <2>1, <2>2
  <2>4. Granted' = Granted + Length[k]
    BY <1>2, GrantedStep
  <2>5. currentSize' = (currentSize + 0) % Wrap
    BY <1>2, CounterKept
  <2>6. 0 + 0 - 0 + 0 = 0 /\ 0 <= Length[k] - 0 - 0 - Length[k]
    BY <1>3
  <2>7. CountInv /\ \A l \in Key \ {k} : data'[l] = data[l]
    BY <1>2 DEF SteadyInv
  <2>8. Moves(p, k, 0, 0, 0, Length[k], Length[k], 0, 0)
    BY <1>3, <2>3, <2>4, <2>5, <2>6 DEF Moves
  <2> HIDE DEF k
  <2>9. QED
    BY <1>1, <1>2, <2>7, <2>8, CountStep
<1>9. CoverInv'
  BY <1>2 DEF CoverInv, Pending, InPut
<1>10. QED
  BY <1>1, <1>6, <1>7, <1>8, <1>9 DEF SteadyInv, StartInv

\* Truncating a file makes the bytes it was bound to hold a surplus.
LEMMA OpenDataSteady ==
    ASSUME Steady, TypeOK, TypeOK', SteadyInv, NEW p \in Proc, OpenData(p)
    PROVE  SteadyInv'
<1> USE DEF At, Goto, files, environment, cache
<1> DEFINE k == op[p].key
<1>1. /\ scan.stage = "serving" /\ scan' = scan /\ limits' = limits
      /\ \A q \in Proc \ {p} : pc'[q] = pc[q] /\ op'[q] = op[q]
  BY TaskRuns, StepIsLocal DEF SteadyInv, Step, PutStep
<1>2. /\ op' = op /\ currentSize' = currentSize /\ puts' = puts
      /\ pc[p] = "open_data" /\ pc'[p] = "write_data" /\ k \in Key
      /\ data'[k] = [here |-> TRUE, content |-> Blank, size |-> 0,
                     writers |-> data[k].writers \cup {p}]
      /\ \A l \in Key \ {k} : data'[l] = data[l]
  BY StepTypes DEF OpenData
<1>3. TaskInv(p) /\ op[p].size = Length[k] /\ Length[k] \in Nat
  BY <1>2, LengthType DEF SteadyInv, TaskInv, InPut
<1>4. Footprint(k)' = Length[k]
  BY <1>2 DEF Footprint
<1>5. \A l \in Key : Grows(l)
  BY <1>2, <1>4 DEF Grows
<1>6. TaskInv(p)'
  BY <1>2, <1>3 DEF TaskInv, InPut, BeforeData, Evicting
<1>7. \A q \in Proc : TaskInv(q)'
  BY <1>1, <1>5, <1>6, OthersStay DEF SteadyInv
<1>8. ASSUME NEW l \in Key PROVE FileInv(l)'
  <2>1. FileInv(l) /\ data[l].writers \subseteq Proc
    BY StepTypes DEF SteadyInv
  <2>2. CASE l = k
    BY <1>1, <1>2, <2>1, <2>2, LengthType DEF FileInv, On
  <2>3. CASE l # k
    BY <1>1, <1>2, <2>1, <2>3 DEF FileInv, On
  <2>4. QED
    BY <2>2, <2>3
<1>9. CountInv'
  <2>1. /\ UnsubtractedOf(p)' = UnsubtractedOf(p) /\ UncountedOf(p) = 0
        /\ UncountedOf(p)' = Length[k] /\ OpeningOf(p) = Length[k] /\ OpeningOf(p)' = 0
    BY <1>2, <1>3 DEF UnsubtractedOf, UncountedOf, OpeningOf
  <2>2. /\ Footprint(k) \in Nat /\ UnsubtractedOf(p) \in Nat /\ Granted \in Nat
    BY <1>2, UnitTypes, SumTypes DEF UnitsType, SumsType
  <2>3. /\ Footprint(k)' = Footprint(k) + (Length[k] - Footprint(k))
        /\ UnsubtractedOf(p)' = UnsubtractedOf(p) + 0
        /\ UncountedOf(p)' = UncountedOf(p) + Length[k]
        /\ OpeningOf(p)' = OpeningOf(p) + (0 - Length[k])
    BY <1>3, <1>4, <2>1, <2>2
  <2>4. Granted' = Granted + 0
    BY <1>2, <2>2 DEF Granted
  <2>5. currentSize' = (currentSize + 0) % Wrap
    BY <1>2, CounterKept
  <2>6. /\ Length[k] - Footprint(k) \in Int /\ 0 - Length[k] \in Int
        /\ (Length[k] - Footprint(k)) + 0 - Length[k] + Footprint(k) = 0
        /\ Footprint(k) <= 0 - (Length[k] - Footprint(k)) - 0 - (0 - Length[k])
    BY <1>3, <2>2
  <2>7. CountInv
    BY DEF SteadyInv
  <2>8. Moves(p, k, Length[k] - Footprint(k), 0, Length[k], 0 - Length[k], 0, Footprint(k), 0)
    BY <1>3, <2>2, <2>3, <2>4, <2>5, <2>6 DEF Moves
  <2> HIDE DEF k
  <2>9. QED
    BY <1>1, <1>2, <2>7, <2>8, CountStep
<1>10. CoverInv'
  BY <1>2 DEF CoverInv, Pending, InPut
<1>11. QED
  BY <1>1, <1>7, <1>8, <1>9, <1>10 DEF SteadyInv, StartInv

\* Writing leaves the file as long as it was bound to get.
LEMMA WriteDataSteady ==
    ASSUME Steady, TypeOK, TypeOK', SteadyInv, NEW p \in Proc, WriteData(p)
    PROVE  SteadyInv'
<1> USE DEF At, Goto, files, environment, cache
<1> DEFINE k == op[p].key
<1>1. /\ scan.stage = "serving" /\ scan' = scan /\ limits' = limits
      /\ \A q \in Proc \ {p} : pc'[q] = pc[q] /\ op'[q] = op[q]
  BY TaskRuns, StepIsLocal DEF SteadyInv, Step, PutStep
<1>2. /\ op' = op /\ currentSize' = currentSize /\ puts' = puts
      /\ pc[p] = "write_data" /\ pc'[p] = "open_meta" /\ k \in Key
      /\ \A l \in Key \ {k} : data'[l] = data[l]
      /\ p \notin data[k].writers => data' = data
      /\ p \in data[k].writers =>
            data'[k] = [Overwritten(data[k], op[p].content) EXCEPT !.writers = @ \ {p}]
  BY StepTypes DEF WriteData
<1>3. /\ TaskInv(p) /\ op[p].size = Length[k] /\ SizeOf[op[p].content] = Length[k]
      /\ Length[k] \in Nat /\ FileInv(k)
  BY <1>2, LengthType DEF SteadyInv, TaskInv, InPut, BeforeData
<1>4. p \in data[k].writers =>
         /\ data'[k].size = Length[k] /\ data'[k].here = data[k].here
         /\ data'[k].writers = data[k].writers \ {p}
  <2>1. data[k] \in DataFile
    BY <1>2, StepTypes
  <2>2. CASE SizeOf[op[p].content] >= data[k].size
    BY <1>2, <1>3, <2>1, <2>2 DEF Overwritten, DataFile
  <2>3. CASE ~(SizeOf[op[p].content] >= data[k].size)
    BY <1>3, <2>1, <2>3 DEF FileInv, DataFile
  <2>4. QED
    BY <2>2, <2>3
<1>5. Footprint(k)' = Footprint(k) /\ \A l \in Key : Grows(l)
  <2>1. Footprint(k)' = Footprint(k) /\ (p \in data[k].writers => Footprint(k)' = Length[k])
    BY <1>2, <1>4 DEF Footprint
  <2>2. QED
    BY <1>2, <2>1 DEF Grows
<1>6. TaskInv(p)'
  BY <1>2, <1>3 DEF TaskInv, InPut, BeforeData, Evicting
<1>7. \A q \in Proc : TaskInv(q)'
  BY <1>1, <1>5, <1>6, OthersStay DEF SteadyInv
<1>8. ASSUME NEW l \in Key PROVE FileInv(l)'
  <2>1. FileInv(l) /\ data[l].writers \subseteq Proc
    BY StepTypes DEF SteadyInv
  <2>2. CASE l = k
    <3>1. p \notin data'[k].writers /\ data'[k].writers \subseteq data[k].writers
      BY <1>2, <1>4
    <3>2. /\ data'[k].size \in 0 .. Length[k] /\ data'[k].here = data[k].here
          /\ ~data'[k].here => data'[k].size = 0 /\ data'[k].writers = {}
      BY <1>2, <1>3, <1>4 DEF FileInv
    <3>3. \A q \in data'[k].writers : pc'[q] = "write_data" /\ op'[q].key = l
      BY <1>1, <1>2, <2>1, <2>2, <3>1 DEF FileInv, On
    <3>4. QED
      BY <2>2, <3>2, <3>3 DEF FileInv, On
  <2>3. CASE l # k
    BY <1>1, <1>2, <2>1, <2>3 DEF FileInv, On
  <2>4. QED
    BY <2>2, <2>3
<1>9. CountInv'
  <2>1. /\ UnsubtractedOf(p)' = UnsubtractedOf(p) /\ UncountedOf(p)' = UncountedOf(p)
        /\ OpeningOf(p)' = OpeningOf(p) /\ Granted' = Granted
    BY <1>2 DEF UnsubtractedOf, UncountedOf, OpeningOf, Granted
  <2>2. /\ Footprint(k) \in Nat /\ UnsubtractedOf(p) \in Nat /\ UncountedOf(p) \in Nat
        /\ OpeningOf(p) \in Nat /\ Granted \in Nat
    BY <1>2, UnitTypes, SumTypes DEF UnitsType, SumsType
  <2>3. Moves(p, k, 0, 0, 0, 0, 0, 0, 0)
    BY <1>2, <1>5, <2>1, <2>2, CounterKept DEF Moves
  <2>4. CountInv
    BY DEF SteadyInv
  <2> HIDE DEF k
  <2>5. QED
    BY <1>1, <1>2, <2>3, <2>4, CountStep
<1>10. CoverInv'
  BY <1>2 DEF CoverInv, Pending, InPut
<1>11. QED
  BY <1>1, <1>7, <1>8, <1>9, <1>10 DEF SteadyInv, StartInv

\* The sidecar is not counted.
LEMMA MetaSteady ==
    ASSUME Steady, TypeOK, TypeOK', SteadyInv, NEW p \in Proc, OpenMeta(p) \/ WriteMeta(p)
    PROVE  SteadyInv'
<1> USE DEF At, Goto, files, environment, cache
<1>1. /\ scan.stage = "serving" /\ scan' = scan /\ limits' = limits
      /\ \A q \in Proc \ {p} : pc'[q] = pc[q] /\ op'[q] = op[q]
  BY TaskRuns, StepIsLocal DEF SteadyInv, Step, PutStep
<1>2. /\ UNCHANGED <<data, op, currentSize, puts>>
      /\ pc[p] \in {"open_meta", "write_meta"} /\ pc'[p] \in {"write_meta", "count"}
  BY StepTypes DEF OpenMeta, WriteMeta
<1>3. TaskInv(p)'
  BY <1>2 DEF SteadyInv, TaskInv, InPut, BeforeData, Evicting
<1>4. /\ UnsubtractedOf(p)' = UnsubtractedOf(p) /\ UncountedOf(p)' = UncountedOf(p)
      /\ OpeningOf(p)' = OpeningOf(p)
  BY <1>2 DEF UnsubtractedOf, UncountedOf, OpeningOf
<1>5. CoverInv'
  BY <1>2 DEF CoverInv, Pending, InPut
<1>6. QED
  BY <1>1, <1>2, <1>3, <1>4, <1>5, Untouched

\* The counter moves by what the put had outstanding.
LEMMA CountSteady ==
    ASSUME Steady, TypeOK, TypeOK', SteadyInv, NEW p \in Proc, Count(p)
    PROVE  SteadyInv'
<1> USE DEF At, Goto, files, environment, cache
<1>1. /\ scan.stage = "serving" /\ scan' = scan /\ limits' = limits
      /\ \A q \in Proc \ {p} : pc'[q] = pc[q] /\ op'[q] = op[q]
  BY TaskRuns, StepIsLocal DEF SteadyInv, Step, PutStep
<1>2. /\ UNCHANGED <<data, puts>> /\ op'[p] = NoOperation
      /\ currentSize' = (currentSize + op[p].size) % Wrap
      /\ pc[p] = "count" /\ pc'[p] = "load" /\ op[p].size \in Nat
  BY StepTypes DEF Count, Add
<1>3. op[p].freed = 0
  BY <1>2 DEF SteadyInv, TaskInv, Evicting
<1>4. TaskInv(p)'
  BY <1>2 DEF TaskInv, InPut, BeforeData, Evicting, NoOperation
<1>5. \A q \in Proc : TaskInv(q)'
  BY <1>1, <1>2, <1>4, OthersStay DEF SteadyInv, Grows
<1>6. ASSUME NEW l \in Key PROVE FileInv(l)'
  <2>1. FileInv(l) /\ data[l].writers \subseteq Proc
    BY StepTypes DEF SteadyInv
  <2>2. p \notin data[l].writers
    BY <1>2, <2>1 DEF FileInv, On
  <2>3. QED
    BY <1>1, <1>2, <2>1, <2>2 DEF FileInv, On
<1>7. CountInv'
  <2> PICK k \in Key : TRUE
    BY KeyAssumption
  <2>1. /\ Footprint(k)' = Footprint(k) /\ Granted' = Granted
        /\ UnsubtractedOf(p) = 0 /\ UncountedOf(p) = op[p].size /\ OpeningOf(p) = 0
    BY <1>2, <1>3 DEF Footprint, Granted, UnsubtractedOf, UncountedOf, OpeningOf
  <2>2. UnsubtractedOf(p)' = 0 /\ UncountedOf(p)' = 0 /\ OpeningOf(p)' = 0
    BY <1>2 DEF UnsubtractedOf, UncountedOf, OpeningOf, NoOperation
  <2>3. Footprint(k) \in Nat /\ Granted \in Nat
    BY <1>2, UnitTypes, SumTypes DEF UnitsType, SumsType
  <2>4. Moves(p, k, 0, 0, 0 - op[p].size, 0, 0, 0, op[p].size)
    BY <1>2, <2>1, <2>2, <2>3 DEF Moves
  <2>5. CountInv
    BY DEF SteadyInv
  <2>6. QED
    BY <1>1, <1>2, <2>4, <2>5, CountStep
<1>8. CoverInv'
  BY <1>2 DEF CoverInv, Pending, InPut
<1>9. QED
  BY <1>1, <1>5, <1>6, <1>7, <1>8 DEF SteadyInv, StartInv

-----------------------------------------------------------------------------
(* What the invariant says of the counter and of an eviction               *)

\* A file is not longer than it will be.
LEMMA DiskBelowClaimed ==
    ASSUME Steady, TypeOK, \A k \in Key : FileInv(k)
    PROVE  DiskBytes <= Claimed
<1> DEFINE f == [k \in Key |-> data[k].size]
           g == [k \in Key |-> Footprint(k)]
<1>1. \A k \in Key : data[k].size \in Nat /\ Footprint(k) \in Nat
  BY UnitTypes, StepTypes DEF UnitsType, TypeOK, DataFile
<1>2. \A k \in Key : data[k].size <= Footprint(k)
  BY <1>1, LengthType DEF FileInv, Footprint
<1>3. f \in [Key -> Nat] /\ g \in [Key -> Nat] /\ \A k \in Key : f[k] <= g[k]
  BY <1>1, <1>2
<1>4. Total(f) <= Total(g)
  <2> HIDE DEF f, g
  <2> QED BY <1>3, KeyAssumption, TotalMonotone
<1>5. QED
  BY <1>4 DEF DiskBytes, Claimed

\* The ledger and the surplus are below the range of the counter.  While they are not
\* negative they are the counter; when they are, the puts have the whole disk to add.
LEMMA CountedAhead ==
    ASSUME Steady, TypeOK, \A k \in Key : FileInv(k), CountInv, scan.stage = "serving"
    PROVE  DiskBytes + Unsubtracted <= currentSize + Uncounted
<1>1. PICK surplus \in Nat : /\ surplus <= Room
                             /\ currentSize = (Ledger + surplus) % Wrap
  BY DEF CountInv
<1>2. SumsType
  BY SumTypes
<1>3. DiskBytes <= Claimed /\ Granted < Wrap
  BY DiskBelowClaimed, GrantedBound
<1>4. Wrap \in Nat \ {0} /\ currentSize \in Nat
  BY BoundAssumption DEF TypeOK
<1>5. CASE Ledger + surplus < 0
  BY <1>1, <1>2, <1>3, <1>4, <1>5 DEF SumsType, Ledger
<1>6. CASE Ledger + surplus >= 0
  <2>1. Ledger + surplus \in 0 .. Wrap - 1
    BY <1>1, <1>2, <1>3, <1>4, <1>6 DEF SumsType, Ledger, Room
  <2>2. currentSize = Ledger + surplus
    BY <1>1, <1>4, <2>1, SmallRemainder
  <2>3. QED
    BY <1>1, <1>2, <1>3, <2>2 DEF SumsType, Ledger
<1>7. QED
  <2>1. Ledger + surplus \in Int
    BY <1>1, <1>2 DEF SumsType
  <2>2. QED
    BY <1>5, <1>6, <2>1

\* A task that compares the counter with the limit while nobody puts sees every byte.
LEMMA AloneSeesAll ==
    ASSUME Steady, TypeOK, SteadyInv, scan.stage = "serving",
           \A q \in Proc : pc[q] \notin InPut
    PROVE  DiskBytes <= currentSize
<1>1. Uncounted = 0
  <2>1. [q \in Proc |-> UncountedOf(q)] \in [Proc -> Nat]
    BY UnitTypes DEF UnitsType
  <2>2. \A q \in Proc : UncountedOf(q) = 0
    BY DEF UncountedOf, InPut
  <2>3. QED
    BY <2>1, <2>2, TotalZero DEF Uncounted
<1>2. DiskBytes + Unsubtracted <= currentSize + Uncounted
  BY CountedAhead DEF SteadyInv
<1>3. SumsType /\ currentSize \in Nat
  BY SumTypes, BoundAssumption DEF TypeOK
<1>4. QED
  BY <1>1, <1>2, <1>3 DEF SumsType

\* An eviction that covers the disk leaves it within the limit when it ends.
LEMMA CoveredEnds ==
    ASSUME Steady, TypeOK, SteadyInv, NEW p \in Proc, Covers(p), SubtractFreed(p)
    PROVE  DiskBytes <= limits.max_size
<1>1. DiskBytes \in Nat
  BY DiskBytesType
<1>2. /\ pc[p] \in {"list", "remove_data"} /\ op[p].unseen = {}
      /\ ~(op[p].freed < op[p].current - limits.max_size) \/ op[p].entries = {}
      /\ DiskBytes + op[p].freed <= op[p].current
  <2>1. pc[p] \in {"list", "remove_data"} /\ (pc[p] = "list" => op[p].unseen = {})
    BY DEF SubtractFreed, Listed, At
  <2>2. op[p].unseen = {}
    BY <2>1 DEF SteadyInv, TaskInv
  <2>3. UnsubtractedOf(p) = op[p].freed
    BY <2>1, StepTypes DEF UnsubtractedOf, At
  <2>4. QED
    BY <2>1, <2>2, <2>3 DEF SubtractFreed, StillOver, Target, Covers
<1>3. CASE ~(op[p].freed < op[p].current - limits.max_size)
  BY <1>1, <1>2, <1>3, StepTypes
<1>4. CASE op[p].entries = {}
  <2>1. \A k \in Key : data[k].size = 0
    BY <1>2, <1>4 DEF Covers, SteadyInv, FileInv
  <2>2. DiskBytes = 0
    BY <2>1, TotalZero DEF DiskBytes
  <2>3. QED
    BY <2>2, StepTypes
<1>5. QED
  BY <1>2, <1>3, <1>4

-----------------------------------------------------------------------------
(* The steps of an eviction                                                *)

\* The last put to count sees every byte, and is content or sets out to evict.
LEMMA LoadSizeSteady ==
    ASSUME Steady, TypeOK, TypeOK', SteadyInv, NEW p \in Proc, LoadSize(p)
    PROVE  SteadyInv'
<1> USE DEF At, Goto, files, environment, cache
<1>1. /\ scan.stage = "serving" /\ scan' = scan /\ limits' = limits
      /\ \A q \in Proc \ {p} : pc'[q] = pc[q] /\ op'[q] = op[q]
  BY TaskRuns, StepIsLocal DEF SteadyInv, Step, EvictStep
<1>2. /\ UNCHANGED <<data, currentSize, puts>> /\ pc[p] = "load"
      /\ \/ currentSize <= limits.max_size /\ pc'[p] = "idle" /\ op'[p] = NoOperation
         \/ /\ pc'[p] = "list" /\ op'[p].freed = op[p].freed /\ op'[p].entries = op[p].entries
            /\ op'[p].current = currentSize /\ op'[p].unseen = Key
  BY StepTypes DEF LoadSize, Finish, Operation
<1>3. TaskInv(p) /\ op[p].freed = 0 /\ op[p].entries = {} /\ currentSize \in Nat
  BY <1>2, BoundAssumption DEF SteadyInv, TaskInv, Evicting, TypeOK
<1>4. /\ op'[p].freed = 0 /\ op'[p].entries = {}
  BY <1>2, <1>3 DEF NoOperation
<1>5. TaskInv(p)'
  BY <1>2, <1>4 DEF TaskInv, InPut, BeforeData, Evicting
<1>6. /\ UnsubtractedOf(p)' = UnsubtractedOf(p) /\ UncountedOf(p)' = UncountedOf(p)
      /\ OpeningOf(p)' = OpeningOf(p)
  BY <1>2, <1>3, <1>4 DEF UnsubtractedOf, UncountedOf, OpeningOf
<1>7. CoverInv'
  <2>1. CASE \E q \in Proc : pc[q] \in InPut
    <3>1. PICK q \in Proc : pc[q] \in InPut
      BY <2>1
    <3>2. q # p
      BY <1>2, <3>1 DEF InPut
    <3>3. QED
      BY <1>1, <3>1, <3>2 DEF CoverInv, Pending
  <2>2. CASE \A q \in Proc : pc[q] \notin InPut
    <3>1. DiskBytes' = DiskBytes /\ DiskBytes \in Nat
      BY <1>2, DiskBytesType DEF DiskBytes
    <3>2. DiskBytes <= currentSize
      BY <1>1, <2>2, AloneSeesAll
    <3>3. CASE currentSize <= limits.max_size
      <4>1. DiskBytes' <= limits'.max_size
        BY <1>1, <1>3, <3>1, <3>2, <3>3, StepTypes
      <4>2. QED
        BY <4>1 DEF CoverInv
    <3>4. CASE pc'[p] = "list" /\ op'[p].current = currentSize /\ op'[p].unseen = Key
      <4>1. UnsubtractedOf(p)' = 0
        BY <1>4, <3>4 DEF UnsubtractedOf
      <4>2. DiskBytes' + UnsubtractedOf(p)' <= op'[p].current
        BY <3>1, <3>2, <3>4, <4>1
      <4>3. Covers(p)'
        BY <3>4, <4>2 DEF Covers, Evicting
      <4>4. QED
        BY <4>3 DEF CoverInv
    <3>5. QED
      BY <1>2, <3>3, <3>4
  <2>3. QED
    BY <2>1, <2>2
<1>8. QED
  BY <1>1, <1>2, <1>5, <1>6, <1>7, Untouched

\* The walk over the directory puts every file on the list.
LEMMA WalkSteady ==
    ASSUME Steady, TypeOK, TypeOK', SteadyInv, NEW p \in Proc,
           (\E k \in Key : ListName(p, k)) \/ StatEntry(p) \/ ReadCreatedAt(p)
    PROVE  SteadyInv'
<1> USE DEF At, Goto, files, environment, cache
<1>1. /\ scan.stage = "serving" /\ scan' = scan /\ limits' = limits
      /\ \A q \in Proc \ {p} : pc'[q] = pc[q] /\ op'[q] = op[q]
  BY TaskRuns, StepIsLocal DEF SteadyInv, Step, EvictStep
<1>2. /\ UNCHANGED <<data, currentSize, puts>>
      /\ pc[p] \in {"list", "stat", "read_created_at"}
      /\ pc'[p] \in {"list", "stat", "read_created_at"}
      /\ op'[p].freed = op[p].freed /\ op'[p].current = op[p].current
  <2>1. CASE \E k \in Key : ListName(p, k)
    BY <2>1, StepTypes DEF ListName, Operation
  <2>2. CASE StatEntry(p)
    BY <2>2, StepTypes DEF StatEntry, Operation
  <2>3. CASE ReadCreatedAt(p)
    BY <2>3, StepTypes DEF ReadCreatedAt, Operation
  <2>4. QED
    BY <2>1, <2>2, <2>3
<1>3. TaskInv(p) /\ \A k \in Key : FileInv(k)
  BY DEF SteadyInv
<1>4. /\ UnsubtractedOf(p)' = UnsubtractedOf(p) /\ UncountedOf(p)' = UncountedOf(p)
      /\ OpeningOf(p)' = OpeningOf(p)
  BY <1>2 DEF UnsubtractedOf, UncountedOf, OpeningOf
<1>5. DiskBytes' = DiskBytes
  BY <1>2 DEF DiskBytes
<1>6. ASSUME TaskInv(p)', Covers(p) => Covers(p)' PROVE SteadyInv'
  <2>1. CoverInv'
    <3>1. DiskBytes' <= DiskBytes /\ CoverInv
      BY <1>5, DiskBytesType DEF SteadyInv
    <3>2. pc[p] \in Evicting /\ ~Pending(p) /\ \A k \in Key : data'[k].here => data[k].here
      BY <1>2 DEF Evicting, Pending, InPut
    <3>3. QED
      BY <1>1, <1>6, <3>1, <3>2, CoverStays
  <2>2. pc[p] # "write_data"
    BY <1>2
  <2>3. QED
    BY <1>1, <1>2, <1>4, <1>6, <2>1, <2>2, Untouched
<1>7. ASSUME NEW k \in Key, ListName(p, k) PROVE SteadyInv'
  <2>1. /\ pc[p] = "list" /\ op'[p].entries = op[p].entries /\ op'[p].unseen = op[p].unseen \ {k}
        /\ IF data[k].here THEN pc'[p] = "stat" /\ op'[p].entry.key = k ELSE pc'[p] = "list"
    BY <1>7, StepTypes DEF ListName, Operation, NoEntry
  <2>2. TaskInv(p)'
    BY <1>2, <1>3, <2>1 DEF TaskInv, InPut, BeforeData, Evicting, ListedInv, Footprint
  <2>3. Covers(p) => Covers(p)'
    BY <1>2, <1>4, <1>5, <2>1 DEF Covers, Evicting
  <2>4. QED
    BY <1>6, <2>2, <2>3
<1>8. CASE StatEntry(p)
  <2>1. /\ pc[p] = "stat" /\ pc'[p] = "read_created_at" /\ op'[p].unseen = op[p].unseen
        /\ op'[p].entries = op[p].entries
        /\ op'[p].entry.key = op[p].entry.key
        /\ op'[p].entry.size = data[op[p].entry.key].size
    BY <1>8, StepTypes DEF StatEntry, Operation, Entry
  <2>2. ListedInv(op[p].entry)'
    <3>1. op[p].entry.key \in Key
      BY StepTypes
    <3>2. FileInv(op[p].entry.key) /\ data[op[p].entry.key].size \in Nat
          /\ Length[op[p].entry.key] \in Nat
      BY <1>3, <3>1, StepTypes, LengthType
    <3>3. data[op[p].entry.key].size \in 0 .. Length[op[p].entry.key]
      BY <3>2 DEF FileInv
    <3>4. Footprint(op[p].entry.key)' = Footprint(op[p].entry.key)
      BY <1>2, <2>1 DEF Footprint
    <3>5. data[op[p].entry.key].size <= Footprint(op[p].entry.key)
      BY <3>2, <3>3 DEF Footprint
    <3>6. QED
      BY <1>2, <2>1, <3>3, <3>4, <3>5 DEF ListedInv
  <2>3. TaskInv(p)'
    BY <1>2, <1>3, <2>1, <2>2 DEF TaskInv, InPut, BeforeData, Evicting, ListedInv, Footprint
  <2>4. Covers(p) => Covers(p)'
    BY <1>2, <1>4, <1>5, <2>1 DEF Covers, Evicting
  <2>5. QED
    BY <1>6, <2>3, <2>4
<1>9. CASE ReadCreatedAt(p)
  <2>1. PICK e : /\ e = [op[p].entry EXCEPT !.created_at = CreatedAt(op[p].entry.key)]
                 /\ op' = [op EXCEPT ![p].entries = @ \cup {e}, ![p].entry = NoEntry]
                 /\ pc[p] = "read_created_at" /\ pc'[p] = "list"
    BY <1>9, StepTypes DEF ReadCreatedAt
  <2>2. /\ op'[p].entries = op[p].entries \cup {e} /\ op'[p].unseen = op[p].unseen
        /\ e.key = op[p].entry.key /\ e.size = op[p].entry.size
    BY <2>1, StepTypes DEF Operation, Entry
  <2>3. TaskInv(p)'
    <3>1. /\ \A f \in op[p].entries : ListedInv(f)
          /\ ListedInv(op[p].entry)
      BY <1>3, <2>1 DEF TaskInv
    <3>2. ListedInv(e)
      BY <2>2, <3>1 DEF ListedInv, Footprint
    <3>3. \A f \in op'[p].entries : ListedInv(f)
      BY <2>2, <3>1, <3>2
    <3>4. \A f \in op'[p].entries : ListedInv(f)'
      BY <1>2, <3>3 DEF ListedInv, Footprint
    <3>5. QED
      BY <2>1, <3>4 DEF TaskInv, InPut, BeforeData, Evicting
  <2>4. Covers(p) => Covers(p)'
    BY <1>2, <1>4, <1>5, <2>1, <2>2 DEF Covers, Evicting
  <2>5. QED
    BY <1>6, <2>3, <2>4
<1>10. QED
  BY <1>7, <1>8, <1>9

\* A removal leaves the size on the list outstanding; what the file had beyond it is a
\* surplus.
LEMMA RemoveDataSteady ==
    ASSUME Steady, TypeOK, TypeOK', SteadyInv, NEW p \in Proc, RemoveData(p)
    PROVE  SteadyInv'
<1> USE DEF At, Goto, files, environment, cache
<1>1. /\ scan.stage = "serving" /\ scan' = scan /\ limits' = limits
      /\ \A q \in Proc \ {p} : pc'[q] = pc[q] /\ op'[q] = op[q]
  BY TaskRuns, StepIsLocal DEF SteadyInv, Step, EvictStep
<1>2. PICK e \in op[p].entries :
        /\ op' = [op EXCEPT ![p].entries = @ \ {e}, ![p].entry = e]
        /\ IF data[e.key].here
             THEN data' = [data EXCEPT ![e.key] = NoData] /\ pc' = [pc EXCEPT ![p] = "remove_meta"]
             ELSE data' = data /\ pc' = [pc EXCEPT ![p] = "remove_data"]
  BY DEF RemoveData, Oldest, Unlink
<1>3. /\ e \in Entry /\ e.key \in Key /\ e.size \in Nat
      /\ op'[p].entries = op[p].entries \ {e} /\ op'[p].entry = e
      /\ op'[p].unseen = op[p].unseen /\ op'[p].freed = op[p].freed
      /\ op'[p].current = op[p].current
  <2>1. e \in Entry
    BY StepTypes
  <2>2. QED
    BY <1>2, <2>1, StepTypes DEF Operation, Entry
<1>4. /\ pc[p] \in {"list", "remove_data"} /\ op[p].unseen = {}
      /\ UNCHANGED <<currentSize, puts>>
  <2>1. pc[p] \in {"list", "remove_data"} /\ (pc[p] = "list" => op[p].unseen = {})
    BY DEF RemoveData, Listed
  <2>2. QED
    BY <2>1 DEF RemoveData, SteadyInv, TaskInv
<1>5. TaskInv(p) /\ \A f \in op[p].entries : f \in Entry /\ ListedInv(f)
  BY StepTypes DEF SteadyInv, TaskInv
<1>6. UnsubtractedOf(p) = op[p].freed /\ UncountedOf(p) = 0 /\ OpeningOf(p) = 0
  BY <1>4, StepTypes DEF UnsubtractedOf, UncountedOf, OpeningOf
<1>7. CASE ~data[e.key].here
  <2>1. data' = data /\ pc'[p] = "remove_data"
    BY <1>2, <1>7, StepTypes
  <2>2. /\ UnsubtractedOf(p)' = UnsubtractedOf(p) /\ UncountedOf(p)' = UncountedOf(p)
        /\ OpeningOf(p)' = OpeningOf(p)
    BY <1>3, <1>6, <2>1, StepTypes DEF UnsubtractedOf, UncountedOf, OpeningOf
  <2>3. TaskInv(p)'
    <3>1. \A f \in op'[p].entries : ListedInv(f)'
      BY <1>3, <1>5, <2>1 DEF ListedInv, Footprint
    <3>2. QED
      BY <1>3, <1>4, <2>1, <3>1 DEF TaskInv, InPut, BeforeData, Evicting
  <2>4. Covers(p) => Covers(p)'
    <3>1. DiskBytes' = DiskBytes
      BY <2>1 DEF DiskBytes
    <3>2. ASSUME Covers(p), NEW k \in Key, data'[k].here
          PROVE  \E f \in op'[p].entries : f.key = k
      <4>1. PICK f \in op[p].entries : f.key = k
        BY <1>4, <2>1, <3>2 DEF Covers
      <4>2. f # e
        BY <1>7, <2>1, <3>2, <4>1
      <4>3. QED
        BY <1>3, <4>1, <4>2
    <3>3. QED
      BY <1>3, <2>1, <2>2, <3>1, <3>2 DEF Covers, Evicting
  <2>5. CoverInv'
    <3>1. DiskBytes' <= DiskBytes /\ CoverInv
      BY <2>1, DiskBytesType DEF DiskBytes, SteadyInv
    <3>2. pc[p] \in Evicting /\ ~Pending(p) /\ \A k \in Key : data'[k].here => data[k].here
      BY <1>4, <2>1 DEF Evicting, Pending, InPut
    <3>3. QED
      BY <1>1, <2>4, <3>1, <3>2, CoverStays
  <2>6. pc[p] # "write_data"
    BY <1>4
  <2>7. QED
    BY <1>1, <1>4, <2>1, <2>2, <2>3, <2>5, <2>6, Untouched
<1>8. CASE data[e.key].here
  <2>1. /\ data'[e.key] = NoData /\ pc'[p] = "remove_meta"
        /\ \A k \in Key \ {e.key} : data'[k] = data[k]
    BY <1>2, <1>3, <1>8, StepTypes
  <2>2. \A k \in Key : Grows(k)
    BY <2>1 DEF Grows, NoData
  <2>3. TaskInv(p)'
    <3>1. \A f \in op'[p].entries : ListedInv(f)'
      BY <1>3, <1>5, <2>2, ListedStays DEF Entry
    <3>2. QED
      BY <1>3, <1>4, <2>1, <3>1 DEF TaskInv, InPut, BeforeData, Evicting
  <2>4. \A q \in Proc : TaskInv(q)'
    BY <1>1, <2>2, <2>3, OthersStay DEF SteadyInv
  <2>5. ASSUME NEW k \in Key PROVE FileInv(k)'
    <3>1. FileInv(k) /\ data[k].writers \subseteq Proc
      BY StepTypes DEF SteadyInv
    <3>2. CASE k = e.key
      BY <2>1, <3>2, LengthType DEF FileInv, NoData
    <3>3. CASE k # e.key
      <4>1. p \notin data[k].writers
        BY <1>4, <3>1 DEF FileInv, On
      <4>2. QED
        BY <1>1, <2>1, <3>1, <3>3, <4>1 DEF FileInv, On
    <3>4. QED
      BY <3>2, <3>3
  <2>6. e.size <= Footprint(e.key) /\ Footprint(e.key) \in Nat
    BY <1>3, <1>5, <1>8, UnitTypes DEF ListedInv, UnitsType
  <2>7. /\ UnsubtractedOf(p)' = op[p].freed + e.size
        /\ UncountedOf(p)' = 0 /\ OpeningOf(p)' = 0
    BY <1>3, <2>1 DEF UnsubtractedOf, UncountedOf, OpeningOf
  <2>8. CountInv'
    <3> DEFINE k == e.key
    <3>1. Footprint(k)' = 0 /\ Granted' = Granted /\ Granted \in Nat
      BY <1>4, <2>1, SumTypes DEF Footprint, NoData, Granted, SumsType
    <3>2. Footprint(k) - e.size \in Nat
      BY <1>3, <2>6
    <3>3. Moves(p, k, 0 - Footprint(k), e.size, 0, 0, 0, Footprint(k) - e.size, 0)
      BY <1>3, <1>4, <1>6, <2>6, <2>7, <3>1, <3>2, StepTypes, CounterKept DEF Moves
    <3>4. CountInv /\ k \in Key /\ \A l \in Key \ {k} : data'[l] = data[l]
      BY <1>3, <2>1 DEF SteadyInv
    <3> HIDE DEF k
    <3>5. QED
      BY <1>1, <3>3, <3>4, CountStep
  <2>9. CoverInv'
    <3>1. CASE \E q \in Proc : Pending(q)
      <4>1. PICK q \in Proc : Pending(q)
        BY <3>1
      <4>2. q # p
        BY <1>4, <4>1 DEF Pending, InPut
      <4>3. QED
        BY <1>1, <4>1, <4>2 DEF CoverInv, Pending
    <3>2. CASE \A q \in Proc : ~Pending(q)
      <4>1. data[e.key].writers = {}
        <5>1. FileInv(e.key) /\ data[e.key].writers \subseteq Proc
          BY <1>3, StepTypes DEF SteadyInv
        <5>2. QED
          BY <3>2, <5>1 DEF FileInv, On, Pending, InPut
      <4>2. e.size <= data[e.key].size /\ data[e.key].size \in Nat
        BY <1>3, <2>6, <4>1, StepTypes DEF Footprint
      <4>3. DiskBytes \in Nat /\ DiskBytes' = DiskBytes - data[e.key].size
        <5>1. DiskBytes' = DiskBytes - data[e.key].size + data'[e.key].size
          BY <1>3, <2>1, DiskBytesStep
        <5>2. data'[e.key].size = 0 /\ DiskBytes \in Nat
          BY <2>1, DiskBytesType DEF NoData
        <5>3. DiskBytes - data[e.key].size + 0 = DiskBytes - data[e.key].size
          BY <4>2, <5>2
        <5>4. QED
          BY <5>1, <5>2, <5>3
      <4>4. DiskBytes' <= DiskBytes
        BY <4>2, <4>3
      <4>5. Covers(p) => Covers(p)'
        <5>1. ASSUME Covers(p), NEW k \in Key, data'[k].here
              PROVE  \E f \in op'[p].entries : f.key = k
          <6>1. k # e.key /\ data[k].here
            BY <2>1, <5>1 DEF NoData
          <6>2. PICK f \in op[p].entries : f.key = k
            BY <1>4, <5>1, <6>1 DEF Covers
          <6>3. QED
            BY <1>3, <6>1, <6>2
        <5>2. ASSUME Covers(p) PROVE DiskBytes' + UnsubtractedOf(p)' <= op'[p].current
          <6>1. DiskBytes + op[p].freed <= op[p].current
            BY <1>6, <5>2 DEF Covers
          <6>2. (DiskBytes - data[e.key].size) + (op[p].freed + e.size) <= op[p].current
            BY <1>3, <4>2, <4>3, <6>1, StepTypes
          <6>3. QED
            BY <1>3, <2>7, <4>3, <6>2
        <5>3. QED
          BY <2>1, <5>1, <5>2 DEF Covers, Evicting
      <4>6. /\ pc[p] \in Evicting /\ ~Pending(p) /\ CoverInv
            /\ \A k \in Key : data'[k].here => data[k].here
        BY <1>4, <2>1 DEF Evicting, Pending, InPut, SteadyInv, NoData
      <4>7. QED
        BY <1>1, <4>4, <4>5, <4>6, CoverStays
    <3>3. QED
      BY <3>1, <3>2
  <2>10. QED
    BY <1>1, <2>4, <2>5, <2>8, <2>9 DEF SteadyInv, StartInv
<1>9. QED
  BY <1>7, <1>8

\* The freed bytes stay outstanding.
LEMMA RemoveMetaSteady ==
    ASSUME Steady, TypeOK, TypeOK', SteadyInv, NEW p \in Proc, RemoveMeta(p)
    PROVE  SteadyInv'
<1> USE DEF At, Goto, files, environment, cache
<1>1. /\ scan.stage = "serving" /\ scan' = scan /\ limits' = limits
      /\ \A q \in Proc \ {p} : pc'[q] = pc[q] /\ op'[q] = op[q]
  BY TaskRuns, StepIsLocal DEF SteadyInv, Step, EvictStep
<1>2. /\ UNCHANGED <<data, currentSize, puts>>
      /\ pc[p] = "remove_meta" /\ pc'[p] = "remove_data"
      /\ op'[p].freed = op[p].freed + op[p].entry.size
      /\ op'[p].entries = op[p].entries /\ op'[p].unseen = op[p].unseen
      /\ op'[p].current = op[p].current
  BY StepTypes DEF RemoveMeta, Operation
<1>3. TaskInv(p) /\ op[p].unseen = {}
  BY <1>2 DEF SteadyInv, TaskInv
<1>4. TaskInv(p)'
  BY <1>2, <1>3 DEF TaskInv, InPut, BeforeData, Evicting, ListedInv, Footprint
<1>5. /\ UnsubtractedOf(p)' = UnsubtractedOf(p) /\ UncountedOf(p)' = UncountedOf(p)
      /\ OpeningOf(p)' = OpeningOf(p)
  BY <1>2, StepTypes DEF UnsubtractedOf, UncountedOf, OpeningOf
<1>6. CoverInv'
  <2>1. DiskBytes' = DiskBytes /\ DiskBytes' <= DiskBytes /\ CoverInv
    BY <1>2, DiskBytesType DEF DiskBytes, SteadyInv
  <2>2. Covers(p) => Covers(p)'
    BY <1>2, <1>5, <2>1 DEF Covers, Evicting
  <2>3. pc[p] \in Evicting /\ ~Pending(p) /\ \A k \in Key : data'[k].here => data[k].here
    BY <1>2 DEF Evicting, Pending, InPut
  <2>4. QED
    BY <1>1, <2>1, <2>2, <2>3, CoverStays
<1>7. pc[p] # "write_data"
  BY <1>2
<1>8. QED
  BY <1>1, <1>2, <1>4, <1>5, <1>6, <1>7, Untouched

\* The counter moves by what the eviction had outstanding.
LEMMA SubtractFreedSteady ==
    ASSUME Steady, TypeOK, TypeOK', SteadyInv, NEW p \in Proc, SubtractFreed(p)
    PROVE  SteadyInv'
<1> USE DEF At, Goto, files, environment, cache
<1>1. /\ scan.stage = "serving" /\ scan' = scan /\ limits' = limits
      /\ \A q \in Proc \ {p} : pc'[q] = pc[q] /\ op'[q] = op[q]
  BY TaskRuns, StepIsLocal DEF SteadyInv, Step, EvictStep
<1>2. /\ UNCHANGED <<data, puts>> /\ op'[p] = NoOperation
      /\ currentSize' = (currentSize - op[p].freed) % Wrap
      /\ pc[p] \in {"list", "remove_data"} /\ pc'[p] = "idle" /\ op[p].freed \in Nat
  BY StepTypes DEF SubtractFreed, Listed, Finish, Sub
<1>3. TaskInv(p)'
  BY <1>2 DEF TaskInv, InPut, BeforeData, Evicting, NoOperation
<1>4. \A q \in Proc : TaskInv(q)'
  BY <1>1, <1>2, <1>3, OthersStay DEF SteadyInv, Grows
<1>5. ASSUME NEW l \in Key PROVE FileInv(l)'
  <2>1. FileInv(l) /\ data[l].writers \subseteq Proc
    BY StepTypes DEF SteadyInv
  <2>2. p \notin data[l].writers
    BY <1>2, <2>1 DEF FileInv, On
  <2>3. QED
    BY <1>1, <1>2, <2>1, <2>2 DEF FileInv, On
<1>6. CountInv'
  <2> PICK k \in Key : TRUE
    BY KeyAssumption
  <2>1. /\ Footprint(k)' = Footprint(k) /\ Granted' = Granted
        /\ UnsubtractedOf(p) = op[p].freed /\ UncountedOf(p) = 0 /\ OpeningOf(p) = 0
    BY <1>2 DEF Footprint, Granted, UnsubtractedOf, UncountedOf, OpeningOf
  <2>2. UnsubtractedOf(p)' = 0 /\ UncountedOf(p)' = 0 /\ OpeningOf(p)' = 0
    BY <1>2 DEF UnsubtractedOf, UncountedOf, OpeningOf, NoOperation
  <2>3. Footprint(k) \in Nat /\ Granted \in Nat
    BY <1>2, UnitTypes, SumTypes DEF UnitsType, SumsType
  <2>4. currentSize' = (currentSize + (0 - op[p].freed)) % Wrap
    <3>1. currentSize \in Int /\ currentSize - op[p].freed = currentSize + (0 - op[p].freed)
      BY <1>2, BoundAssumption DEF TypeOK
    <3>2. QED
      BY <1>2, <3>1
  <2>5. Moves(p, k, 0, 0 - op[p].freed, 0, 0, 0, 0, 0 - op[p].freed)
    BY <1>2, <2>1, <2>2, <2>3, <2>4 DEF Moves
  <2>6. CountInv
    BY DEF SteadyInv
  <2>7. QED
    BY <1>1, <1>2, <2>5, <2>6, CountStep
<1>7. CoverInv'
  <2>1. DiskBytes' = DiskBytes /\ DiskBytes' <= DiskBytes /\ CoverInv
    BY <1>2, DiskBytesType DEF DiskBytes, SteadyInv
  <2>2. Covers(p) => DiskBytes' <= limits.max_size
    BY <2>1, CoveredEnds
  <2>3. /\ pc'[p] \notin Evicting /\ ~Pending(p)
        /\ \A k \in Key : data'[k].here => data[k].here
    BY <1>2 DEF Evicting, Pending, InPut
  <2>4. QED
    BY <1>1, <2>1, <2>2, <2>3, CoverStays
<1>8. QED
  BY <1>1, <1>4, <1>5, <1>6, <1>7 DEF SteadyInv, StartInv

-----------------------------------------------------------------------------
(* The scan, a kill and the clock                                          *)

\* Nothing moves but the clock and the scan.
LEMMA StillSteady ==
    ASSUME Steady, TypeOK, TypeOK', SteadyInv,
           UNCHANGED <<data, pc, op, currentSize, puts, limits>>,
           scan'.stage = scan.stage, StartInv'
    PROVE  SteadyInv'
<1>1. \A k \in Key : FileInv(k)'
  BY DEF SteadyInv, FileInv, On
<1>2. \A p \in Proc : TaskInv(p)'
  BY DEF SteadyInv, TaskInv, At, ListedInv, Footprint
<1>3. /\ Ledger' = Ledger /\ Room' = Room
  BY DEF Ledger, Room, Claimed, Unsubtracted, Uncounted, Granted, Opening, Footprint,
         UncountedOf, UnsubtractedOf, OpeningOf, At
<1>4. CountInv'
  BY <1>3 DEF SteadyInv, CountInv
<1>5. CoverInv'
  BY DEF SteadyInv, CoverInv, Pending, Covers, UnsubtractedOf, DiskBytes, At
<1>6. QED
  BY <1>1, <1>2, <1>4, <1>5 DEF SteadyInv

\* The scan adds up one file more.
LEMMA ScanEntrySteady ==
    ASSUME Steady, TypeOK, TypeOK', SteadyInv, NEW k \in Key, ScanEntry(k)
    PROVE  SteadyInv'
<1>1. /\ UNCHANGED <<data, pc, op, currentSize, puts, limits>> /\ k \in scan.left
      /\ scan'.stage = scan.stage /\ scan'.limits = scan.limits
      /\ scan'.left = scan.left \ {k} /\ scan'.total = scan.total + data[k].size
  BY DEF ScanEntry, files, control, TypeOK, Scanning
<1>2. StartInv'
  <2> DEFINE f == [l \in Key |-> Scanned(l)]
             g == [l \in Key |-> Scanned(l)']
  <2>1. UnitsType /\ UnitsType'
    BY UnitTypes, PTL
  <2>2. f \in [Key -> Nat] /\ g \in [Key -> Nat] /\ data[k].size \in Nat
    BY <2>1 DEF UnitsType, TypeOK, DataFile
  <2>3. /\ \A l \in Key \ {k} : g[l] = f[l]
        /\ f[k] = 0 /\ g[k] = data[k].size
    BY <1>1 DEF Scanned
  <2>4. Total(g) = Total(f) + data[k].size
    <3>1. Total(g) = Total(f) - f[k] + g[k] /\ Total(f) \in Nat
      <4> HIDE DEF f, g
      <4> QED BY <2>2, <2>3, KeyAssumption, TotalUpdate, UnitsFinite
    <3> HIDE DEF f, g
    <3>2. QED
      BY <2>2, <2>3, <3>1
  <2>5. scan.stage = "startup" => scan'.total = Total(g)
    BY <1>1, <2>4 DEF SteadyInv, StartInv
  <2>6. Total([l \in Key |-> Scanned(l)])' = Total(g)
    OBVIOUS
  <2>7. QED
    BY <1>1, <2>5, <2>6 DEF SteadyInv, StartInv, At
<1>3. QED
  BY <1>1, <1>2, StillSteady

\* While nobody is at work nothing is outstanding.
LEMMA NothingOutstanding ==
    ASSUME TypeOK, \A p \in Proc : pc[p] = "idle" /\ op[p].freed = 0
    PROVE  Uncounted = 0 /\ Unsubtracted = 0 /\ Opening = 0
<1>1. \A p \in Proc : UncountedOf(p) = 0 /\ UnsubtractedOf(p) = 0 /\ OpeningOf(p) = 0
  BY DEF UncountedOf, UnsubtractedOf, OpeningOf, At
<1>2. /\ [p \in Proc |-> UncountedOf(p)] \in [Proc -> Nat]
      /\ [p \in Proc |-> UnsubtractedOf(p)] \in [Proc -> Nat]
      /\ [p \in Proc |-> OpeningOf(p)] \in [Proc -> Nat]
  BY <1>1
<1>3. QED
  BY <1>1, <1>2, TotalZero DEF Uncounted, Unsubtracted, Opening

\* The first count is the scan's, which is exact: nobody is at work.
LEMMA ScanStoreSteady ==
    ASSUME Steady, TypeOK, TypeOK', SteadyInv, ScanStore
    PROVE  SteadyInv'
<1>1. /\ UNCHANGED <<data, pc, op, puts>> /\ limits' = scan.limits
      /\ scan.left = {} /\ scan.stage = "startup" /\ currentSize' = scan.total % Wrap
      /\ scan'.stage = "serving" /\ scan'.limits = scan.limits
  BY DEF ScanStore, Open, files, control, TypeOK, Scanning
<1>2. \A p \in Proc : pc[p] = "idle" /\ op[p].freed = 0
  BY <1>1 DEF SteadyInv, StartInv, At, TaskInv, Evicting
<1>3. \A k \in Key : FileInv(k)'
  BY <1>1 DEF SteadyInv, FileInv, On
<1>4. \A p \in Proc : TaskInv(p)'
  BY <1>1 DEF SteadyInv, TaskInv, At, ListedInv, Footprint
<1>5. StartInv'
  BY <1>1 DEF SteadyInv, StartInv
<1>6. scan.total = Claimed
  <2>1. ASSUME NEW k \in Key PROVE Scanned(k) = Footprint(k)
    <3>1. data[k].writers = {}
      BY <1>2, StepTypes DEF SteadyInv, FileInv, On, TypeOK, DataFile
    <3>2. QED
      BY <1>1, <3>1 DEF Scanned, Footprint
  <2>2. [k \in Key |-> Scanned(k)] = [k \in Key |-> Footprint(k)]
    BY <2>1
  <2>3. QED
    BY <1>1, <2>2 DEF SteadyInv, StartInv, Claimed
<1>7. CountInv'
  <2>1. /\ Ledger' = Ledger /\ Room' = Room
    BY <1>1
    DEF Ledger, Room, Claimed, Unsubtracted, Uncounted, Granted, Opening, Footprint,
        UncountedOf, UnsubtractedOf, OpeningOf, At
  <2>2. SumsType /\ Uncounted = 0 /\ Unsubtracted = 0
    BY <1>2, SumTypes, NothingOutstanding
  <2>3. Ledger + 0 = scan.total
    BY <1>6, <2>2 DEF Ledger, SumsType
  <2>4. 0 <= Room
    BY <2>2 DEF SteadyInv, CountInv, SumsType
  <2>5. 0 <= Room' /\ currentSize' = (Ledger' + 0) % Wrap
    BY <1>1, <2>1, <2>3, <2>4
  <2>6. QED
    BY <2>5 DEF CountInv
<1>8. CoverInv'
  BY <1>1, <1>2 DEF CoverInv, Evicting
<1>9. QED
  BY <1>3, <1>4, <1>5, <1>7, <1>8 DEF SteadyInv

\* A kill leaves files no longer than they would become, and nothing outstanding.
LEMMA CrashSteady ==
    ASSUME Steady, TypeOK, TypeOK', SteadyInv, Crash
    PROVE  SteadyInv'
<1>1. /\ puts' = puts
      /\ \A p \in Proc : pc'[p] = "idle" /\ op'[p] = NoOperation
  BY DEF Crash
<1>f. ASSUME NEW k \in Key
      PROVE  /\ data'[k].here = data[k].here /\ data'[k].writers = {}
             /\ data'[k].size \in Nat /\ data'[k].size <= Footprint(k)
             /\ data'[k].size \in 0 .. Length[k] /\ (~data'[k].here => data'[k].size = 0)
  <2>1. PICK p \in Proc, l \in Key : \E f \in Interrupted(p, l) :
          data' = [m \in Key |-> [IF m = l THEN f ELSE data[m] EXCEPT !.writers = {}]]
    BY DEF Crash
  <2>2. PICK f \in Interrupted(p, l) :
          data' = [m \in Key |-> [IF m = l THEN f ELSE data[m] EXCEPT !.writers = {}]]
    BY <2>1
  <2>3. /\ data[k] \in DataFile /\ data[l] \in DataFile /\ FileInv(k) /\ TaskInv(p)
        /\ Length[k] \in Nat
    BY LengthType DEF TypeOK, SteadyInv
  <2>4. CASE k # l \/ f = data[l]
    <3>1. data'[k].here = data[k].here /\ data'[k].writers = {} /\ data'[k].size = data[k].size
      BY <2>2, <2>3, <2>4 DEF DataFile
    <3>2. QED
      BY <2>3, <3>1 DEF FileInv, Footprint
  <2>5. CASE k = l /\ f # data[l]
    <3>1. Writing(p, k) /\ f \in CutShort(data[k], op[p].content)
      BY <2>5 DEF Interrupted
    <3>2. SizeOf[op[p].content] = Length[k]
      BY <2>3, <3>1 DEF Writing, TaskInv, BeforeData
    <3>3. PICK n \in 1 .. Length[k] - 1 :
            f = [data[k] EXCEPT !.content = IF @ = op[p].content THEN @ ELSE Mixed,
                                !.size = IF n > @ THEN n ELSE @]
      BY <3>1, <3>2 DEF CutShort
    <3>4. f.here = data[k].here /\ f.size = IF n > data[k].size THEN n ELSE data[k].size
      BY <2>3, <3>3 DEF DataFile
    <3>5. data'[k] = [f EXCEPT !.writers = {}]
      BY <2>2, <2>5
    <3>6. data'[k].here = data[k].here /\ data'[k].writers = {} /\ data'[k].size = f.size
      BY <2>3, <3>3, <3>4, <3>5 DEF DataFile
    <3>7. data[k].writers # {} /\ data[k].here
      BY <2>3, <3>1 DEF Writing, FileInv
    <3>8. QED
      BY <2>3, <3>4, <3>6, <3>7 DEF FileInv, Footprint
  <2>6. QED
    BY <2>4, <2>5
<1>2. PICK new \in Changes \cup {Startup} : limits' = new /\ scan' = Rescan("startup", new)
  BY DEF Crash
<1>3. /\ scan'.stage = "startup" /\ scan'.limits = new /\ scan'.left = Key /\ scan'.total = 0
  BY <1>2 DEF Rescan
<1>4. \A k \in Key : FileInv(k)'
  BY <1>f DEF FileInv
<1>5. \A p \in Proc : TaskInv(p)'
  BY <1>1, Cleared DEF TaskInv, InPut, BeforeData, Evicting, At
<1>6. StartInv'
  <2>1. \A k \in Key : Scanned(k)' = 0
    BY <1>3 DEF Scanned
  <2>2. Total([k \in Key |-> Scanned(k)])' = 0
    <3> DEFINE g == [k \in Key |-> Scanned(k)']
    <3>1. g \in [Key -> Nat] /\ \A k \in Key : g[k] = 0
      BY <2>1
    <3>2. Total(g) = 0
      <4> HIDE DEF g
      <4> QED BY <3>1, TotalZero
    <3>3. QED
      BY <3>2
  <2>3. QED
    BY <1>1, <1>2, <1>3, <2>2 DEF StartInv, At
<1>7. CountInv'
  <2>1. SumsType /\ SumsType'
    BY SumTypes, PTL
  <2>2. /\ Unsubtracted' = 0 /\ Opening' = 0
    <3>1. \A p \in Proc : pc'[p] = "idle" /\ op'[p].freed = 0
      BY <1>1, Cleared
    <3>2. \A p \in Proc : UnsubtractedOf(p)' = 0 /\ OpeningOf(p)' = 0
      BY <3>1 DEF UnsubtractedOf, OpeningOf, At
    <3> DEFINE u == [p \in Proc |-> UnsubtractedOf(p)']
               o == [p \in Proc |-> OpeningOf(p)']
    <3>3. /\ u \in [Proc -> Nat] /\ \A p \in Proc : u[p] = 0
          /\ o \in [Proc -> Nat] /\ \A p \in Proc : o[p] = 0
      BY <3>2
    <3>4. Total(u) = 0 /\ Total(o) = 0
      <4> HIDE DEF u, o
      <4> QED BY <3>3, TotalZero
    <3>5. QED
      BY <3>4 DEF Unsubtracted, Opening
  <2>3. Claimed' <= Claimed /\ Granted' = Granted
    <3> DEFINE f == [k \in Key |-> Footprint(k)']
               g == [k \in Key |-> Footprint(k)]
    <3>1. UnitsType /\ UnitsType'
      BY UnitTypes, PTL
    <3>2. \A k \in Key : Footprint(k)' <= Footprint(k)
      BY <1>f DEF Footprint
    <3>3. f \in [Key -> Nat] /\ g \in [Key -> Nat] /\ \A k \in Key : f[k] <= g[k]
      BY <3>1, <3>2 DEF UnitsType
    <3>4. Total(f) <= Total(g)
      <4> HIDE DEF f, g
      <4> QED BY <3>3, KeyAssumption, TotalMonotone
    <3>5. QED
      BY <1>1, <3>4 DEF Claimed, Granted
  <2>4. 0 <= Room'
    <3>1. 0 <= Room
      BY <2>1 DEF SteadyInv, CountInv, SumsType
    <3>2. Room' = Granted - Claimed' - 0 - 0
      BY <2>2, <2>3 DEF Room
    <3> DEFINE claimed == Claimed'
    <3>3. /\ claimed \in Nat /\ claimed <= Claimed /\ Claimed \in Nat /\ Granted \in Nat
          /\ Unsubtracted \in Nat /\ Opening \in Nat
          /\ 0 <= Granted - Claimed - Unsubtracted - Opening
      BY <2>1, <2>3, <3>1 DEF SumsType, Room
    <3>4. 0 <= Granted - claimed - 0 - 0
      <4> HIDE DEF claimed
      <4> QED BY <3>3
    <3>5. QED
      BY <3>2, <3>4
  <2>5. QED
    BY <1>3, <2>4 DEF CountInv
<1>8. CoverInv'
  BY <1>3 DEF CoverInv
<1>9. QED
  BY <1>4, <1>5, <1>6, <1>7, <1>8 DEF SteadyInv

-----------------------------------------------------------------------------
(* The theorems                                                            *)

\* Every step preserves the invariant.
LEMMA SteadyStep ==
    ASSUME Steady, TypeOK, TypeOK', SteadyInv, [Next]_vars
    PROVE  SteadyInv'
<1>1. ASSUME NEW p \in Proc, Lookup(p) \/ Step(p) PROVE SteadyInv'
  <2>1. ASSUME PutStep(p) PROVE SteadyInv'
    BY <2>1, GetSteady, PutSteady, OpenDataSteady, WriteDataSteady, MetaSteady, CountSteady
    DEF PutStep
  <2>2. ASSUME EvictStep(p) PROVE SteadyInv'
    BY <2>2, LoadSizeSteady, WalkSteady, RemoveDataSteady, RemoveMetaSteady,
       SubtractFreedSteady DEF EvictStep
  <2>3. QED
    BY <1>1, <2>1, <2>2, GetSteady DEF Step
<1>2. CASE Scan
  <2>1. ~Publish
    BY DEF Publish, SteadyInv, StartInv
  <2>2. QED
    BY <1>2, <2>1, ScanEntrySteady, ScanStoreSteady DEF Scan
<1>3. CASE Tick \/ UNCHANGED vars
  <2>1. UNCHANGED <<data, pc, op, currentSize, puts, limits, scan>>
    BY <1>3 DEF Tick, vars, files, control, cache
  <2>2. StartInv'
    BY <2>1 DEF SteadyInv, StartInv, At, Scanned
  <2>3. QED
    BY <2>1, <2>2, StillSteady
<1>4. ~Reopen /\ \A p \in Proc : ~Fault(p)
  BY DEF Steady, TypeOK, Reopen, Fault, PutFails, RemovalFails, ReadFails
<1>5. QED
  BY <1>1, <1>2, <1>3, <1>4, CrashSteady DEF Next

\* An empty cache satisfies it.
LEMMA SteadyInit ==
    ASSUME Steady, Init
    PROVE  SteadyInv
<1>1. /\ \A k \in Key : data[k] = NoData /\ puts[k] = 0
      /\ \A p \in Proc : pc[p] = "idle" /\ op[p] = NoOperation
      /\ limits = Startup /\ scan = Rescan("startup", Startup)
  BY DEF Init
<1>2. /\ scan.stage = "startup" /\ scan.left = Key /\ scan.total = 0 /\ scan.limits = Startup
  BY <1>1 DEF Rescan
<1>3. TypeOK
  BY InitType
<1>4. \A k \in Key : FileInv(k)
  BY <1>1, LengthType DEF FileInv, NoData
<1>5. \A p \in Proc : TaskInv(p)
  BY <1>1, Cleared DEF TaskInv, InPut, BeforeData, Evicting, At
<1>6. StartInv
  <2>1. [k \in Key |-> Scanned(k)] \in [Key -> Nat] /\ \A k \in Key : Scanned(k) = 0
    BY <1>2 DEF Scanned
  <2>2. Total([k \in Key |-> Scanned(k)]) = 0
    BY <2>1, TotalZero
  <2>3. QED
    BY <1>1, <1>2, <2>2 DEF StartInv, At
<1>7. CountInv
  <2>1. Claimed = 0
    <3>1. [k \in Key |-> Footprint(k)] \in [Key -> Nat] /\ \A k \in Key : Footprint(k) = 0
      BY <1>1 DEF Footprint, NoData
    <3>2. QED
      BY <3>1, TotalZero DEF Claimed
  <2>2. Unsubtracted = 0 /\ Opening = 0
    BY <1>1, <1>3, Cleared, NothingOutstanding
  <2>3. Granted \in Nat
    BY <1>3, SumTypes DEF SumsType
  <2>4. 0 <= Room
    BY <2>1, <2>2, <2>3 DEF Room
  <2>5. QED
    BY <1>2, <2>4 DEF CountInv
<1>8. CoverInv
  BY <1>2 DEF CoverInv
<1>9. QED
  BY <1>4, <1>5, <1>6, <1>7, <1>8 DEF SteadyInv

\* What is known of files, tasks, counter and evictions is an invariant.
LEMMA SteadyInductive ==
    ASSUME Steady
    PROVE  Spec => [](TypeOK /\ SteadyInv)
<1>1. Init => SteadyInv
  BY SteadyInit
<1>2. TypeOK /\ TypeOK' /\ SteadyInv /\ [Next]_vars => SteadyInv'
  BY SteadyStep
<1>3. QED
  BY <1>1, <1>2, TypeCorrect, PTL DEF Spec

\* However many tasks look up, put and evict side by side, and whenever the process is
\* killed and started again, every byte on the disk is in the counter or about to be added
\* to it by the put that wrote it.
THEOREM NeverUndercountsBytes ==
    ASSUME Steady
    PROVE  Spec => []NeverUndercounts
<1>1. TypeOK /\ SteadyInv => NeverUndercounts
  BY CountedAhead DEF SteadyInv, NeverUndercounts
<1>2. QED
  BY <1>1, SteadyInductive, PTL

\* And the last of the puts that run at once leaves the files within the limit: either the
\* counter told it that they are, or its eviction, or one beside it, had them all listed.
THEOREM LastPutLeavesLimit ==
    ASSUME Steady
    PROVE  Spec => LastPutRestoresLimit
<1> DEFINE Ends == \A p \in Proc :
              /\ pc[p] \in {"load", "list", "remove_data"} /\ pc'[p] = "idle" /\ Serving'
              /\ \A q \in Proc \ {p} : ~PutsOrEvicts(q)
              => DiskBytes <= limits.max_size
<1>1. TypeOK /\ SteadyInv /\ [Next]_vars => [Ends]_vars
  <2> SUFFICES ASSUME Steady, TypeOK, SteadyInv, Next, NEW p \in Proc,
                      pc[p] \in {"load", "list", "remove_data"}, pc'[p] = "idle", Serving',
                      \A q \in Proc \ {p} : ~PutsOrEvicts(q)
               PROVE  DiskBytes <= limits.max_size
    OBVIOUS
  <2>1. \A q \in Proc \ {p} : pc[q] \notin InPut \cup {"load"} \cup Evicting
    BY DEF PutsOrEvicts, Outside, InPut, Evicting, TypeOK
  <2>2. LoadSize(p) \/ SubtractFreed(p)
    <3>1. pc'[p] # pc[p]
      OBVIOUS
    <3>2. ~Crash
      BY DEF Crash, Serving, Rescan
    <3>3. \A q \in Proc : ~Fault(q)
      BY DEF Steady, TypeOK, Fault, PutFails, RemovalFails, ReadFails
    <3>4. ~Scan /\ ~Reopen /\ ~Tick
      BY <3>1 DEF Scan, ScanEntry, ScanStore, Publish, Open, Reopen, Tick, control
    <3>5. Lookup(p) \/ Step(p)
      BY <3>1, <3>2, <3>3, <3>4, StepIsLocal DEF Next
    <3>6. ~Lookup(p) /\ ~GetStep(p) /\ ~PutStep(p)
      BY DEF At, Lookup, GetMisses, GetFindsFresh, GetFindsExpired, GetStep, ExpireData,
             ExpireMeta, ExpireCount, ReadData, ServeHit, PutStep, GiveUp, Put, OpenData,
             WriteData, OpenMeta, WriteMeta, Count
    <3>7. ~(\E k \in Key : ListName(p, k)) /\ ~RemoveData(p)
      BY <3>1 DEF ListName, RemoveData, At, Goto, TypeOK
    <3>8. ~StatEntry(p) /\ ~ReadCreatedAt(p) /\ ~RemoveMeta(p)
      BY DEF StatEntry, ReadCreatedAt, RemoveMeta, At
    <3>9. QED
      BY <3>5, <3>6, <3>7, <3>8 DEF Step, EvictStep
  <2>3. scan.stage = "serving"
    BY <2>2, TaskRuns DEF SteadyInv, Step, EvictStep
  <2>4. CASE LoadSize(p)
    <3>1. currentSize <= limits.max_size
      BY <2>4 DEF LoadSize, Goto, TypeOK
    <3>2. \A q \in Proc : pc[q] \notin InPut
      BY <2>1 DEF InPut
    <3>3. DiskBytes <= currentSize
      BY <2>3, <3>2, AloneSeesAll
    <3>4. DiskBytes \in Nat /\ currentSize \in Nat /\ limits.max_size \in Nat
      BY DiskBytesType, StepTypes, BoundAssumption DEF TypeOK
    <3>5. QED
      BY <3>1, <3>3, <3>4
  <2>5. CASE SubtractFreed(p)
    <3>1. pc[p] \in {"list", "remove_data"}
      BY <2>5 DEF SubtractFreed, Listed, At
    <3>2. \A q \in Proc : ~Pending(q) /\ (Covers(q) => q = p)
      BY <2>1, <3>1 DEF Pending, Covers, InPut
    <3>3. Covers(p) \/ DiskBytes <= limits.max_size
      BY <2>3, <3>1, <3>2 DEF SteadyInv, CoverInv, Evicting
    <3>4. QED
      BY <2>5, <3>3, CoveredEnds
  <2>6. QED
    BY <2>2, <2>4, <2>5
<1>2. QED
  BY <1>1, SteadyInductive, PTL DEF Spec, LastPutRestoresLimit
=============================================================================
