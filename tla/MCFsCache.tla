----------------------------- MODULE MCFsCache -----------------------------
(* Small instances of the cache for TLC. *)
EXTENDS FsCacheRequirements, TLC
CONSTANTS k1, k2, k3, small, large

\* Images of two and three bytes.
MCSizeOf == (small :> 2) @@ (large :> 3)

\* Every key has one rendition: the same source image converts to the same bytes.
MCOneRendition == [k \in Key |-> IF k = k1 THEN {large} ELSE {small}]

\* The source image of k1 changes between conversions.
MCChangingRendition == [k \in Key |-> IF k = k1 THEN {small, large} ELSE {small}]

\* The settings file is edited before a restart: the limit is lowered.
MCTighter == {[max_size |-> MaxSize - 1, ttl |-> Ttl]}

\* A Configure gives entries more time, and room for the large image.
MCRoomier == {[max_size |-> MaxSize + 1, ttl |-> Ttl + 1]}

\* A Configure gives entries more time and leaves the limit.
MCLonger == {[max_size |-> MaxSize, ttl |-> Ttl + 1]}

Symmetry == Permutations(Proc)
=============================================================================
