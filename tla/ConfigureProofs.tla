-------------------------- MODULE ConfigureProofs --------------------------
(***************************************************************************)
(* Proofs about Configure, for any connections, blocks and settings.       *)
(***************************************************************************)
EXTENDS Configure, TLAPS

Busy == {"build", "insert", "retain", "patterns", "cache", "config"}

\* Past configure_lock.
Locked == {"check"} \cup Busy

Shape ==
    /\ stage \in [Conn -> {"idle", "done"} \cup Locked]
    /\ new = [c \in Conn |-> new[c]]
    /\ changed = [c \in Conn |-> changed[c]]
    /\ outcome = [c \in Conn |-> outcome[c]]
    /\ holder \in SUBSET Conn

\* Whoever is past configure_lock holds it, alone, and what it is about to
\* publish is its block over the settings that are active still: valid settings,
\* as are those.
Serialized ==
    /\ Valid(config)
    /\ \A c \in Conn : stage[c] \in Locked => holder = {c}
    /\ \A c \in Conn : stage[c] \in Busy =>
          /\ new[c] = Merge(config, block[c]) /\ Valid(new[c])
          /\ changed[c] = Changed(config, new[c])

\* What the holder of the lock has published so far, and nothing else.
Progress ==
    /\ holder = {} =>
          /\ patterns = config.passthrough
          /\ converters = Formats(config)
          /\ cache = Directory(config)
    /\ \A c \in Conn :
          /\ stage[c] \in {"check", "build", "insert", "retain", "patterns"} => patterns = config.passthrough
          /\ stage[c] \in {"cache", "config"} => patterns = new[c].passthrough
          /\ stage[c] \in {"check", "build", "insert"} => converters = Formats(config)
          /\ stage[c] = "retain" => converters = Formats(config) \cup Formats(new[c])
          /\ stage[c] \in {"patterns", "cache", "config"} => converters = Formats(new[c])
          /\ stage[c] \in {"check", "build", "insert", "retain", "patterns", "cache"} =>
                cache = Directory(config)
          /\ stage[c] = "config" => cache = Directory(new[c])

\* The lock is free, or its one holder is between check and config.
LockHeld == holder = {} \/ \E c \in Conn : holder = {c} /\ stage[c] \in Locked

ConfigureInv == Shape /\ Serialized /\ LockHeld /\ Progress

\* The same formats need the same converters, the same cache block the same cache.
LEMMA SameParts ==
    ASSUME NEW s, NEW t
    PROVE  /\ s.formats = t.formats => Formats(s) = Formats(t)
           /\ s.cache = t.cache => Directory(s) = Directory(t)
BY DEF Formats, Directory

\* The settings the agent starts with are published in all four places.
LEMMA InitInv == ConfigureInit => ConfigureInv
BY InitialAssumption DEF ConfigureInit, ConfigureInv, Shape, Serialized, LockHeld, Progress, Busy, Locked

\* Every step keeps each connection at a step of apply_config.
LEMMA ShapeStep == Shape /\ [ConfigureNext]_configureVars => Shape'
<1> SUFFICES ASSUME Shape, [ConfigureNext]_configureVars PROVE Shape'
  OBVIOUS
<1> USE DEF Shape, Step, Return, Busy, Locked, settings
<1>1. ASSUME NEW c \in Conn, RefuseValue(c) \/ Lock(c) \/ Refuse(c) \/ Ignore(c) \/ Begin(c)
      PROVE  Shape'
  BY <1>1 DEF RefuseValue, Lock, Refuse, Ignore, Begin
<1>2. ASSUME NEW c \in Conn, Build(c) \/ BuildFails(c) PROVE Shape'
  BY <1>2 DEF Build, BuildFails
<1>3. ASSUME NEW c \in Conn, InsertConverters(c) \/ RetainConverters(c) PROVE Shape'
  BY <1>3 DEF InsertConverters, RetainConverters
<1>4. ASSUME NEW c \in Conn, PublishPatterns(c) \/ PublishCache(c) \/ PublishConfig(c)
      PROVE  Shape'
  BY <1>4 DEF PublishPatterns, PublishCache, PublishConfig
<1>5. CASE UNCHANGED configureVars
  BY <1>5 DEF configureVars
<1>6. QED
  BY <1>1, <1>2, <1>3, <1>4, <1>5 DEF ConfigureNext, ApplyConfig

\* Every step of apply_config preserves the invariant: the holder of the lock
\* publishes one place after the other, and nobody else changes the settings.
LEMMA InvStep == ConfigureInv /\ [ConfigureNext]_configureVars => ConfigureInv'
<1> SUFFICES ASSUME ConfigureInv, [ConfigureNext]_configureVars
             PROVE  Serialized' /\ LockHeld' /\ Progress'
  BY ShapeStep DEF ConfigureInv
<1> USE DEF ConfigureInv, Shape, Serialized, LockHeld, Progress, Busy, Locked, Step, Return, settings
<1>1. ASSUME NEW c \in Conn, RefuseValue(c) \/ Refuse(c) \/ Ignore(c)
      PROVE  Serialized' /\ LockHeld' /\ Progress'
  BY <1>1 DEF RefuseValue, Refuse, Ignore
<1>2. ASSUME NEW c \in Conn, Lock(c) \/ Begin(c)
      PROVE  Serialized' /\ LockHeld' /\ Progress'
  <2>1. CASE Lock(c)
    BY <2>1 DEF Lock
  <2>2. CASE Begin(c)
    BY <2>2 DEF Begin
  <2>3. QED
    BY <1>2, <2>1, <2>2
<1>3. ASSUME NEW c \in Conn, Build(c)
      PROVE  Serialized' /\ LockHeld' /\ Progress'
  BY <1>3 DEF Build
<1>4. ASSUME NEW c \in Conn, BuildFails(c)
      PROVE  Serialized' /\ LockHeld' /\ Progress'
  BY <1>4 DEF BuildFails
<1>5. ASSUME NEW c \in Conn, InsertConverters(c) \/ RetainConverters(c)
      PROVE  Serialized' /\ LockHeld' /\ Progress'
  <2>1. CASE InsertConverters(c)
    BY <2>1, SameParts DEF InsertConverters
  <2>2. CASE RetainConverters(c)
    <3>1. Serialized' /\ LockHeld'
      BY <2>2 DEF RetainConverters
    <3>2. Progress'
      BY <2>2, SameParts DEF RetainConverters
    <3>3. QED
      BY <3>1, <3>2
  <2>3. QED
    BY <1>5, <2>1, <2>2
<1>6. ASSUME NEW c \in Conn, PublishPatterns(c) \/ PublishCache(c)
      PROVE  Serialized' /\ LockHeld' /\ Progress'
  BY <1>6, SameParts DEF PublishPatterns, PublishCache, CacheChanged
<1>7. ASSUME NEW c \in Conn, PublishConfig(c)
      PROVE  Serialized' /\ LockHeld' /\ Progress'
  BY <1>7 DEF PublishConfig
<1>8. CASE UNCHANGED configureVars
  BY <1>8 DEF configureVars
<1>9. QED
  BY <1>1, <1>2, <1>3, <1>4, <1>5, <1>6, <1>7, <1>8 DEF ConfigureNext, ApplyConfig

\* However many connections configure at once, the converters, the patterns and
\* the cache in use are those of the active settings once no one publishes; a
\* rejected Configure, too, leaves them so.
THEOREM SettingsCoherent == ConfigureSpec => []Coherent
<1>1. ConfigureInv => Coherent
  BY DEF ConfigureInv, Shape, LockHeld, Progress, Busy, Locked, Coherent, Publishing
<1>2. QED
  BY <1>1, InitInv, InvStep, PTL DEF ConfigureSpec

\* No Configure overwrites what another applied beside it.
THEOREM UpdatesKept == ConfigureSpec => NoLostUpdate
<1>1. ConfigureInv /\ [ConfigureNext]_configureVars =>
        [config' # config => \E c \in Conn : config' = Merge(config, block[c])]_configureVars
  <2> SUFFICES ASSUME ConfigureInv, ConfigureNext, config' # config
               PROVE  \E c \in Conn : config' = Merge(config, block[c])
    OBVIOUS
  <2>1. PICK c \in Conn : PublishConfig(c)
    BY DEF ConfigureNext, ApplyConfig, RefuseValue, Lock, Refuse, Ignore, Begin, Build, BuildFails,
           InsertConverters, RetainConverters, PublishPatterns, PublishCache, settings
  <2>2. QED
    BY <2>1 DEF PublishConfig, Step, ConfigureInv, Serialized, Busy, Locked
<1>2. QED
  BY <1>1, InitInv, InvStep, PTL DEF ConfigureSpec, NoLostUpdate

\* Settings that are valid differ in a setting just where Changed has a path that
\* begins with it.
LEMMA ChangedPaths ==
    ASSUME NEW s, NEW t, Valid(s), Valid(t), NEW key \in Keys
    PROVE  s[key] # t[key] <=> \E path \in Changed(s, t) : path[1] = key
<1> DEFINE Within(b) == {sub \in DOMAIN t[b] : s[b][sub] # t[b][sub]}
<1>1. \A path \in Changed(s, t) :
        \/ \E k \in Keys \ Blocks : path = <<k>> /\ s[k] # t[k]
        \/ \E b \in Blocks : \E sub \in Within(b) : path = <<b, sub>>
  BY DEF Changed
<1>2. ASSUME key \in Blocks PROVE s[key] # t[key] <=> Within(key) # {}
  <2>1. s["quality"] \in [OutputFormat -> 1 .. 100] /\ t["quality"] \in [OutputFormat -> 1 .. 100]
    BY DEF Valid
  <2>2. /\ s["cache"] \in [enabled: BOOLEAN, directory: STRING]
        /\ t["cache"] \in [enabled: BOOLEAN, directory: STRING]
    BY DEF Valid
  <2>3. CASE key = "quality"
    BY <2>1, <2>3
  <2>4. CASE key = "cache"
    BY <2>2, <2>4
  <2>5. QED
    BY <1>2, <2>3, <2>4 DEF Blocks
<1>3. CASE key \notin Blocks
  <2>1. ASSUME s[key] # t[key] PROVE <<key>> \in Changed(s, t) /\ <<key>>[1] = key
    BY <1>3, <2>1 DEF Changed
  <2>2. ASSUME NEW path \in Changed(s, t), path[1] = key PROVE s[key] # t[key]
    BY <1>1, <1>3, <2>2
  <2>3. QED
    BY <2>1, <2>2
<1>4. CASE key \in Blocks
  <2>1. ASSUME NEW sub \in Within(key) PROVE <<key, sub>> \in Changed(s, t)
    BY <1>4 DEF Changed
  <2>2. ASSUME NEW path \in Changed(s, t), path[1] = key PROVE Within(key) # {}
    BY <1>1, <1>4, <2>2
  <2>3. ASSUME NEW sub \in Within(key) PROVE \E path \in Changed(s, t) : path[1] = key
    BY <2>1, <2>3
  <2>4. QED
    BY <1>2, <1>4, <2>2, <2>3
<1>5. QED
  BY <1>3, <1>4

\* What a Configure reports as changed is what it changes, however long it took and
\* whatever the others did meanwhile.
THEOREM ChangesReported == ConfigureSpec => ReportsChanges
<1>1. ConfigureInv /\ [ConfigureNext]_configureVars =>
        [\A c \in Conn : outcome'[c] = "applied" /\ outcome[c] # "applied" =>
            \A key \in Keys :
               config'[key] # config[key] <=> \E path \in changed[c] : path[1] = key]_configureVars
  <2> SUFFICES ASSUME ConfigureInv, ConfigureNext, NEW c \in Conn,
                      outcome'[c] = "applied", outcome[c] # "applied", NEW key \in Keys
               PROVE  config'[key] # config[key] <=> \E path \in changed[c] : path[1] = key
    OBVIOUS
  <2>1. PublishConfig(c)
    <3>1. PICK d \in Conn : ApplyConfig(d)
      BY DEF ConfigureNext
    <3>2. d = c /\ (RefuseValue(c) \/ Refuse(c) \/ Ignore(c) \/ BuildFails(c) \/ PublishConfig(c))
      BY <3>1 DEF ApplyConfig, RefuseValue, Lock, Refuse, Ignore, Begin, Build, BuildFails,
                  InsertConverters, RetainConverters, PublishPatterns, PublishCache,
                  PublishConfig, Return, ConfigureInv, Shape
    <3>3. QED
      BY <3>2 DEF RefuseValue, Refuse, Ignore, BuildFails, Return, ConfigureInv, Shape
  <2>2. Valid(config) /\ Valid(config') /\ changed[c] = Changed(config, config')
    BY <2>1 DEF PublishConfig, Step, ConfigureInv, Serialized, Busy, Locked
  <2>3. QED
    BY <2>2, ChangedPaths
<1>2. QED
  BY <1>1, InitInv, InvStep, PTL DEF ConfigureSpec, ReportsChanges

\* A block laid over settings a second time changes nothing.
LEMMA MergeIdempotent ==
    ASSUME NEW s, NEW over
    PROVE  Merge(Merge(s, over), over) = Merge(s, over)
<1>1. ASSUME NEW f, NEW g PROVE Overlay(Overlay(f, g), g) = Overlay(f, g)
  BY DEF Overlay
<1>2. ASSUME NEW key \in DOMAIN s \cup DOMAIN over
      PROVE  Merge(Merge(s, over), over)[key] = Merge(s, over)[key]
  <2>1. CASE key \in DOMAIN over /\ key \in Blocks
    BY <1>1, <2>1 DEF Merge
  <2>2. CASE ~(key \in DOMAIN over /\ key \in Blocks)
    BY <2>2 DEF Merge
  <2>3. QED
    BY <2>1, <2>2
<1>3. DOMAIN Merge(s, over) = DOMAIN s \cup DOMAIN over
  BY DEF Merge
<1>4. DOMAIN Merge(Merge(s, over), over) = DOMAIN s \cup DOMAIN over
  BY <1>3 DEF Merge
<1>5. QED
  BY <1>2, <1>3, <1>4 DEF Merge

\* Whoever publishes changes the settings, and a block that was applied changes them no
\* more until another block is applied.
AppliedInv ==
    /\ \A c \in Conn : stage[c] \in Busy => new[c] # config
    /\ \A c \in Conn : outcome[c] = "applied" =>
          \/ Merge(config, block[c]) = config
          \/ \E e \in Conn : outcome[e] = "applied" /\ block[e] # block[c]
    /\ \A c \in Conn : outcome[c] = "applied" => stage[c] = "done"
    /\ IdenticalAppliedOnce

LEMMA AppliedStep ==
    ConfigureInv /\ AppliedInv /\ [ConfigureNext]_configureVars => AppliedInv'
<1> SUFFICES ASSUME ConfigureInv, AppliedInv, [ConfigureNext]_configureVars PROVE AppliedInv'
  OBVIOUS
<1> USE DEF AppliedInv, IdenticalAppliedOnce, ConfigureInv, Shape, Step, Return, Busy, Locked, settings
<1>1. ASSUME NEW c \in Conn, RefuseValue(c) \/ Refuse(c) \/ Ignore(c) PROVE AppliedInv'
  BY <1>1 DEF RefuseValue, Refuse, Ignore
<1>2. ASSUME NEW c \in Conn, Lock(c) \/ Begin(c) PROVE AppliedInv'
  BY <1>2 DEF Lock, Begin, SameHash
<1>3. ASSUME NEW c \in Conn, Build(c) \/ BuildFails(c) PROVE AppliedInv'
  BY <1>3 DEF Build, BuildFails
<1>4. ASSUME NEW c \in Conn, InsertConverters(c) \/ RetainConverters(c) PROVE AppliedInv'
  BY <1>4 DEF InsertConverters, RetainConverters
<1>5. ASSUME NEW c \in Conn, PublishPatterns(c) \/ PublishCache(c) PROVE AppliedInv'
  BY <1>5 DEF PublishPatterns, PublishCache
<1>6. ASSUME NEW c \in Conn, PublishConfig(c) PROVE AppliedInv'
  <2>1. /\ config' = new[c] /\ new[c] = Merge(config, block[c]) /\ new[c] # config
        /\ holder = {c}
    BY <1>6 DEF PublishConfig, Serialized
  <2>2. Merge(config', block[c]) = config'
    BY <2>1, MergeIdempotent
  <2>3. UNCHANGED <<block, new>> /\ outcome' = [outcome EXCEPT ![c] = "applied"]
        /\ stage' = [stage EXCEPT ![c] = "done"]
    BY <1>6 DEF PublishConfig
  <2>4. outcome'[c] = "applied" /\ \A d \in Conn \ {c} : outcome'[d] = outcome[d]
    BY <2>3
  <2>5. ASSUME NEW d \in Conn, stage'[d] \in Busy PROVE FALSE
    BY <2>1, <2>3, <2>5 DEF Serialized
  <2>6. ASSUME NEW d \in Conn, outcome'[d] = "applied", d # c
        PROVE  \E e \in Conn : outcome'[e] = "applied" /\ block[e] # block[d]
    BY <2>1, <2>4, <2>6
  <2>7. ASSUME NEW d \in Conn, outcome'[d] = "applied" PROVE stage'[d] = "done"
    BY <2>3, <2>7
  <2>8. QED
    BY <2>2, <2>3, <2>5, <2>6, <2>7
<1>7. CASE UNCHANGED configureVars
  BY <1>7 DEF configureVars
<1>8. QED
  BY <1>1, <1>2, <1>3, <1>4, <1>5, <1>6, <1>7 DEF ConfigureNext, ApplyConfig

\* However many connections send one block, it is applied once, unless the settings went
\* somewhere else in between.
THEOREM AppliedOnce == ConfigureSpec => []IdenticalAppliedOnce
<1>1. ConfigureInit => AppliedInv
  BY DEF ConfigureInit, AppliedInv, IdenticalAppliedOnce, Busy
<1>2. AppliedInv => IdenticalAppliedOnce
  BY DEF AppliedInv
<1>3. QED
  BY <1>1, <1>2, InitInv, InvStep, AppliedStep, PTL DEF ConfigureSpec
=============================================================================
