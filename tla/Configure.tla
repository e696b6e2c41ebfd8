----------------------------- MODULE Configure -----------------------------
(***************************************************************************)
(* The settings of the agent and the Configure event that changes them:    *)
(* ImageOptAgent::apply_config of src/src/handler.rs with merge of         *)
(* src/src/configure.rs and validate_config of src/src/config.rs.          *)
(*                                                                         *)
(* The active settings live in four places that are published one after    *)
(* the other: converters, passthrough_patterns, cache and config.  Events  *)
(* of several connections are serialized by configure_lock.                *)
(***************************************************************************)
EXTENDS Negotiation, SequencesExt

CONSTANTS
    Conn,      \* connections of the proxy; each sends one Configure
    Block,     \* the JSON values the proxy may send as config { }
    Initial    \* the settings at startup: the --config file or the defaults

\* Settings: [formats: Seq of formats, quality: [format -> 1..100],
\*            cache: [enabled, directory], passthrough: the URIs its patterns match,
\*            content_types: set of content types, max_input_size: bytes,
\*            max_pixels: a number of pixels]
Keys == {"formats", "quality", "cache", "passthrough", "content_types",
         "max_input_size", "max_pixels"}
Blocks == {"quality", "cache"}      \* settings that are objects themselves
OutputFormat == {"webp", "avif"}
NoCache == "no cache"
NoRegex == "no regex"               \* what a pattern that is no regex stands for

\* A value of the proxy that is no JSON object, here a record with one key.
IsObject(value) == "scalar" \notin DOMAIN value

VARIABLES
    config,       \* RwLock<ImageOptConfig>
    patterns,     \* passthrough_patterns: the URIs they match
    converters,   \* DashMap of converters: the formats it holds
    cache,        \* RwLock<Option<FilesystemCache>>: its directory or NoCache
    holder,       \* configure_lock: who holds it, a set of at most one
    stage,        \* [Conn -> the next step of its apply_config]
    new,          \* [Conn -> new_config, the settings it is about to publish]
    block,        \* [Conn -> the block it sent]
    changed,      \* [Conn -> the paths of the settings it reports as changed]
    outcome       \* [Conn -> what apply_config returned, "none" before]

settings == <<config, patterns, converters, cache>>
configureVars == <<settings, holder, stage, new, block, changed, outcome>>

-----------------------------------------------------------------------------
(* merge and validate_config                                               *)

Overlay(base, over) ==
    [key \in DOMAIN base \cup DOMAIN over |->
        IF key \in DOMAIN over THEN over[key] ELSE base[key]]

\* Objects merge key by key, any other value replaces what was there; a key that
\* is in neither the settings nor the defaults is added, and refused by Valid.
\* (A single value in the place of a list is written here as the list it becomes.)
Merge(base, over) ==
    [key \in DOMAIN base \cup DOMAIN over |->
        IF key \notin DOMAIN over THEN base[key]
        ELSE IF key \in Blocks THEN Overlay(base[key], over[key])
        ELSE over[key]]

\* deny_unknown_fields and validate_config.
Valid(s) ==
    /\ DOMAIN s = Keys
    /\ s.quality \in [OutputFormat -> 1 .. 100]
    /\ s.cache \in [enabled: BOOLEAN, directory: STRING]
    /\ s.formats # <<>> /\ s.formats \in Seq(OutputFormat)
    /\ s.max_input_size \in Nat \ {0} /\ s.max_pixels \in Nat \ {0}
    /\ s.content_types # {} /\ NoRegex \notin s.passthrough
    /\ s.cache.enabled => s.cache.directory # ""

\* config_hash of the canonical form: the order of the keys makes no difference.
\* (Two settings with the same 64-bit hash are left out.)
SameHash(s, t) == s = t

\* changed_keys: the paths, one or two keys long, at which the settings differ.
Changed(old, s) ==
    {<<key>> : key \in {key \in Keys \ Blocks : old[key] # s[key]}} \cup
    UNION {{<<b, key>> : key \in {key \in DOMAIN s[b] : old[b][key] # s[b][key]}} : b \in Blocks}

Formats(s) == Range(s.formats)

\* Whether and where a FilesystemCache is opened for these settings.
Directory(s) == IF s.cache.enabled THEN s.cache.directory ELSE NoCache

\* ImageOptAgent::new refuses to start with other settings.
ASSUME InitialAssumption == Valid(Initial)

-----------------------------------------------------------------------------
ConfigureInit ==
    /\ config = Initial
    /\ patterns = Initial.passthrough
    /\ converters = Formats(Initial)
    /\ cache = Directory(Initial)
    /\ holder = {}
    /\ stage = [c \in Conn |-> "idle"]
    /\ new = [c \in Conn |-> Initial]
    /\ block \in [Conn -> Block]
    /\ changed = [c \in Conn |-> {}]
    /\ outcome = [c \in Conn |-> "none"]

Publishing(c) == stage[c] \in {"insert", "retain", "patterns", "cache", "config"}

Step(c, from, to) ==
    /\ stage[c] = from
    /\ stage' = [stage EXCEPT ![c] = to]

\* apply_config returns and drops the guard of configure_lock.
Return(c, result) ==
    /\ outcome' = [outcome EXCEPT ![c] = result]
    /\ holder' = holder \ {c}

\* No object: apply_config returns before it takes the lock.
RefuseValue(c) ==
    /\ Step(c, "idle", "done")
    /\ ~IsObject(block[c])
    /\ outcome' = [outcome EXCEPT ![c] = "rejected"]
    /\ UNCHANGED <<settings, holder, new, block, changed>>

\* Mutant: Configures of several connections are not serialized.
LockNothing(c) ==
    /\ Step(c, "idle", "check")
    /\ IsObject(block[c])
    /\ holder' = {c}
    /\ UNCHANGED <<settings, new, block, changed, outcome>>

\* configure_lock is free: take it.
Lock(c) ==
    /\ Step(c, "idle", "check")
    /\ IsObject(block[c])
    /\ holder = {} /\ holder' = {c}
    /\ UNCHANGED <<settings, new, block, changed, outcome>>

\* Mutant: a block that is refused leaves configure_lock taken.
RefuseLocked(c) ==
    /\ Step(c, "check", "done")
    /\ ~Valid(Merge(config, block[c]))
    /\ outcome' = [outcome EXCEPT ![c] = "rejected"]
    /\ UNCHANGED <<settings, holder, new, block, changed>>

\* Read the active settings and lay the block over them; stop when the result is
\* refused or is what is active already.
Refuse(c) ==
    /\ Step(c, "check", "done")
    /\ ~Valid(Merge(config, block[c]))
    /\ Return(c, "rejected")
    /\ UNCHANGED <<settings, new, block, changed>>

Ignore(c) ==
    /\ Step(c, "check", "done")
    /\ Valid(Merge(config, block[c])) /\ SameHash(Merge(config, block[c]), config)
    /\ Return(c, "unchanged")
    /\ UNCHANGED <<settings, new, block, changed>>

\* Mutant: a block that changes nothing is applied all the same.
BeginAlways(c) ==
    /\ Step(c, "check", "build")
    /\ Valid(Merge(config, block[c]))
    /\ new' = [new EXCEPT ![c] = Merge(config, block[c])]
    /\ changed' = [changed EXCEPT ![c] = Changed(config, Merge(config, block[c]))]
    /\ UNCHANGED <<settings, holder, block, outcome>>

Begin(c) ==
    /\ Step(c, "check", "build")
    /\ Valid(Merge(config, block[c])) /\ ~SameHash(Merge(config, block[c]), config)
    /\ new' = [new EXCEPT ![c] = Merge(config, block[c])]
    /\ changed' = [changed EXCEPT ![c] = Changed(config, Merge(config, block[c]))]
    /\ UNCHANGED <<settings, holder, block, outcome>>

CacheChanged(c) == new[c].cache # config.cache

\* Everything that can fail is built before anything is published.
Build(c) ==
    /\ Step(c, "build", "insert")
    /\ UNCHANGED <<settings, holder, new, block, changed, outcome>>

\* FilesystemCache::new cannot create its directory.
BuildFails(c) ==
    /\ Step(c, "build", "done")
    /\ CacheChanged(c) /\ Directory(new[c]) # NoCache
    /\ Return(c, "rejected")
    /\ UNCHANGED <<settings, new, block, changed>>

\* The DashMap of converters: the new ones go in, then the others go out.
InsertConverters(c) ==
    /\ Step(c, "insert", "retain")
    /\ converters' = IF new[c].formats # config.formats
                       THEN converters \cup Formats(new[c])
                       ELSE converters
    /\ UNCHANGED <<config, patterns, cache, holder, new, block, changed, outcome>>

\* Mutant: converters of formats no longer configured stay.
RetainAll(c) ==
    /\ Step(c, "retain", "patterns")
    /\ UNCHANGED <<settings, holder, new, block, changed, outcome>>

RetainConverters(c) ==
    /\ Step(c, "retain", "patterns")
    /\ converters' = IF new[c].formats # config.formats
                       THEN converters \cap Formats(new[c])
                       ELSE converters
    /\ UNCHANGED <<config, patterns, cache, holder, new, block, changed, outcome>>

PublishPatterns(c) ==
    /\ Step(c, "patterns", "cache")
    /\ patterns' = new[c].passthrough
    /\ UNCHANGED <<config, converters, cache, holder, new, block, changed, outcome>>

PublishCache(c) ==
    /\ Step(c, "cache", "config")
    /\ cache' = IF CacheChanged(c) THEN Directory(new[c]) ELSE cache
    /\ UNCHANGED <<config, patterns, converters, holder, new, block, changed, outcome>>

PublishConfig(c) ==
    /\ Step(c, "config", "done")
    /\ config' = new[c]
    /\ Return(c, "applied")
    /\ UNCHANGED <<patterns, converters, cache, new, block, changed>>

ApplyConfig(c) ==
    \/ RefuseValue(c) \/ Lock(c) \/ Refuse(c) \/ Ignore(c) \/ Begin(c)
    \/ Build(c) \/ BuildFails(c)
    \/ InsertConverters(c) \/ RetainConverters(c)
    \/ PublishPatterns(c) \/ PublishCache(c) \/ PublishConfig(c)

ConfigureNext == \E c \in Conn : ApplyConfig(c)

ConfigureSpec == ConfigureInit /\ [][ConfigureNext]_configureVars

\* apply_config is polled until it returns; no step of it waits for the proxy.
ConfigureFairSpec == ConfigureSpec /\ \A c \in Conn : WF_configureVars(ApplyConfig(c))

-----------------------------------------------------------------------------
(* Properties                                                              *)

\* While no Configure publishes, the four places hold the same settings.
Coherent ==
    (\A c \in Conn : ~Publishing(c)) =>
        /\ patterns = config.passthrough
        /\ converters = Formats(config)
        /\ cache = Directory(config)

\* No update is lost: the settings only ever change by laying one block over the
\* settings then active, however the Configures of the connections interleave.
NoLostUpdate ==
    [][config' # config => \E c \in Conn : config' = Merge(config, block[c])]_configureVars

\* "concurrent identical configures apply once": when two connections send the
\* same block and both apply it, another block was applied as well.
IdenticalAppliedOnce ==
    \A c, d \in Conn :
        c # d /\ block[c] = block[d] /\ outcome[c] = "applied" /\ outcome[d] = "applied" =>
            \E e \in Conn : outcome[e] = "applied" /\ block[e] # block[c]

\* A Configure reports exactly the settings that its publication changes, although
\* it compared them before it opened the cache and published the other places.
ReportsChanges ==
    [][\A c \in Conn : outcome'[c] = "applied" /\ outcome[c] # "applied" =>
          \A key \in Keys :
             config'[key] # config[key] <=> \E path \in changed[c] : path[1] = key]_configureVars

\* Every Configure is answered: none waits for configure_lock for ever.
ConfiguresReturn == \A c \in Conn : <>(outcome[c] # "none")
=============================================================================
