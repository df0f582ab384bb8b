----------------------------- MODULE AgentConfig -----------------------------
(* The layered agent configuration and the model registry it refers to.        *)
(* One agent sees four bundles (the fleet default, and the tenant's, its       *)
(* owner's and its role's overlay), merged on read; admins write bundles, and  *)
(* the registry of model names under a compare-and-set on its version.         *)
(* A path is the sequence of its components.  A bundle's content hash is       *)
(* modelled by the bundle itself: its files, the tenant's locks and the model  *)
(* names its profiles refer to.                                                *)
EXTENDS Integers, Sequences, FiniteSets, SequencesExt, Functions, TLC

CONSTANTS Clients, Nil
VARIABLES layers, registry, calls, fetch, held, read, raced
acvars == <<layers, registry, calls, fetch, held, read, raced>>

LayerDefault == 1
LayerTenant == 2
LayerUser == 3
LayerRole == 4
Layers == LayerDefault .. LayerRole
LocksYml == <<"locks.yml">>
TopFiles == {<<"AGENTS.md">>, <<"models.yml">>}
DirectoryTops == {"skills", "extensions"}

(* ------------------------------- the merge -------------------------------- *)
(* validateConfigMemberPath, for a regular file; the last component is assumed *)
(* to have the form its directory asks for (.md, .json, SYSTEM.md).            *)
ValidPath(path, layer) ==
    \/ path = LocksYml /\ layer = LayerTenant
    \/ path \in TopFiles
    \/ path[1] \in DirectoryTops /\ Len(path) >= 3
    \/ path = <<"settings", "config.yml">>
    \/ path[1] \in {"rules", "agents", "mcp"} /\ Len(path) = 2
    \/ path[1] = "prompts" /\ Len(path) = 3
    \/ path[1] = "profiles" /\ Len(path) = 3 /\ layer = LayerDefault
ValidLock(lock) ==
    IF lock.prefix
    THEN Len(lock.path) <= 2 /\ lock.path[1] \in DirectoryTops \union {"prompts"}
    ELSE /\ ~(Len(lock.path) >= 3 /\ lock.path[1] \in DirectoryTops)
         /\ lock.path # LocksYml /\ ValidPath(lock.path, LayerTenant)
(* validateAndHashConfigBundle *)
Valid(bundle, layer) ==
    /\ \A p \in DOMAIN bundle.files : ValidPath(p, layer)
    /\ bundle.locks # {} => LocksYml \in DOMAIN bundle.files
    /\ \A l \in bundle.locks : ValidLock(l)
    /\ bundle.refs # {} => \E p \in DOMAIN bundle.files : p[1] = "profiles"

LocksOf(ls) == IF ls[LayerTenant] = Nil THEN {} ELSE ls[LayerTenant].locks
Covers(locks, path) ==
    \E l \in locks : IF l.prefix THEN IsStrictPrefix(l.path, path) ELSE path = l.path
ConfigDirectoryMember(path) ==
    IF Len(path) >= 2 /\ path[1] \in DirectoryTops THEN SubSeq(path, 1, 2) ELSE Nil
Droppable(layer, locks, path) == layer \in {LayerUser, LayerRole} /\ Covers(locks, path)

(* A bug: the directories of locked members are cleared as well. *)
ApplyConfigLayer_ClearsLocked(selected, bundle, layer, locks) ==
    LET all == DOMAIN bundle.files \ {LocksYml}
        kept == {p \in all : ~Droppable(layer, locks, p)}
        dirs == {ConfigDirectoryMember(p) : p \in all} \ {Nil}
        below == {p \in DOMAIN selected : ConfigDirectoryMember(p) \notin dirs}
    IN  [p \in kept \union below |-> IF p \in kept THEN [content |-> bundle.files[p], layer |-> layer] ELSE selected[p]]
(* One layer onto the members selected so far: its unlocked members, each      *)
(* directory of theirs replacing the whole directory below.                    *)
ApplyConfigLayer(selected, bundle, layer, locks) ==
    LET kept == {p \in DOMAIN bundle.files \ {LocksYml} : ~Droppable(layer, locks, p)}
        dirs == {ConfigDirectoryMember(p) : p \in kept} \ {Nil}
        below == {p \in DOMAIN selected : ConfigDirectoryMember(p) \notin dirs}
    IN  [p \in kept \union below |-> IF p \in kept THEN [content |-> bundle.files[p], layer |-> layer] ELSE selected[p]]
MergeConfigBundles(ls) ==
    FoldLeft(LAMBDA selected, k : IF ls[k] = Nil THEN selected
                                  ELSE ApplyConfigLayer(selected, ls[k], k, IF k = LayerDefault THEN {} ELSE LocksOf(ls)),
             << >>, <<LayerDefault, LayerTenant, LayerUser, LayerRole>>)
Contents(selected) == [p \in DOMAIN selected |-> selected[p].content]

(* The default's own version without overlays, else a hash of all four.        *)
EffectiveConfigVersion(ls) ==
    IF \A k \in {LayerTenant, LayerUser, LayerRole} : ls[k] = Nil THEN <<ls[LayerDefault]>>
    ELSE <<ls[LayerDefault], ls[LayerTenant], ls[LayerUser], ls[LayerRole]>>

(* ------------------------------ the registry ------------------------------ *)
(* No row is version 0; a tombstone has names = Nil.                           *)
Live(row) == row.version > 0 /\ row.names # Nil
CurrentModelRegistry(row) == IF Live(row) THEN row.names ELSE {}
InsertModelRegistry(row, names) == [version |-> row.version + 1, names |-> names]
UpdateModelRegistry(row, names, version) == IF Live(row) /\ row.version = version
                                            THEN [version |-> row.version + 1, names |-> names] ELSE row
(* A bug: the tombstone keeps the version it deletes. *)
TombstoneModelRegistry_SameVersion(row, version) == IF Live(row) /\ row.version = version
                                                    THEN [version |-> row.version, names |-> Nil] ELSE row
TombstoneModelRegistry(row, version) == IF Live(row) /\ row.version = version
                                        THEN [version |-> row.version + 1, names |-> Nil] ELSE row
RemovedNames(prior, next) == prior \ next
ProfileModelRefs(bundle) == IF bundle = Nil THEN {} ELSE bundle.refs
Stranded(ls, row) == ~(ProfileModelRefs(ls[LayerDefault]) \subseteq CurrentModelRegistry(row))

(* -------------------------------- the calls ------------------------------- *)
(* A call holds what it checked; "dirty" is set once the other store is        *)
(* written after the check and before the call's own write.                    *)
Idle(c) == calls[c] = Nil
Call(c, r) == calls' = [calls EXCEPT ![c] = r]
Overtaken(ops, own) == [c \in Clients |-> IF c = own THEN Nil
                                          ELSE IF calls[c] # Nil /\ calls[c].op \in ops THEN [calls[c] EXCEPT !.dirty = TRUE]
                                          ELSE calls[c]]
Heals(dirty) == raced' = ((raced \/ dirty) /\ Stranded(layers', registry'))

(* The refs are checked against the registry, then the row is written.         *)
PutAgentConfig(c, bundle) ==
    /\ Idle(c) /\ Valid(bundle, LayerDefault)
    /\ ProfileModelRefs(bundle) \subseteq CurrentModelRegistry(registry)
    /\ Call(c, [op |-> "config", bundle |-> bundle, dirty |-> FALSE])
    /\ UNCHANGED <<layers, registry, fetch, held, read, raced>>
PutAgentConfigRow(c) ==
    /\ ~Idle(c) /\ calls[c].op = "config"
    /\ layers' = [layers EXCEPT ![LayerDefault] = calls[c].bundle]
    /\ calls' = Overtaken({"checked"}, c)
    /\ UNCHANGED <<registry, fetch, held, read>>
    /\ Heals(calls[c].dirty)
DeleteAgentConfig ==
    /\ layers' = [layers EXCEPT ![LayerDefault] = Nil]
    /\ UNCHANGED <<registry, calls, fetch, held, read>>
    /\ Heals(FALSE)

(* A user or role overlay is refused when a member is locked at the time.      *)
PutAgentConfigOverlay(c, layer, bundle) ==
    /\ Idle(c) /\ layer # LayerDefault /\ Valid(bundle, layer)
    /\ \A p \in DOMAIN bundle.files : ~Droppable(layer, LocksOf(layers), p)
    /\ Call(c, [op |-> "overlay", layer |-> layer, bundle |-> bundle])
    /\ UNCHANGED <<layers, registry, fetch, held, read, raced>>
PutOverlayRow(c) ==
    /\ ~Idle(c) /\ calls[c].op = "overlay"
    /\ layers' = [layers EXCEPT ![calls[c].layer] = calls[c].bundle]
    /\ Call(c, Nil)
    /\ UNCHANGED <<registry, fetch, held, read, raced>>
DeleteAgentConfigOverlay(layer) ==
    /\ layer # LayerDefault
    /\ layers' = [layers EXCEPT ![layer] = Nil]
    /\ UNCHANGED <<registry, calls, fetch, held, read, raced>>

(* An expected version is one the admin read before, 0 to seed.                *)
PutModelRegistry(c, names, expected) ==
    /\ Idle(c) /\ expected \in 0 .. registry.version
    /\ LET removed == IF expected > 0 /\ Live(registry) /\ registry.version = expected
                      THEN RemovedNames(registry.names, names) ELSE {}
       IN  Call(c, [op |-> "registry", names |-> names, expected |-> expected, removed |-> removed, dirty |-> FALSE])
    /\ UNCHANGED <<layers, registry, fetch, held, read, raced>>
DeleteModelRegistry(c) ==
    /\ Idle(c) /\ Live(registry)
    /\ Call(c, [op |-> "registry", names |-> Nil, expected |-> registry.version, removed |-> registry.names, dirty |-> FALSE])
    /\ UNCHANGED <<layers, registry, fetch, held, read, raced>>
(* A removed name a published profile still uses ends the call.                *)
CheckNoOrphanedProfileRefs(c) ==
    /\ ~Idle(c) /\ calls[c].op = "registry"
    /\ Call(c, IF calls[c].removed \intersect ProfileModelRefs(layers[LayerDefault]) # {} THEN Nil
               ELSE [calls[c] EXCEPT !.op = "checked"])
    /\ UNCHANGED <<layers, registry, fetch, held, read, raced>>
WriteModelRegistry(c) ==
    /\ ~Idle(c) /\ calls[c].op = "checked"
    /\ LET r == calls[c]
       IN  registry' = IF r.names = Nil THEN TombstoneModelRegistry(registry, r.expected)
                       ELSE IF r.expected = 0 THEN (IF Live(registry) THEN registry ELSE InsertModelRegistry(registry, r.names))
                       ELSE UpdateModelRegistry(registry, r.names, r.expected)
    /\ calls' = IF registry' = registry THEN [calls EXCEPT ![c] = Nil] ELSE Overtaken({"config"}, c)
    /\ UNCHANGED <<layers, fetch, held, read>>
    /\ Heals(calls[c].dirty)

(* An admin, or a gateway, reads the registry row.                             *)
GatewayModelRegistry ==
    /\ read' = [version |-> registry.version, names |-> CurrentModelRegistry(registry)]
    /\ UNCHANGED <<layers, registry, calls, fetch, held, raced>>

(* An agent's fetch: the versions of one snapshot, then its bundles, unless    *)
(* the version is the one the agent holds.                                     *)
EffectiveAgentConfig ==
    /\ fetch = Nil
    /\ ~(held # Nil /\ held.version # <<Nil>> /\ held.version = EffectiveConfigVersion(layers))
    /\ fetch' = layers
    /\ UNCHANGED <<layers, registry, calls, held, read, raced>>
LoadEffectiveConfigLayers ==
    /\ fetch # Nil
    /\ held' = [version |-> EffectiveConfigVersion(fetch), members |-> MergeConfigBundles(fetch), locks |-> LocksOf(fetch),
                fixed |-> MergeConfigBundles([fetch EXCEPT ![LayerUser] = Nil, ![LayerRole] = Nil])]
    /\ fetch' = Nil
    /\ UNCHANGED <<layers, registry, calls, read, raced>>

(* ------------------------------- properties ------------------------------- *)
(* An agent that holds the current version, and is therefore sent nothing,     *)
(* holds exactly what a fetch would give it.                                   *)
MatchIsCurrent ==
    held # Nil /\ held.version # <<Nil>> /\ held.version = EffectiveConfigVersion(layers)
        => Contents(held.members) = Contents(MergeConfigBundles(layers))
(* What the tenant locks comes from the tenant or the fleet, and is all there, *)
(* whatever overlays were stored before the lock was.                          *)
LocksHold ==
    held # Nil =>
        /\ \A p \in DOMAIN held.members : Covers(held.locks, p) => ~(held.members[p].layer \in {LayerUser, LayerRole})
        /\ \A p \in DOMAIN held.fixed : Covers(held.locks, p) =>
              p \in DOMAIN held.members /\ held.members[p] = held.fixed[p]
(* A registry version never names two registries, deletes and seeds included.  *)
VersionNamesRegistry == read.version = registry.version => read.names = CurrentModelRegistry(registry)
(* A published profile refers to an unknown model only when the two writes     *)
(* overlapped: each store's check is made before its own write alone.          *)
StrandedByRaceOnly == Stranded(layers, registry) => raced
ConfigSound == MatchIsCurrent /\ LocksHold /\ VersionNamesRegistry /\ StrandedByRaceOnly

-----------------------------------------------------------------------------
(* Bounds for AgentConfig: MaxChanges writes; two candidate bundles a layer.   *)
CONSTANTS MaxChanges
VARIABLE load

AcInit ==
    /\ layers = [k \in Layers |-> Nil] /\ registry = [version |-> 0, names |-> Nil]
    /\ calls = [c \in Clients |-> Nil] /\ fetch = Nil /\ held = Nil /\ raced = FALSE
    /\ read = [version |-> 0, names |-> {}]
    /\ load = 0

Op(A) == load < MaxChanges /\ A /\ load' = load + 1
Free(A) == A /\ load' = load

Md == <<"AGENTS.md">>
Skill == <<"skills", "x", "SKILL.md">>
Extra == <<"skills", "x", "extra.md">>
Profile == <<"profiles", "p", "profile.yml">>
Bundle(paths, k, locks, refs) == [files |-> [p \in paths |-> k], locks |-> locks, refs |-> refs]
Candidates(k) ==
    CASE k = LayerDefault -> {Bundle({Md, Skill}, 1, {}, {}), Bundle({Profile}, 1, {}, {"m"})}
      [] k = LayerTenant -> {Bundle({LocksYml, Skill}, 2, {[path |-> <<"skills", "x">>, prefix |-> TRUE]}, {}),
                             Bundle({LocksYml, Md}, 2, {[path |-> Md, prefix |-> FALSE]}, {})}
      [] k = LayerUser -> {Bundle({Md, Extra}, 3, {}, {})}
      [] k = LayerRole -> {Bundle({Skill}, 4, {}, {})}

PutBundle(c) == Op(\E b \in Candidates(LayerDefault) : PutAgentConfig(c, b))
PutOverlay(c) == Op(\E k \in Layers : \E b \in Candidates(k) : PutAgentConfigOverlay(c, k, b))
PutRegistry(c) == Op(\E names \in {{"m"}, {"n"}}, v \in 0 .. MaxChanges : PutModelRegistry(c, names, v))
DropOverlay == Op(\E k \in Layers : layers[k] # Nil /\ DeleteAgentConfigOverlay(k))
AcNext ==
    \/ Op(DeleteAgentConfig) \/ DropOverlay
    \/ Free(GatewayModelRegistry) \/ Free(EffectiveAgentConfig) \/ Free(LoadEffectiveConfigLayers)
    \/ \E c \in Clients :
        \/ PutBundle(c) \/ PutOverlay(c) \/ PutRegistry(c) \/ Op(DeleteModelRegistry(c))
        \/ Free(PutAgentConfigRow(c)) \/ Free(PutOverlayRow(c))
        \/ Free(CheckNoOrphanedProfileRefs(c)) \/ Free(WriteModelRegistry(c))
AcSpec == AcInit /\ [][AcNext]_<<acvars, load>>
=============================================================================
