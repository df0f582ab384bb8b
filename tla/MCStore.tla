------------------------------ MODULE MCStore ------------------------------
(* The store's independent parts, model-checked in one run: part says which of *)
(* them a behaviour is about.  The parts share the variables v1 to v7, and a   *)
(* part that needs fewer leaves the others at Nil.                             *)
EXTENDS Naturals, FiniteSets, TLC

CONSTANTS u1, u2, a1, a2, a3, b1, t1, t2, Nil

VARIABLES part, load, v1, v2, v3, v4, v5, v6, v7
vars == <<part, load, v1, v2, v3, v4, v5, v6, v7>>

Ch == INSTANCE Channels WITH
    groups <- v1, channels <- v2, members <- v3, overrides <- v4, calls <- v5, outbox <- v6, unseeing <- v7,
    Users <- {u1, u2}, Agents <- {a1, a2, b1}, OwnerOf <- a1 :> u1 @@ a2 :> u1 @@ b1 :> u2,
    ParentOf <- a1 :> Nil @@ a2 :> a1 @@ b1 :> Nil, GroupIds <- {"g1", "g2"}, ChannelIds <- {"c"},
    Names <- {"n"}, Reserved <- "dm", MaxWrites <- 3, MaxCalls <- 2,
    Creator <- u1, Party <- a1, Anchors <- {a1, b1}, Invited <- {a2, b1}

Ns == INSTANCE Namespace WITH
    agents <- v1, handle <- v2, coords <- v3, dms <- v4, peers <- v5, locks <- v6, txs <- v7,
    Users <- {u1, u2}, AgentIds <- {a1, a2, a3, b1}, Handles <- {"o", "p", "q"}, AgentHandles <- {"m", "r", "n"},
    Txs <- {t1, t2}, MaxSuffix <- 2, Owner <- u1, Peer <- u2, Manager <- a1, Report <- a2, Foreign <- b1,
    HandleOf <- u1 :> "o" @@ u2 :> "p" @@ a1 :> "m" @@ a2 :> "r" @@ b1 :> "m" @@ a3 :> Nil, MaxOps <- 3

Tp == INSTANCE Topics WITH
    topics <- v1, msgs <- v2, pins <- v3, members <- v4, serial <- v5, tx <- v6,
    Members <- {u1}, Owner <- Nil, Clients <- {t1, t2}, Names <- {"p", "q", "r"}, Keys <- {"k"}, MaxPins <- 2, MaxCalls <- 3

Ab == INSTANCE AgentBoards WITH
    meta <- v1, tasks <- v2, writer <- v3, panel <- v4, unread <- v5,
    Writers <- {t1, t2}, MaxTasks <- 2, MaxSubs <- 1, TaskKeys <- {1, 2}, MaxPatches <- 2

Ac == INSTANCE AgentConfig WITH
    layers <- v1, registry <- v2, calls <- v3, fetch <- v4, held <- v5, read <- v6, raced <- v7,
    Clients <- {t1, t2}, MaxChanges <- 3

Fm == INSTANCE ForgeMirrors WITH
    row <- v1, requests <- v2, acts <- v3, comments <- v4, wire <- v5, work <- v6, env <- v7,
    Workers <- {t1, t2}, Agent <- a1, Person <- u1, Keys <- {"k"}, MaxAttempts <- 2, MaxCalls <- 2, MaxFaults <- 2

Sb == INSTANCE SessionBindings WITH
    rows <- v1, usage <- v2, hub <- v3, runner <- v4, work <- v5, net <- v6, ghost <- v7,
    Sessions <- {"s1", "s2"}, Accounts <- {a1}, Owner <- "s1" :> a1 @@ "s2" :> a1, Workers <- {t1, t2}, MaxOps <- 4, MaxBinds <- 2

Tm == INSTANCE Telemetry WITH
    gw <- v1, work <- v2, strm <- v3, hub <- v4, busy <- v5, board <- v6, ghost <- v7,
    Handlers <- {t1, t2}, Streams <- {1, 2}, MaxMissing <- 1, MaxFrames <- 2, MaxFaults <- 1, MaxExits <- 1

Pr == INSTANCE Presence WITH
    agent <- v1, hub <- v2, asks <- v3, queue <- v4, bus <- v5, pub <- v6, view <- v7, MaxSteps <- 4

Nf == INSTANCE ForgeNotify WITH
    forge <- v1, queue <- v2, cursor <- v3, subs <- v4, work <- v5, wire <- v6, ghost <- v7,
    Agents <- {a1}, Comments <- {"c"}, AuthorOf <- "c" :> a1, QueueSize <- 1, MaxChanges <- 2, MaxSweeps <- 2

Ib == INSTANCE IssueBoard WITH
    forge <- v1, tab <- v2, cards <- v3, jobs <- v4, mu <- v5, ghost <- v6,
    Issues <- {u1, u2}, Procs <- {t1, t2}, Lanes <- {"done"}, MaxCalls <- 4

Bi == INSTANCE BoardIngest WITH
    forge <- v1, db <- v2, repo <- v3, queue <- v4, arm <- v5, sweep <- v6, ghost <- v7,
    Issues <- {"issue"}, QueueSize <- 2, MaxPending <- 1, MaxCalls <- 2, MaxSweeps <- 2

WriteRequest(a, k, kind, head, stack) == [agent |-> a, key |-> k, kind |-> kind, head |-> head, stack |-> stack]
WriteScenarios ==
    {{WriteRequest(a1, "k1", kind, "", FALSE)} : kind \in {"issue", "comment", "review"}}
        \union {{WriteRequest(a1, "k2", "pull_request", "head", FALSE), WriteRequest(a2, "k2", "pull_request", "head", TRUE)}}
Fw == INSTANCE ForgeWrites WITH
    Procs <- {t1, t2}, MaxCalls <- 2, MaxFaults <- 3, MaxPeople <- 1, Scenarios <- WriteScenarios,
    intents <- v1, forge <- v2, authored <- v3, calls <- v4, sweep <- v5, flying <- v6, told <- v7

Fc == INSTANCE ForgeClient WITH
    Procs <- {t1, t2}, Owners <- {u1, u2}, Home <- u1, TTL <- 3, Life <- 2, Lead <- 1, Skip <- 1,
    MaxCalls <- 2, MaxFaults <- 1, RouteTime <- 5, ServeTime <- 2,
    now <- v1, insts <- v2, tokens <- v3, resolver <- v4, clients <- v5, calls <- v6, hold <- v7

Tr == INSTANCE Transcripts WITH
    rows <- v1, sess <- v2, arch <- v3, agent <- v4, wire <- v5, slot <- v6, hist <- v7,
    Cap <- 1, Big <- {3}, SinkTries <- 2, TeeTries <- 2, MaxFaults <- 1, MaxLives <- 2

Ri == INSTANCE RunnerIdentity WITH
    now <- v1, issuer <- v2, held <- v3, fetch <- v4, calls <- v5, hist <- v6,
    Procs <- {t1, t2}, Clusters <- {"c1", "c2"}, Files <- {"c2"}, Keys <- {"k1", "k2"}, Cooldown <- 1,
    StaleAfter <- 1, MaxChanges <- 2, MaxTime <- 3, First <- "c1" :> {"k1"} @@ "c2" :> {"k2"}

Gc == INSTANCE GitCredential WITH
    now <- v1, grants <- v2, b <- v3, toks <- v4, flights <- v5, calls <- v6, runner <- v7,
    Agents <- {a1}, Repos <- {u1, u2}, Base <- {u1}, Procs <- {t1, t2}, R <- b1, Life <- 2, Lead <- 1,
    MaxAge <- 3, MaxRepos <- 2, MaxToks <- 3, MaxTime <- 2

Sl == INSTANCE StackLife WITH
    Procs <- {t1, t2}, Bundled <- {"postgres"}, MaxCalls <- 3, MaxFaults <- 2,
    live <- v1, lock <- v2, record <- v3, mach <- v4, calls <- v5, hist <- v6

Gi == INSTANCE GuestImage WITH
    Procs <- {t1, t2}, Indexed <- TRUE, Attempts <- 2, MaxCalls <- 3, MaxFaults <- 2,
    final <- v1, junk <- v2, calls <- v3, hist <- v4

(* The namespace where an agent may take its owner's handle, as                *)
(* account_handles allows: user handles and agent handles have unique indexes  *)
(* of their own.                                                               *)
Nm == INSTANCE Namespace WITH
    agents <- v1, handle <- v2, coords <- v3, dms <- v4, peers <- v5, locks <- v6, txs <- v7,
    Users <- {u1, u2}, AgentIds <- {a1, a2, a3, b1}, Handles <- {"o", "p"}, AgentHandles <- {"m", "r", "o"},
    Txs <- {t1}, MaxSuffix <- 2, Owner <- u1, Peer <- u2, Manager <- a1, Report <- a2, Foreign <- b1,
    HandleOf <- u1 :> "o" @@ u2 :> "p" @@ a1 :> "m" @@ a2 :> "r" @@ b1 :> "m" @@ a3 :> Nil, MaxOps <- 3
NamesSpec == part = "names" /\ Nm!NsInit /\ [][Nm!NsNext /\ UNCHANGED part]_vars
(* A DM is the surface of the two accounts it was opened for.                  *)
DMTwoParties == Nm!DMTwoParties

Sv == INSTANCE SessionVolumes WITH
    Procs <- {t1, t2}, Inodes <- {1, 2, 3}, Window <- 0, MaxCalls <- 4, MaxFaults <- 2, MaxTime <- 2,
    fs <- v1, held <- v2, calls <- v3, now <- v4, use <- v5, hist <- v6

Vs == INSTANCE VolumeSnapshots WITH
    Procs <- {t1, t2}, Ids <- {1, 2}, Keys <- {"k", "j"}, Window <- 0, MaxCalls <- 4, MaxFaults <- 2, MaxTime <- 1,
    staging <- v1, trees <- v2, index <- v3, vol <- v4, locks <- v5, calls <- v6, env <- v7

(* The two concurrent transactions are interchangeable. *)
TxSymmetry == Permutations({t1, t2})

Init ==
    \/ part = "channels" /\ Ch!ChInit
    \/ part = "namespace" /\ Ns!NsInit
    \/ part = "topics" /\ Tp!TpInit /\ v7 = Nil
    \/ part = "boards" /\ Ab!AbInit /\ v6 = Nil /\ v7 = Nil
    \/ part = "config" /\ Ac!AcInit
    \/ part = "mirrors" /\ Fm!FInit
    \/ part = "bindings" /\ Sb!SInit
    \/ part = "telemetry" /\ Tm!TInit
    \/ part = "presence" /\ Pr!PInit
    \/ part = "notify" /\ Nf!NInit
    \/ part = "issues" /\ Ib!BInit /\ v7 = Nil
    \/ part = "ingest" /\ Bi!GInit
    \/ part = "writes" /\ Fw!WInit
    \/ part = "client" /\ Fc!CInit
    \/ part = "transcripts" /\ Tr!TInit
    \/ part = "identity" /\ Ri!RInit /\ v7 = Nil
    \/ part = "gitcred" /\ Gc!GInit
    \/ part = "stack" /\ Sl!SInit /\ v7 = Nil
    \/ part = "image" /\ Gi!GInit /\ v5 = Nil /\ v6 = Nil /\ v7 = Nil
    \/ part = "volumes" /\ Sv!VInit /\ v7 = Nil
    \/ part = "snapshots" /\ Vs!SnInit
ChannelsNext == part = "channels" /\ Ch!ChNext /\ UNCHANGED part
NamespaceNext == part = "namespace" /\ Ns!NsNext /\ UNCHANGED part
TopicsNext == part = "topics" /\ Tp!TpNext /\ UNCHANGED <<part, v7>>
BoardsNext == part = "boards" /\ Ab!AbNext /\ UNCHANGED <<part, v6, v7>>
ConfigNext == part = "config" /\ Ac!AcNext /\ UNCHANGED part
MirrorsNext == part = "mirrors" /\ Fm!FmNext /\ UNCHANGED part
BindingsNext == part = "bindings" /\ Sb!SbNext /\ UNCHANGED part
TelemetryNext == part = "telemetry" /\ Tm!TmNext /\ UNCHANGED part
PresenceNext == part = "presence" /\ Pr!PrNext /\ UNCHANGED part
NotifyNext == part = "notify" /\ Nf!NfNext /\ UNCHANGED part
IssuesNext == part = "issues" /\ Ib!IbNext /\ UNCHANGED <<part, v7>>
IngestNext == part = "ingest" /\ Bi!BiNext /\ UNCHANGED part
WritesNext == part = "writes" /\ Fw!FwNext /\ UNCHANGED part
ClientNext == part = "client" /\ Fc!FcNext /\ UNCHANGED part
TranscriptsNext == part = "transcripts" /\ Tr!TNext /\ UNCHANGED part
IdentityNext == part = "identity" /\ Ri!RNext /\ UNCHANGED <<part, v7>>
GitcredNext == part = "gitcred" /\ Gc!GNext /\ UNCHANGED part
StackNext == part = "stack" /\ Sl!SNext /\ UNCHANGED <<part, v7>>
ImageNext == part = "image" /\ Gi!GNext /\ UNCHANGED <<part, v5, v6, v7>>
VolumesNext == part = "volumes" /\ Sv!VNext /\ UNCHANGED <<part, v7>>
SnapshotsNext == part = "snapshots" /\ Vs!SnNext /\ UNCHANGED part
Next == ChannelsNext \/ NamespaceNext \/ TopicsNext \/ BoardsNext \/ ConfigNext \/ MirrorsNext \/ BindingsNext \/ TelemetryNext \/ PresenceNext \/ NotifyNext \/ IssuesNext \/ IngestNext \/ WritesNext \/ ClientNext \/ TranscriptsNext \/ IdentityNext \/ GitcredNext \/ StackNext \/ ImageNext \/ VolumesNext \/ SnapshotsNext
Spec == Init /\ [][Next]_vars

(* A channel's rows stay coherent: whoever owns an agent in it is in it too,   *)
(* it keeps the shape validateNewChannel requires, and a group's own           *)
(* visibility is its effective one.                                            *)
ChannelsCoherent == part = "channels" => Ch!ChannelsCoherent
(* Whoever loses sight of a channel is told by a last ChannelChanged.          *)
LosersTold == part = "channels" => Ch!LosersTold
(* A DM that stays one keeps its two agent parties.                            *)
DMKeepsParties == [][part = "channels" => Ch!PartiesStay]_vars
(* The agent tree is a forest, coordination channels follow it, and every      *)
(* derived name follows the handles, whatever transactions run at once.        *)
NamespaceFollows == part = "namespace" => Ns!NamespaceFollows
(* A cross-owner DM is opened or resumed only between owners peered at commit. *)
OnlyPeersOpen == [][part = "namespace" => Ns!OpensPeered]_vars
(* Whatever posts, answers, renames, merges and pins run at once, messages are *)
(* filed under stored topics, names are unique, a request stores one message,  *)
(* an ask has one answer, and the pinned board keeps its limit and order.      *)
ConversationSound == part = "topics" => Tp!ConversationSound
(* An agent's board keeps its limits and places whatever patches overlap, a    *)
(* patch answers with what it stored, a read never mixes two versions, and a   *)
(* panel whose last read did not fail shows the stored board once no event and *)
(* no read of it is on its way.                                                *)
BoardsSound == part = "boards" => Ab!BoardsSound
(* A matching version means a matching configuration, locked members come from *)
(* the tenant or the fleet, a registry version names one registry, and only    *)
(* overlapping writes strand a profile's model reference.                      *)
ConfigSound == part = "config" => Ac!ConfigSound
(* Whatever answers are lost and leases expire, a request key acts once, a     *)
(* mirror marked done was posted at its latest revision, its recheck removes   *)
(* every duplicate comment and is never forgotten.                             *)
MirrorsSound == part = "mirrors" => Fm!MirrorsSound
(* Whatever promotions, releases, losses, enrollments and restarts overlap, an *)
(* account is billed exactly while it is bound, no released binding comes back, *)
(* a live session resolves, and the two caches agree.                          *)
BindingsSound == part = "bindings" => Sb!BindingsSound
(* Whatever sends fail, streams end and Runners restart, a frame number is     *)
(* used once, a missing one is a gap and nothing else is, nothing of a process *)
(* follows its ERRORED, and the board shows the newest state the Hub took,     *)
(* unless a dead Runner's stream reached the Server after the next enrollment. *)
TelemetrySound == part = "telemetry" => Tm!TelemetrySound
(* Once edges and ask events are worked off, the presence published last is    *)
(* what the session's state (after a promotion, its process's) and the open    *)
(* asks say, and no edge is stranded.                                          *)
PresenceSound == part = "presence" => Pr!PresenceSound
(* notify: a quiet sweep leaves every subscriber of an issue told of its latest state.
   issues: once every worker is done the cards are what the rows say, and none went back.
   ingest: a clean sweep leaves the rows at what the forge shows, except rows it passed over as documented, and a
   checks event that found room in queue and held keys is followed by a read.
   A request key creates one object, and every answer names it, recorded as its agent's.
   A request goes to its owner's installation, with a token still good, and no rate gate is passed early. *)
ForgeSound ==
    /\ part = "notify" => Nf!SweepHeals
    /\ part = "issues" => Ib!CardsSound
    /\ part = "ingest" => Bi!IngestSound
    /\ part = "writes" => Fw!WritesSound
    /\ part = "client" => Fc!ClientSound
(* Records the Server keeps of agents' work: a resume rebuilds the lines the agent was told are durable, each once, and
   in order while each of the valve's segments holds one line (transcript_order is about the others). *)
RecordsSound ==
    /\ part = "transcripts" => Tr!TranscriptSound
(* Who may act: a Runner's token is judged by keys its own cluster serves.
   Git credentials: of the tokens this broker minted, what a narrowed grant no longer covers is revoked or about to
   expire, and an agent whose token was replaced is told; tokens from before a restart are forgotten. *)
AccessSound ==
    /\ part = "identity" => Ri!IdentitySound
    /\ part = "gitcred" => Gc!CredentialSound
(* Hosts: what the embedded stack started can be found again and is stopped alone (StackLife);
   a guest image is the pinned one, whole, and no leftover stops its repair (GuestImage);
   a session's volume is reaped only after its window, under its lock (SessionVolumes);
   a restored root holds a finished clone, and no restore clears an agent's work (VolumeSnapshots);
   each with the exceptions its own module states. *)
HostsSound ==
    /\ part = "stack" => Sl!StackSound
    /\ part = "image" => Gi!ImageSound
    /\ part = "volumes" => Sv!VolumeSound
    /\ part = "snapshots" => Vs!SnapshotSound
=============================================================================
