# A verification of Compass in TLA+

This directory holds TLA+ models of Compass, the TLC configurations that check
them on small instances, and TLAPS proofs of the properties that matter most for
every value of the constants. Source paths below are relative to the repository
root (`src/` in `PROJECT.json`); `PROJECT.json` maps every definition that models
code to its lines.

## The system

Compass has three tiers. The **Server** (Go) keeps accounts, channels, messages,
configuration, session bindings and transcripts in Postgres, relays to the forge,
and serves clients over `compass.v1`. A **Runner** hosts one sandbox per session
and is connected to the Server by one Sessions stream for commands and Publish
streams for frames. The **agent** in the sandbox reads control operations from a
control stream of the Runner and sends frames and acknowledgements back.

A message posted in a channel travels through most of the models:

1. `Channels`, `Namespace` and `Topics` say who is in the channel and how the post
   is stored; `EventBus` carries the change to the user interface.
2. `DeliveryRouting` decides which agents the post is for and records what is
   owed; `SettleHold` holds the post of an agent until its turn is over;
   `DeliveryCursor` says what a reconnecting agent is still owed.
3. `SessionCommands` brings the command to the Runner, `ControlLane` retains and
   writes it to the agent, and `ControlProtocol` follows it until it is handled.
4. `Telemetry`, `Transcripts`, `Presence` and `SessionBindings` are the way back:
   frames, the durable transcript, the agent's status and who is bound to what.

## Modules

Each component module has its state as variables, one action per handler or
critical section, `Next` and the specification. A transaction is one action when
its row locks make it atomic, and the steps between its locks when they do not.
Components that are only reached through `INSTANCE` (the ones of the store run)
end with a section that bounds their calls for TLC (`ChSpec` in `Channels`, and
so on). A `load` variable limits posts, calls and faults; it never limits a step
that a fairness condition asks for.

### Control: from the Server to the agent

| module | code | state and actions |
| --- | --- | --- |
| `LaneSession` | `go/internal/runner/gateway/control.go` | The values: a session record, a drainer, what each critical section makes of them (`absorbContiguous`, `CollectBatch`, `Acked`), and when they are well formed (`SessionInv`, `DrainerInv`). |
| `ControlLane` | the same file | One session id. Bind, Retire, Restart, Send, SendIfLive, AckControl, the replay barrier, and the drain loop of each subscription, one action per critical section. |
| `ControlLaneInv` | | The inductive invariant of `ControlLane`. |
| `ControlProtocol` | `runner/host.go`, `gateway/publish.go`, `packages/compass-agent/src/transport` | The same lane end to end: Start, Reload, Stop and the exit watcher, the agent's source, barrier, cursor and turn-end flush, and the streams that carry its acks. Takeovers and wakeups are `ControlLane`'s. |
| `SessionCommands` | `runnerhub` router, `runner/dispatch.go` | Dispatch, the bounded queue, the sender, `complete`, `detach`, and the Runner's dedup by request id, over several enrollments. |

### Delivery and events

| module | code | state and actions |
| --- | --- | --- |
| `DeliveryCursor` | `store/delivery_cursors.go` and the membership transactions | One agent's cursors: posts that draw a number and commit out of order, transactions that seed, acks. |
| `SettleHold` | `go/internal/delivery` settle and hold | The held posts of one author, settle edges and generations, reaping, pruning. |
| `DeliveryRouting` | `go/internal/delivery` dispatch, scan, consumer; `server/lifecycle.go` | Routing passes of the callback and of the loop, owed rows, the routed marker, wakes, recovery, with lost publishes, disconnects, lost sessions and restarts. |
| `EventBus`, `EventFeed` | `go/events`, `comms/subscribe.go`, `apps/ui/src/live` | The ring, live buffers, cursors and resync; and the abstract feed that they promise. |

### The store run

`MCStore` checks these in one run: `part` says which of them a behaviour is about.

| module | what it models |
| --- | --- |
| `Channels` | Groups, channels, DMs, members, policy, re-parenting, and the ChannelChanged that follows a commit. |
| `Namespace` | Agent creation, re-parenting, renames, coordination channels, DMs and peerings as READ COMMITTED transactions with their locks. |
| `Topics` | Posts with topic resolution and request ids, ask answers, rename, archive, merge, pins. |
| `AgentBoards` | Patches of a status board, snapshot reads, the panel. |
| `AgentConfig` | Four layers of configuration, their merge and version, and the model registry's compare-and-set. |
| `ForgeMirrors` | One outbox row: claims, leases, posts and edits, recovery, rechecks. |
| `SessionBindings` | Promotion, release, caches, loss reports, enrollment and reap, a peer Server. |
| `Telemetry` | Frame numbers, shared publisher, fences, gap tracking, the board's status. |
| `Presence` | The edges the Hub queues and the publisher's loop over them. |
| `ForgeNotify` | Webhook queue, router, sweep, subscriptions and acks for one issue. |
| `IssueBoard` | Issue and pull request rows and the cards projected from them. |
| `BoardIngest` | Webhook arm, held keys, sweep, watermark and backfill for one repository. |
| `ForgeWrites` | Creates under write intents, retries, the sweep, the authored registry. |
| `ForgeClient` | Installations, App tokens, single flight, rate gates. |
| `Transcripts` | The tee, commits, flush and archive, lifetimes, the resumed body. |
| `RunnerIdentity` | The keys of each cluster, refresh, staleness, Verify. |
| `GitCredential` | Token cache, single flight, refresh, grants and revocation. |
| `StackLife` | `compass-stack` up and down, its lock and its record of process groups. |
| `GuestImage` | Fetching, verifying and publishing the guest image. |
| `SessionVolumes` | Creation, attach, close stamp, expiry and locks of a session's volume. |
| `VolumeSnapshots` | Snapshots, their index, and the restore of a session's root. |

Proof modules: `LaneSessionProofs`, `ControlLaneProofs`, `ControlProtocolProofs`,
`SessionCommandsProofs`, `DeliveryCursorProofs`, `DeliveryRoutingProofs`, `EventBusProofs`,
`ChannelsProofs`. Modules named `MC...` only choose instances for TLC.

## Runs

Every run names its cfg (`tlc -config X.cfg M`). The four runs marked *violation* show
a disagreement between the code and one of its own comments.

| run | module | what it shows |
| --- | --- | --- |
| `lane` | `MCControlLane` | `NoLostWake`, `WatermarkExact`, `InOrderOnce`: arbitrary acks, the replay barrier and a Restart neither lose a wakeup, nor skip, repeat or reorder a live op. `SessionsAccurate` with two subscriptions that displace each other on an object that is retired; `EventuallyDrained`. |
| `protocol_safety` | `MCControlProtocol` | `HandledOnce`: an op is retained until handled, never mistaken for another, recognised when sent again. `ReloadRefusesNothing`. |
| `protocol_liveness` | `MCControlProtocol` | `EventuallyHandled`, for pulled and turn-end ops over a fault or a rejected prompt. |
| `commands` | `MCSessionCommands` | `CallsAccounted`, `ExecutedOnce`, `EventuallyAnswered` on streams that break at any step. |
| `delivery` | `MCDelivery` | Cursors: `TargetsSeeded`, `SweepLossless`, `AckedExact`, `CursorMonotone`. Held posts: `HeldSound`, `FiredSettled`. |
| `routing` | `MCDeliveryRouting` | `MarkedIsBacked`, `EventuallyRouted`, `OwedDelivered`, `LiveCaughtUp`. |
| `events` | `MCEventBus` | `NothingMissed`, the refinement `FeedSpec`, `EventuallyKnown`. |
| `store` | `MCStore` | One property per part, or several: see the comments beside them in `MCStore`. |
| `cursor_convert` | `DeliveryCursor` | *violation* of `ConvertedSeeded`: a DM conversion subscribes an agent without a cursor (`store/channels.go:874-877` says it has one). |
| `dm_names` | `MCStore` | *violation* of `DMTwoParties`: an agent with its owner's handle shares DM names with the owner (`comms/comms.go:742`). |
| `mirror_adopt` | `ForgeMirrors` | *violation* of `AdoptedIsEdited`: a Linear retry adopts a comment without editing it (`mirror/drive.go:188`). |
| `transcript_order` | `Transcripts` | *violation* of `ResumeInOrder`: a segment's entries are joined by a second newline, numbered with the empty lines between them, and merged out of order with the hot rows (`runnerhub/reconstruct.go:68-70` says the numbers are contiguous). |

### Bounds

Every bound is a constant with a `Max` or capacity name, or a field of a `load`. They
are chosen so that the case a property is about happens: a queue of one is full and
refuses (`commands`), a ring of two and a buffer of one overflow with four changes
(`events`), a third number lets an ack leave a gap (`lane`), two processes let a
redelivery follow a crash (`protocol_*`), two boots make a cursor stale, two
transactions interleave (`store`). A load runs one kind of disturbance with few
messages instead of all kinds at once. Each mutant in `PROJECT.json` is a bug of the
modelled code that its run finds within these bounds. `DeliveryCursor`'s instance is
small because its invariants are proved.

Symmetry is used in `store` alone, over the two transactions or workers `t1` and `t2`:
only invariants and action properties are checked there. No run with a liveness
property uses symmetry. `CHECK_DEADLOCK FALSE` stands in runs whose calls and posts
are bounded: when all were made the system is at rest. `routing` and `events` check
for deadlock.

### Fairness

Only weak fairness is assumed, and only of goroutines and loops that run whenever they
can:

- `lane`: each drain loop (`serve`).
- `protocol_liveness`: the host finishes a call it began, streams are served, the
  agent's loop runs, a turn ends, and Publish batches are handled.
- `commands`: the sender, the receiver, `complete`, `detach`, the handlers of the
  Runner, and the caller's return.
- `routing`: the consumer's loop and callback, the recovery ticker, the Runner's
  reattachment, the agents, and the settle edge of a post whose author is live, which
  rests on `NotStranded`, checked of `SettleHold` in `delivery`. Nothing is assumed of
  an author whose session ended without a last frame: its posts stay `stranded` until
  somebody resumes it, and `EventuallyRouted` does not promise them.
- `events`: a handler that committed publishes, and a client reads.

Posts, calls, faults, drops and restarts are never fair.

## Proofs

Run `tlapm M.tla` on each proof module. All theorems are about the general
specifications, without TLC's loads; the named bounds that remain in a model
(`MaxSeq`, `MaxEnroll` and so on) are arbitrary naturals.

**ControlLane** (`LaneSessionProofs`, `ControlLaneProofs`). `LaneInv` is the type
invariant with `ObjectsInv` (at most one object is neither unallocated nor retired),
`ChannelInv` (who reads which wake channel) and `LocalInv` (per object and drainer:
what is covered was written or acked, what is owed is in the batch or a token is
pending). None of the run's invariants is inductive alone: for `NoLostWake`, the state
of a drainer between its collection and its park has to be related to sends that
happened meanwhile. From `LaneInv`: `LaneNoLostWake`, `LaneInOrderOnce`,
`LaneSessionsAccurate`, `LaneWatermarkExact`. The bound on retention
(`LaneRetentionBounded`) has an induction of its own. Assumptions: `SessionAssumption`
and `LaneAssumption` (live and replay ops differ, bounds are naturals).

**ControlProtocol** (`ControlProtocolProofs`, on the session lemmas of
`LaneSessionProofs`). `ProtocolInv` is the types, the two properties and seven parts:
`LifeInv` (a process that is down holds nothing; an open session carries the current
epoch), `CallInv` (what the steps of Start, Reload and Stop find), `UniqueInv` (over
lane, batch and agent, a number names one op and a live op has one number), `AgentInv`
(what the ack cursor covers was handled here, what is queued is held, what was handled
here is recognised), `LoopInv` (the agent's buffer and the op it applies), `AcksInv`
(an ack that can still reach the current epoch covers handled ops only) and
`ReloadInv` (until a reloaded process has decoded `replay_complete` it has decoded
nothing and that op is the lane's first; until it has applied it, it is the next op of
its loop). `HandledOnce` is not inductive: an ack drops ops from the lane long after
the agent sent it, so `AcksInv` follows it through the spine, the batch in flight and
the handler, and it stays true only because a reload gives renumbered ops a new epoch
(`LifeInv`). `ReloadRefusesNothing` needs `UniqueInv` to conclude that the first op
written is `replay_complete`. There is one lemma per action or group of like actions.
Theorems: `ProtocolInvariance`, `HandledOnceHolds`, `ReloadRefusesNothingHolds`.
Assumptions: `SessionAssumption` and `ProtocolAssumption` (the kinds of op are
disjoint, there is one replay op, bounds are naturals).

**SessionCommands** (`SessionCommandsProofs`). `CommandsInv` is the types and, for
each enrollment, `EnrollmentInv`: the calls of an id are closed but for the last, the
queue is within its capacity, an id runs once and a result names an execution that
ended (`Answered`), and a deliver in transit on a whole stream is tracked until it is
counted (`Tracked`); with `WaitersReal` for callers. Theorems: `CommandsTyped`,
`EveryCallAccounted`, `RunsOnce`, and `NobodyForgotten`, the safety half of
`EventuallyAnswered`. Assumptions: kinds of frame differ, bounds are naturals.

**DeliveryCursor** (`DeliveryCursorProofs`). `CursorInv` is the types, `RowsInv`
(`NumbersInv`, `CrossedInv`, `AboveInv`, `AckedNotSwept`) and `TargetsInv`. The
strengthening needed is `CrossedInv`: every number a low-water mark passed above its
seed is a committed post of that channel that was acked, was the agent's own or was
passed over. `TargetsInv` says that the home channel and the DMs of a party have a
cursor, and what an open membership or policy transaction read under the row lock.
Assumptions: DMs and at most one home channel are channels, `MaxSeq` is a natural.
Theorems: `Lossless`, `AcksExact`, `EveryTargetSeeded`, `CursorsOnlyAdvance` (an
action property).

**DeliveryRouting** (`DeliveryRoutingProofs`). `RoutingInv` is the types, a condition
on each routing pass (`PassOK`: whoever the pass no longer lists is backed by an owed
row, an ack, a steer or a swallowed fault, except the agent whose row it is about to
record) and the property for every marked message. Theorems: `RoutingInvariant`,
`MarkersAreBacked`. `Setting` only types the constants.

**EventBus** (`EventBusProofs`). `BusInv` is the types, `Consecutive`, per client
`StreamInv` and `CursorInv`, and `NothingMissed`. Theorems: `NoGapNoRepeat`,
`MissesNothing`, and `ImplementsFeed`: the bus implements `EventFeed` under the
mapping `Position`, step by step. Capacities are any positive naturals.

**Channels** (`ChannelsProofs`). `ChannelsInv` is the types, `GroupsInv`, `RowsInv`,
`CallsInv`, `OwnersPresent`, `ShapesHold` and `TellingInv`. The key lemma `Bare` says
that groups of one visibility are closed under parents, so the bare column equals the
effective visibility that the recursive query computes. `TellingInv` strengthens
`LosersTold`: an account that lost sight is named by an event that has not read the
new anchor yet, or whose reading still differs; an event whose reads fail after the
commit (`ReadFails`) takes along those whom it alone would have told. Theorems:
`RowsStayCoherent`, `LosersAreTold`, `PartiesKept` (an action property) and
`BoundedIsSpec`, which carries the results to the specification TLC explores.
`Setting`: agents are not users, owners are users, `Nil` names nothing; `PartiesKept`
also takes a finite set of agents.

### Only model-checked

- Liveness, which this prover does not handle: `EventuallyDrained`,
  `EventuallyHandled`, `EventuallyAnswered`, `EventuallyRouted`, `OwedDelivered`,
  `LiveCaughtUp`, `EventuallyKnown`.
- `HeldSound` and `FiredSettled`: `SettleHold` filters queues with `SelectSeq`,
  and what that returns needs an induction over sequences.
- The parts of the store run other than `Channels`. These have no proof yet.

## Abstractions and exceptions

A property that the code keeps only outside a certain race says so in its definition:
a history variable or a set (`late`, `raced`, `excused`, `dropped`, `overtaken`,
`hist`, `ghost`, `forgot`) records that the race happened, and the property excuses
just that case. These are the races, and what each model leaves out.

**Control.** `ControlProtocol`: `late` marks a Publish stream whose epoch is read
after the next Start or Reload (`gateway/publish.go:43`), which then acknowledges for
another process; `RejectedPrompt` is a notification whose turn-end prompt was rejected
and that stays queued until the next process (`agent.ts:712`). A Start may race
another (`host.go:516`) and a send may reach an object that is being retired
(`control.go:566`). Not modelled: the budget of the reconnect ladder, transcript
materialisation, secrets, and comms acks of the agent. `SessionCommands`: at most one
copy of a signal is in transit; the router forgets completed ids, and delivers may
swap on the Runner. Not modelled: LRU eviction of refusals, coalescing of config
signals, the Provision semaphore.

**Delivery.** `SettleHold`: `raced` covers a STARTING observed late that strips the
turn, two events of one millisecond under a strict comparison (`dispatch.go:81`),
pruning on stale liveness (`consumer.go:422`) and a reap that leaves queued edges
(`settle.go:295`). The Runner-side hold has no production caller. `DeliveryCursor`: a
post numbered below a seed that commits late is not swept; TREE toggles have the shape
of a subscription; `Home` is a target without a subscription and starts with a cursor;
a refused `requireDMTwoParties` is `AbortUpdate`. `DeliveryRouting`: `steered` are the
messages pushed to a session that was live, for which no owed row is written.
`dropped` are those that a swallowed fault lost: the mentioned agents could not be
read, in a scan (`scan.go:16`) as in a callback (`dispatch.go:254`), their row could
not be written, or the message of an owed row could not be read and the row was
cleared; the pass marks the message routed all the same. `excused` are agents whose
wake failed, whose session was stopped or whose owed rows could not be read (the
rewake flag is cleared before that read), until a sweep of their rows succeeds.
`stranded` posts are held under a session that died without a last frame. A swept
agent that is offline is caught up when its next session starts; a failed wake is
retried only when a Runner attaches. Not modelled: the pin sweep, a failing
`hasOwedWork` (one wake more), and membership changes within a pass.

**Events.** A commit comes before its publish, and publishes may overtake each other.
A client's cursor moves only on events it may see. A terminal stream (at `-1`) still
sends a boundary frame when `since = 0`. An epoch nonce is a fresh number. Not
modelled: the session tail, client backoff, event contents.

**Channels and accounts.** `Channels`: one update per call (a batch under one row lock
is the same steps in a row); the code allows removing the owner of an OWNER_ONLY
channel; after a commit any read for its event may fail, and who would have been told
by that event alone is not told (`ReadFails`); the agent tree is fixed. `OpenDM` reads
a DM by name without a lock (`GetDMChannelByName`) and then re-asserts its policy
(`ReassertDMMandatory`, which does not ask for the kind): the model has them as one
step. A conversion between the two would leave a named channel mandatory; no property
here says that it is not. `Namespace`: manual changes of coordination channels belong
to `Channels`; the deadlock of CreateAgent with RenameHandle ends in one `Rollback`;
`parties` records who opened or resumed a DM; group names are one key per parent; user
creation is not modelled. `Topics`: one channel; the events that follow a commit are
`EventBus`'s; a re-check after a lock wait is a fresh read; deadlocks of merge with
AnswerAsk, or of two crossing merges, end in a `Rollback`. `AgentBoards`: a panel
whose fetch fails shows what it had until its timer or the next event. `AgentConfig`:
a content hash is the bundle itself; an expected version is one read before; stranding
a model reference is what the code accepts as self-healing.

**Forge.** `ForgeMirrors`: an edit of a worker whose lease expired may leave an older
revision shown; `RecheckDue` assumes that ten minutes outlast every write begun
before; a recheck is forgotten when its row read fails, and a timer is lost at a
restart until DriveAgent. A crash in a recheck after it deleted the row's own comment
lets later edits fail. User ask mirrors, rendering and a person deleting comments are
not modelled. The last matters in one place: `recheckComments` slices the marked
comments past the first without asking whether one is left. `ForgeNotify`: one issue;
the checks half of a pull request's snapshot, OPENED events and their container
subscriptions are left out; a missed webhook whose ETag was carried forward
(`notify_router.go`) is not healed and is excused. `IssueBoard`: one pull request; a
changed queue entry may not be shown (`board/issue_prs.go:22-48`), excused; a re-read
that fails publishes the caller's row, which counts as a failure. `BoardIngest`:
excuses a row that fails beside a newer success, edits within one second, and CI
events lost by drop, failure, disabled repository or restart. The backfill window is
one unit of the clock, and `MaxPending` is below the queue size (the code has them
equal) so that the held keys overflow in a short run; pull requests that a cold start
leaves out are `passed` until a row of theirs is sunk. `ForgeWrites`: `Contested`
excuses a person's closed pull request on the same head, completed by a concurrent
retry (`server/forge_write_sweep.go:145`), and one agent's retry that takes another's
pull request; an exhausted budget leaves a key pending. `ForgeClient`: a response to a
request already past the gate reopens it; an answer's rate headers are charged to the
request's own bucket; a 403 for a missing permission invalidates a token that is good;
a flight still answers joiners after storing. `GitCredential`: a refresh the forge
rejects forgets tokens (`forgot`), a restart forgets all of them (`before`), and
nothing revokes those; the signal that retries a rate-limited mint is left out; a
fetch that joins a flight of an older generation returns nothing; one forge owner, one
fetch per agent at a time. Time is counted in the units each module names, and `Tick`
assumes no pause as long as a unit between looking up a flight and joining it.

**Sessions.** `SessionBindings`: one tenant, Provision atomic; `overtaken` covers a
Start promoted after a re-enroll, an unversioned release of Stop, a refused deliver or
an ERRORED frame whose binding is looked up after a resume or that a live agent
reports of itself, and a late promote of a dead session; a release's delete may fail.
The fallback in memory after a failed row write does not serve Runner calls.
`Telemetry`: one session; a failed Send counts as not delivered; a shared stream that
times out loses its undelivered suffix; close is atomic with its ack; older
allocations stay burned; `stray` is a stream opened under an earlier enrollment and
stamped with the current one. A run has either two handlers and an exit, or one
handler with twice the frames, enough to overflow the gap set. `Presence`: excuses a
status timeout, a failed store read, bus lag, an edge overtaken by a release, a frame
that outlives a restart and an activity event published from an older read, and a
release reported before a promotion that preceded it (RIG-1651 in the code); a
promotion's status read may mask a WORKING edge until the next edge (`masked`).
`Transcripts`: one session, one Server, no blobs; texts keep their newlines, since a
segment is joined and split by them; that the agent's SDK passes over empty lines is
external; `Shadowed` is a session-end archive of an identical range that hides a valve
archive; a commit that outlives its lifetime takes a number of the next.
`RunnerIdentity`: claims and the cluster file's syntax are left out.

**Hosts.** `StackLife`: `hist.raced` is an up that took the lock while a down ran,
`hist.lost` a child that was started and not recorded, or whose record was
overwritten, `hist.unsure` a child of a record whose boot could not be compared; a
group whose leader is gone passes for ours, as in the code, and a stranger's is
excused; an identity check and its signal are one step, and the owner's own drain
signals the leader, which takes its group along. `GuestImage`: an untrusted directory
is checked in one step and removed in another, so the removal may take what another
call published in between. `SessionVolumes`: a crash in the middle of a suspended
session's Attach makes it an orphan, closed at discovery; a stamp whose sync failed
may be undone by a power failure (`late`, `undone`), a removed tree may not; the
package has no caller outside tests. `VolumeSnapshots`: a tree may be torn, by a
removal that stopped or by a clone of a root that was not whole; customer mounts are
left out; `cold` marks a tree whose marker an interrupted restore left behind, and the
next restore clears the agent's work although `checkout.go` says a restore never
overwrites volume contents.

## Not modelled

The parts with status `not_modelled` in `PROJECT.json`, with reasons: Server assembly
and doors, the session tail, secrets, model gateway credentials, usage metering, the
Linear agent, the fabric between instances, sandbox runtimes, the guest daemon, Runner
configuration files and session blobs, tenant scoping, bundled Postgres, desktop and
command line clients, the web interface beyond its event client, generated code and
tooling. The models cover a small part of the repository's lines: they are about state
that several actors share.
