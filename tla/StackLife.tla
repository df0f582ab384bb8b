------------------------------ MODULE StackLife ------------------------------
(***************************************************************************)
(* The embedded stack (internal/stack, its adapters, cmd/compass-stack):   *)
(* `up` starts postgres, the collector, NATS, the gateway, the server and  *)
(* the Runner one after the other under a lock file, writing each child    *)
(* into the pgid record as it starts; the process may then exit and leave  *)
(* them running.  `down`, a process of its own, finds them through the     *)
(* record.                                                                 *)
(*                                                                         *)
(*   live    the children that run: component |-> instances.  A container  *)
(*           is known by its name, a process by its group and start time   *)
(*   lock    the number of the process that wrote the lock file, or 0      *)
(*   record  the pgid file: Nil or [boot, ids: component |-> instance or 0]*)
(*   mach    the machine's boot, and whether its id can be read; the group *)
(*           numbers of children that are gone and that someone else's     *)
(*           processes have now (reused), those whose start time, counted  *)
(*           from boot, agrees too (twins), and the groups, ours or not,   *)
(*           whose leader is gone (headless)                               *)
(*   calls   the processes that run up and down                            *)
(*   hist    what the properties excuse: children nobody could record, ups *)
(*           that took the lock while a down was at work, and children of  *)
(*           records whose boot could not be compared (unsure)             *)
(***************************************************************************)
EXTENDS Integers, Sequences, FiniteSets
CONSTANTS Procs, Bundled, Nil
VARIABLES live, lock, record, mach, calls, hist
vars == <<live, lock, record, mach, calls, hist>>

Chain == <<"postgres", "collector", "nats", "gateway", "server", "runner">>
Component == {Chain[i] : i \in 1..Len(Chain)}
Container == {"postgres", "collector", "nats", "gateway"}
consumerTier == {"runner", "server", "gateway"}
None == [c \in Component |-> 0]
Idle == [op |-> "idle", at |-> "done", num |-> 0, i |-> 0, own |-> None, pgids |-> None,
         tgt |-> {}, surv |-> {}]

Booted(n, known) == [boot |-> n, known |-> known, reused |-> {}, twins |-> {}, headless |-> {}]
Init == /\ live = [c \in Component |-> {}] /\ lock = 0 /\ record = Nil
        /\ mach = Booted(1, TRUE)
        /\ calls = [p \in Procs |-> Idle]
        /\ hist = [next |-> 1, calls |-> 0, lost |-> {}, raced |-> FALSE, hit |-> {}, dirty |-> FALSE,
                   unsure |-> {}]

(* ---- the state directory ----------------------------------------------- *)
pidLive(n) == \E q \in Procs : calls[q].num = n
lockHolderLive == lock # 0 /\ pidLive(lock)
readBootID == IF mach.known THEN mach.boot ELSE 0
writePgidFile(ids) == [boot |-> readBootID, ids |-> ids]
readPgidFile == record
removePgidFile == Nil
release == 0
clearLockFile == release
Led(c) == live[c] \ mach.headless
Answering == Led("server") # {}

(* ---- who a recorded child is now --------------------------------------- *)
(* A group is told by its leader: ours when the start time agrees, someone *)
(* else's when not.  One without a leader passes for ours.                 *)
Liveness(c, id) ==
    CASE id \notin live[c] \cup mach.twins \cup mach.reused -> "gone"
      [] id \in mach.headless -> "orphaned"
      [] id \in (live[c] \cup mach.twins) \ mach.headless -> "owned"
      [] OTHER -> "recycled"
groupOurs(c, id) == id # 0 /\ Liveness(c, id) \in {"owned", "orphaned"}
exists(c) == live[c] # {}
entryAlive(c, id) == IF c \in Container THEN id # 0 /\ exists(c) ELSE groupOurs(c, id)

(* Stopping kills a container by its name, whichever runs under it, and a  *)
(* process group only if it is ours.                                       *)
remove(c) == {}
Signal(c, id) == live[c] \ {id}
signalKill(c, id) == IF c \in Container THEN remove(c) ELSE Signal(c, id)
Strangers(ids, cs) == {ids[c] : c \in {d \in cs \ Container : groupOurs(d, ids[d]) /\ ids[d] \notin live[d]}}
Kill(ids, cs) == [c \in Component |-> IF c \in cs THEN signalKill(c, ids[c]) ELSE live[c]]

(* ---- up ---------------------------------------------------------------- *)
run(c, id) == {id}
StartProcess(c, id) == live[c] \cup {id}
Begin(p, op, at) ==
    /\ calls[p].op = "idle"
    /\ calls' = [calls EXCEPT ![p] = [Idle EXCEPT !.op = op, !.at = at, !.num = hist.calls + 1, !.i = 1]]
Downs == \E q \in Procs : calls[q].op = "down"

tryCreateLock(p) == lock' = hist.calls + 1
(* The lock, taken from nobody or from a holder that is gone; a live holder*)
(* leaves nothing to do but to attach to its server.                       *)
acquireLock(p) ==
    /\ ~lockHolderLive
    /\ Begin(p, "up", "probe")
    /\ tryCreateLock(p)
    /\ hist' = [hist EXCEPT !.calls = @ + 1, !.raced = @ \/ Downs]
    /\ UNCHANGED <<live, record, mach>>
attachContended(p) ==
    /\ lockHolderLive /\ calls[p].op = "idle"
    /\ UNCHANGED vars
Up(p) == acquireLock(p) \/ attachContended(p)
runUp(p) == Up(p)
runStatus(p) == Up(p)

(* Under the lock: a live server is attached to, whatever its version, and *)
(* the lock given back; otherwise the chain is started.                    *)
upLocked(p) ==
    /\ calls[p].at = "probe"
    /\ IF Answering THEN lock' = release /\ calls' = [calls EXCEPT ![p] = Idle]
       ELSE calls' = [calls EXCEPT ![p].at = "start"] /\ UNCHANGED lock
    /\ UNCHANGED <<live, record, mach, hist>>

At(c, k) == [c EXCEPT !.at = k]
Fail(c) == [c EXCEPT !.at = IF c.op = "up" THEN "drain" ELSE "up", !.op = IF @ = "up" THEN @ ELSE "owner"]
(* A component started: recorded before anything else happens to it.  A    *)
(* container takes the place of the one that had its name.                 *)
Start(p, c) ==
    LET k == calls[p]  id == hist.next IN
    /\ k.at = "start" /\ Chain[k.i] = c
    /\ IF c \in Container \ Bundled
       THEN /\ calls' = [calls EXCEPT ![p] = At(k, "wait")]
            /\ UNCHANGED <<live, hist>>
       ELSE /\ live' = [live EXCEPT ![c] = IF c \in Container THEN run(c, id) ELSE StartProcess(c, id)]
            /\ calls' = [calls EXCEPT ![p] = [At(k, "record") EXCEPT !.own[c] = id]]
            /\ hist' = [hist EXCEPT !.next = @ + 1]
    /\ UNCHANGED <<lock, record, mach>>
startPostgres(p) == Start(p, "postgres")
startCollector(p) == Start(p, "collector")
startNats(p) == Start(p, "nats")
startGateway(p) == Start(p, "gateway")
startServer(p) == Start(p, "server")
startRunner(p) == Start(p, "runner")
StartFails(p) ==
    /\ calls[p].at = "start"
    /\ calls' = [calls EXCEPT ![p] = Fail(@)]
    /\ UNCHANGED <<live, lock, record, mach, hist>>

(* The whole list of this stack's children replaces the file.              *)
appendEntry_Last(p) ==
    LET k == calls[p]  c == Chain[k.i]  ids == [None EXCEPT ![c] = k.own[c]] IN
    /\ k.at = "record"
    /\ record' = writePgidFile(ids)
    /\ calls' = [calls EXCEPT ![p] = [At(k, "wait") EXCEPT !.pgids = ids]]
    /\ UNCHANGED <<live, lock, mach, hist>>
Overwritten(ids) == IF record = Nil THEN {} ELSE {record.ids[c] : c \in Component} \ {ids[c] : c \in Component}
appendEntry(p) ==
    LET k == calls[p]  c == Chain[k.i]  ids == [k.pgids EXCEPT ![c] = k.own[c]] IN
    /\ k.at = "record"
    /\ record' = writePgidFile(ids)
    /\ calls' = [calls EXCEPT ![p] = [At(k, "wait") EXCEPT !.pgids = ids]]
    /\ hist' = IF k.pgids = None THEN [hist EXCEPT !.lost = @ \cup Overwritten(ids)] ELSE hist
    /\ UNCHANGED <<live, lock, mach>>
RecordFails(p) ==
    LET k == calls[p]  c == Chain[k.i] IN
    /\ k.at = "record"
    /\ calls' = [calls EXCEPT ![p] = Fail([k EXCEPT !.pgids[c] = k.own[c]])]
    /\ hist' = [hist EXCEPT !.lost = @ \cup {k.own[c]}]
    /\ UNCHANGED <<live, lock, record, mach>>

(* Each component is waited for until it answers, or its budget ends.      *)
Wait(p, c) ==
    LET k == calls[p] IN
    /\ k.at = "wait" /\ Chain[k.i] = c
    /\ c \in Container \ Bundled \/ Led(c) # {}
    /\ calls' = [calls EXCEPT ![p] = IF k.i < Len(Chain) THEN [At(k, "start") EXCEPT !.i = @ + 1]
                                     ELSE [At(k, "up") EXCEPT !.op = "owner"]]
    /\ UNCHANGED <<live, lock, record, mach, hist>>
waitPostgres(p) == Wait(p, "postgres")
waitCollector(p) == Wait(p, "collector")
waitNats(p) == Wait(p, "nats")
waitGateway(p) == Wait(p, "gateway")
waitReady(p) == Wait(p, "server")
waitRunnerEnrolled(p) == Wait(p, "runner")
WaitFails(p) ==
    /\ calls[p].at = "wait"
    /\ calls' = [calls EXCEPT ![p] = Fail(@)]
    /\ UNCHANGED <<live, lock, record, mach, hist>>

(* What this process started is stopped, the Runner first; a child whose   *)
(* stop fails stays.  The leader is told, so members without one stay too. *)
Headless(p) == {c \in Component : calls[p].own[c] \in live[c] \cap mach.headless}
drainChildren(p, stuck) ==
    Kill(calls[p].own, {c \in Component : calls[p].own[c] # 0} \ (stuck \cup Headless(p)))
Unled(p, cs) == {calls[p].own[c] : c \in cs \cap Headless(p)}
(* A failed up drains and gives the lock back; the record stays.           *)
UpFails(p, stuck) ==
    /\ calls[p].at = "drain"
    /\ live' = drainChildren(p, stuck)
    /\ lock' = release
    /\ calls' = [calls EXCEPT ![p] = Idle]
    /\ UNCHANGED <<record, mach, hist>>

(* ---- the process that brought it up ------------------------------------ *)
(* It may exit, its children and the lock file staying behind ...          *)
Exit(p) ==
    /\ calls[p].op = "owner"
    /\ calls' = [calls EXCEPT ![p] = Idle]
    /\ UNCHANGED <<live, lock, record, mach, hist>>
(* ... or stop the stack itself, its record going if no stop failed, as    *)
(* that of a Runner does that ended by itself with an error ...            *)
RunnerDead(p) == calls[p].own["runner"] # 0 /\ calls[p].own["runner"] \notin Led("runner")
Down(p, stuck) ==
    /\ calls[p].op = "owner" /\ calls[p].at = "up"
    /\ live' = drainChildren(p, stuck)
    /\ \E clean \in {stuck = {}} \cup (IF RunnerDead(p) THEN {FALSE} ELSE {}) :
          /\ record' = IF clean THEN removePgidFile ELSE record
          /\ hist' = IF clean THEN [hist EXCEPT !.lost = @ \cup Unled(p, Component)] ELSE hist
    /\ lock' = release
    /\ calls' = [calls EXCEPT ![p] = Idle]
    /\ UNCHANGED mach
(* ... or replace its Runner: not if the stop fails and the Runner still   *)
(* runs; and no further than forgetting it if the record cannot be written,*)
(* or the stop failed on one that ended by itself.                         *)
stopRunner(p) == Kill(calls[p].own, {"runner"} \ Headless(p))
runnerEnrollment == Answering
RestartRunner(p, how) ==
    LET k == calls[p]  ids == [k.pgids EXCEPT !["runner"] = 0]
        without == [k EXCEPT !.own["runner"] = 0, !.pgids = ids] IN
    /\ k.op = "owner" /\ k.at = "up" /\ k.own["runner"] # 0 /\ runnerEnrollment
    /\ k.pgids["runner"] # 0
    /\ how = "dead" => RunnerDead(p)
    /\ live' = stopRunner(p)
    /\ record' = IF how = "unsaved" THEN record ELSE writePgidFile(ids)
    /\ calls' = [calls EXCEPT ![p] = IF how # "done" THEN without
                     ELSE [without EXCEPT !.op = "restart", !.at = "start", !.i = Len(Chain)]]
    /\ hist' = [hist EXCEPT !.lost = @ \cup Unled(p, {"runner"})]
    /\ UNCHANGED <<lock, mach>>

(* ---- down, from another process ---------------------------------------- *)
(* Not while a live up holds the lock.                                     *)
DownDetached(p) ==
    /\ ~lockHolderLive
    /\ Begin(p, "down", "consume")
    /\ hist' = [hist EXCEPT !.calls = @ + 1]
    /\ UNCHANGED <<live, lock, record, mach>>
runDown(p) == DownDetached(p)

dropPriorBootGroups_Never(r) == r.ids
(* A record of an earlier boot names groups that are gone, whatever the    *)
(* numbers say now; container names outlive a boot.  Boots that cannot be  *)
(* compared leave the record as it is.                                     *)
Comparable(r) == r.boot # 0 /\ readBootID # 0
dropPriorBootGroups(r) ==
    IF Comparable(r) => r.boot = readBootID THEN r.ids
    ELSE [c \in Component |-> IF c \in Container THEN r.ids[c] ELSE 0]
liveTargets(ids) == {c \in Component : entryAlive(c, ids[c])}
(* The record is read and removed under the guard, so that no other down   *)
(* acts on it too; a server that answers without one is left alone.        *)
consumeRecord(p) ==
    LET k == calls[p] IN
    /\ k.at = "consume"
    /\ hist' = IF record # Nil /\ ~Comparable(record)
               THEN [hist EXCEPT !.unsure = @ \cup {record.ids[c] : c \in Component}] ELSE hist
    /\ IF readPgidFile = Nil \/ (Comparable(record) /\ record.boot # readBootID /\ Answering)
       THEN calls' = [calls EXCEPT ![p] = Idle] /\ UNCHANGED record
       ELSE LET ids == dropPriorBootGroups(record) IN
            /\ record' = removePgidFile
            /\ calls' = [calls EXCEPT ![p] = [k EXCEPT !.at = "consumers", !.pgids = ids, !.tgt = liveTargets(ids)]]
    /\ UNCHANGED <<live, lock, mach>>

(* One tier: told to stop, waited for, killed; what outlives that survives.*)
drainOne(p, cs) == Kill(calls[p].pgids, cs)
drainTier(p, tier, stuck, next) ==
    LET k == calls[p]  cs == (k.tgt \cap tier) \ stuck IN
    /\ live' = drainOne(p, cs)
    /\ hist' = [hist EXCEPT !.hit = @ \cup (Strangers(k.pgids, cs) \ (mach.headless \cup hist.unsure))]
    /\ calls' = [calls EXCEPT ![p] = [k EXCEPT !.at = next, !.surv = @ \cup (k.tgt \cap tier \cap stuck)]]
    /\ UNCHANGED <<lock, record, mach>>
drainTargets(p, stuck) == calls[p].at = "consumers" /\ drainTier(p, consumerTier, stuck, "infra")
drainInfra(p, stuck) == calls[p].at = "infra" /\ drainTier(p, Component \ consumerTier, stuck, "end")
(* A cancelled down only tells the infrastructure to stop.                 *)
infraStopOnCancel(p) ==
    LET k == calls[p] IN
    /\ k.at = "infra"
    /\ calls' = [calls EXCEPT ![p] = [k EXCEPT !.at = "end", !.surv = @ \cup (k.tgt \ consumerTier)]]
    /\ UNCHANGED <<live, lock, record, mach, hist>>

survivorRecord(ids, surv) == [c \in Component |-> IF c \in surv THEN ids[c] ELSE 0]
(* Nothing left: the lock file goes too.  Otherwise what survived is the   *)
(* record for the next down, if it can be written.                         *)
Rewritten(k) == writePgidFile(survivorRecord(k.pgids, k.surv))
DownEnds(p) ==
    LET k == calls[p] IN
    /\ k.at = "end"
    /\ IF k.surv = {} THEN lock' = clearLockFile /\ UNCHANGED record
       ELSE record' = Rewritten(k) /\ UNCHANGED lock
    /\ hist' = [hist EXCEPT !.dirty = @ \/ (k.surv = {} /\ ~hist.raced /\
                    \E c \in Component : k.pgids[c] # 0 /\ k.pgids[c] \in live[c])]
    /\ calls' = [calls EXCEPT ![p] = Idle]
    /\ UNCHANGED <<live, mach>>
RewriteFails(p) ==
    LET k == calls[p] IN
    /\ k.at = "end" /\ k.surv # {}
    /\ hist' = [hist EXCEPT !.lost = @ \cup {k.pgids[c] : c \in k.surv}]
    /\ calls' = [calls EXCEPT ![p] = Idle]
    /\ UNCHANGED <<live, lock, record, mach>>

(* ---- faults ------------------------------------------------------------ *)
(* A process of ours is killed: a child started and not yet recorded, and  *)
(* a record it had taken, are lost.                                        *)
Crash(p) ==
    LET k == calls[p] IN
    /\ k.op # "idle"
    /\ hist' = [hist EXCEPT !.lost = @ \cup
                    (IF k.at = "record" THEN {k.own[Chain[k.i]]} ELSE {}) \cup
                    (IF k.at \in {"consumers", "infra", "end"} THEN {k.pgids[c] : c \in Component} ELSE {})]
    /\ calls' = [calls EXCEPT ![p] = Idle]
    /\ UNCHANGED <<live, lock, record, mach>>
(* A child ends by itself: its leader alone, or all of it, and then its    *)
(* number may be given to a stranger, whose leader may end as well.        *)
Die(c) ==
    \E id \in live[c], left \in {"nothing", "members", "stranger", "headless stranger"} :
        /\ c \in Container => left = "nothing"
        /\ id \in mach.headless => left # "members"
        /\ live' = IF left = "members" THEN live ELSE [live EXCEPT ![c] = @ \ {id}]
        /\ mach' = [mach EXCEPT
               !.reused = IF left \in {"stranger", "headless stranger"} THEN @ \cup {id} ELSE @,
               !.headless = IF left \in {"members", "headless stranger"} THEN @ \cup {id} ELSE @ \ {id}]
        /\ UNCHANGED <<lock, record, calls, hist>>
(* The machine restarts: every process ends, files and containers' names   *)
(* stay, and numbers and start times may come up again.                    *)
Reboot ==
    LET ids == UNION {live[c] : c \in Component \ Container} IN
    /\ live' = [c \in Component |-> IF c \in Container THEN live[c] ELSE {}]
    /\ \E known \in BOOLEAN : mach' = [Booted(mach.boot + 1, known) EXCEPT !.twins = mach.twins \cup ids]
    /\ calls' = [p \in Procs |-> Idle]
    /\ hist' = [hist EXCEPT !.lost = @ \cup {calls[p].own[c] : p \in {q \in Procs : calls[q].at = "record"}, c \in Component}
                                      \cup {calls[p].pgids[c] : p \in {q \in Procs : calls[q].op = "down"}, c \in Component}]
    /\ UNCHANGED <<lock, record>>

(* ---- what must hold ---------------------------------------------------- *)
Recorded(c, id) == record # Nil /\ record.ids[c] = id
InHand(c, id) == \E p \in Procs : id \in {calls[p].own[c], calls[p].pgids[c]}
(* Every child that runs can still be found: it is in the record, or in    *)
(* the hands of a process that runs.  Not so the children whose record     *)
(* could not be written (a survivor's among them) or was lost with its     *)
(* process, that an up which found no server wrote over, or that an up     *)
(* started beside a down; nor the members of a group whose leader had ended*)
(* when the process that started it stopped it.                            *)
Findable ==
    \A c \in Component : \A id \in live[c] :
        Recorded(c, id) \/ InHand(c, id) \/ id \in hist.lost \/ hist.raced
(* Two ups never start the chain at the same time.                         *)
OneSpawner ==
    \A p, q \in Procs : calls[p].op = "up" /\ calls[q].op = "up" /\ p # q => hist.raced
(* No group is stopped that is not the stack's, however numbers and start  *)
(* times repeat, if it has a leader and its record's boot could always be  *)
(* compared; and a down that reports success left nothing of its record    *)
(* running.                                                                *)
StackSound == Findable /\ OneSpawner /\ hist.hit = {} /\ ~hist.dirty

-----------------------------------------------------------------------------
(* StackLife with bounds: calls, and faults of every kind.                 *)
CONSTANTS MaxCalls, MaxFaults
VARIABLE load
(* From nothing, or from a stack some process brought up and left.         *)
Full == [c \in Component |-> IF c \in Container /\ c \notin Bundled THEN 0
                             ELSE CHOOSE i \in 1..6 : Chain[i] = c]
Left == /\ live = [c \in Component |-> {Full[c]} \ {0}]
        /\ lock = 1
        /\ \E known \in BOOLEAN : mach = Booted(1, known)
        /\ record = writePgidFile(Full)
        /\ calls = [p \in Procs |-> Idle]
        /\ hist = [next |-> 7, calls |-> 1, lost |-> {}, raced |-> FALSE, hit |-> {}, dirty |-> FALSE,
                   unsure |-> {}]
SInit == \/ Init /\ load = [calls |-> MaxCalls, faults |-> MaxFaults - 1]
         \/ Left /\ load = [calls |-> MaxCalls - 1, faults |-> MaxFaults]
Call(A) == load.calls > 0 /\ A /\ load' = [load EXCEPT !.calls = @ - 1]
Fault(A) == load.faults > 0 /\ A /\ load' = [load EXCEPT !.faults = @ - 1]
Run(A) == A /\ UNCHANGED load
Stuck == {{c} : c \in Component}
SNext ==
    \/ Call(\E p \in Procs : runUp(p)) \/ Call(\E p \in Procs : runStatus(p))
    \/ Run(\E p \in Procs : upLocked(p))
    \/ Run(\E p \in Procs : startPostgres(p)) \/ Run(\E p \in Procs : startCollector(p))
    \/ Run(\E p \in Procs : startNats(p)) \/ Run(\E p \in Procs : startGateway(p))
    \/ Run(\E p \in Procs : startServer(p)) \/ Run(\E p \in Procs : startRunner(p))
    \/ Run(\E p \in Procs : appendEntry(p))
    \/ Run(\E p \in Procs : waitPostgres(p)) \/ Run(\E p \in Procs : waitCollector(p))
    \/ Run(\E p \in Procs : waitNats(p)) \/ Run(\E p \in Procs : waitGateway(p))
    \/ Run(\E p \in Procs : waitReady(p)) \/ Run(\E p \in Procs : waitRunnerEnrolled(p))
    \/ Fault(\E p \in Procs : StartFails(p)) \/ Fault(\E p \in Procs : RecordFails(p))
    \/ Fault(\E p \in Procs : WaitFails(p))
    \/ Run(\E p \in Procs : UpFails(p, {})) \/ Fault(\E p \in Procs, s \in Stuck : UpFails(p, s))
    \/ Run(\E p \in Procs : Exit(p))
    \/ Run(\E p \in Procs : Down(p, {})) \/ Fault(\E p \in Procs, s \in Stuck : Down(p, s))
    \/ Call(\E p \in Procs : RestartRunner(p, "done"))
    \/ Fault(\E p \in Procs, how \in {"unsaved", "dead"} : RestartRunner(p, how))
    \/ Call(\E p \in Procs : runDown(p)) \/ Run(\E p \in Procs : consumeRecord(p))
    \/ Run(\E p \in Procs : drainTargets(p, {})) \/ Fault(\E p \in Procs, s \in Stuck : drainTargets(p, s))
    \/ Run(\E p \in Procs : drainInfra(p, {})) \/ Fault(\E p \in Procs, s \in Stuck : drainInfra(p, s))
    \/ Fault(\E p \in Procs : infraStopOnCancel(p)) \/ Run(\E p \in Procs : DownEnds(p))
    \/ Fault(\E p \in Procs : RewriteFails(p))
    \/ Fault(\E p \in Procs : Crash(p)) \/ Fault(\E c \in Component : Die(c)) \/ Fault(Reboot)
SSpec == SInit /\ [][SNext]_<<vars, load>>
=============================================================================
