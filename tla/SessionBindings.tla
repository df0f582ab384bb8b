-------------------------- MODULE SessionBindings --------------------------
(* Which session speaks for an agent: the durable session_bindings rows and    *)
(* the compute usage they bill (store/session_bindings.go), and the RunnerHub's *)
(* caches of them (runnerhub/relay_comms.go, hub.go).  Calls run concurrently  *)
(* with Runner enrollments, with sessions that die and are resumed, with store *)
(* faults and with a peer Server that binds the same accounts to its Runner.   *)
EXTENDS Naturals, FiniteSets

CONSTANTS Sessions, Accounts, Owner, Workers, Nil

VARIABLES
    rows,     \* session_bindings: account -> its row or Nil
    usage,    \* compute_usage_events: {<<interval, kind>>}
    hub,      \* the Hub's maps, epochs and bindingWriteMu
    runner,   \* the Runner process: its live sessions, whether it is enrolled
    work,     \* worker -> the call it runs
    net,      \* loss reports and peers' binding changes on their way to the Hub
    ghost     \* the last id minted, what was promoted, and what was overtaken
sbvars == <<rows, usage, hub, runner, work, net, ghost>>

Mine == "r1"            \* the Runner attached to this Hub
Theirs == "r2"          \* the peer Server's Runner
Idle == [op |-> "idle"]
Entry(r, ver, life, gen) == [runner |-> r, ver |-> ver, life |-> life, gen |-> gen]

(* A binding row may predate usage events: interval 0 has no start event. *)
SbInit ==
    /\ rows \in [Accounts -> {Nil, [s |-> CHOOSE s \in Sessions : TRUE, r |-> Theirs, ver |-> 0, iv |-> 0, gen |-> 0]}]
    /\ usage = {}
    /\ hub = [fwd |-> [s \in Sessions |-> Nil], rev |-> [a \in Accounts |-> Nil], cont |-> {}, enrolled |-> FALSE,
              gen |-> 0, epoch |-> 0, runnerEpoch |-> 0, reapStale |-> 0, life |-> 0, writeMu |-> Nil]
    /\ runner = [live |-> {}, up |-> FALSE]
    /\ work = [p \in Workers |-> Idle]
    /\ net = [lost |-> {}, changed |-> {}]
    /\ ghost = [ids |-> 0, bound |-> [a \in Accounts |-> Nil], overtaken |-> {}]

-----------------------------------------------------------------------------
(* The store's statements.                                                     *)

(* LockSessionBindingAccount and FOR UPDATE: who is between read and commit.   *)
Locked(a) == \E q \in Workers : work[q].op \in {"write", "peerWrite"} /\ Owner[work[q].s] = a

(* A removed row's start is written if it is missing, and its end always is;   *)
(* DELETE ... RETURNING waits for a row another transaction holds.             *)
Ended(A) == {<<rows[a].iv, kind>> : a \in A, kind \in {"start", "end"}}
Delete(A) ==
    /\ \A a \in A : ~Locked(a)
    /\ rows' = [a \in Accounts |-> IF a \in A THEN Nil ELSE rows[a]]
    /\ usage' = usage \union Ended(A)
Bound == {a \in Accounts : rows[a] # Nil}
DeleteSessionBinding(s) == Delete({a \in Bound : rows[a].s = s})
DeleteSessionBindingVersion(s, ver) == Delete({a \in Bound : rows[a].s = s /\ rows[a].ver = ver})
DeleteSessionBindingsForRunner(r) == Delete({a \in Bound : rows[a].r = r})

SessionBinding(s) == LET hits == {a \in Bound : rows[a].s = s}
                     IN  IF hits = {} THEN Nil ELSE rows[CHOOSE a \in hits : TRUE]
(* SessionBindingTenants: only a row naming this Runner gives the call a tenant. *)
Scoped(s) == SessionBinding(s) # Nil /\ SessionBinding(s).r = Mine

(* EnsureComputeUsageIntervalStart, then the displaced interval's end. *)
Displace(prior, s) ==
    IF prior = Nil THEN {} ELSE {<<prior.iv, "start">>} \union (IF prior.s # s THEN {<<prior.iv, "end">>} ELSE {})

(* RecordSessionBinding after its read of the prior row: the prior interval is *)
(* closed, a new one started unless the session is the same, the row written.  *)
RecordSessionBinding(s, r, prior, gen) ==
    LET n == ghost.ids + 1
        iv == IF prior # Nil /\ prior.s = s THEN prior.iv ELSE n
    IN  /\ usage' = usage \union Displace(prior, s) \union {<<iv, "start">>}
        /\ rows' = [rows EXCEPT ![Owner[s]] = [s |-> s, r |-> r, ver |-> n, iv |-> iv, gen |-> gen]]

-----------------------------------------------------------------------------
(* Provision, Start, Stop and Remove: the relay, then the Hub's own record.    *)

bindContainer(a) ==
    /\ runner.up /\ a \notin hub.cont
    /\ hub' = [hub EXCEPT !.cont = @ \union {a}]
    /\ UNCHANGED <<rows, usage, runner, work, net, ghost>>

unbindContainer(a) ==
    /\ runner.up /\ a \in hub.cont /\ ~\E s \in runner.live : Owner[s] = a
    /\ hub' = [hub EXCEPT !.cont = @ \ {a}]
    /\ UNCHANGED <<rows, usage, runner, work, net, ghost>>

(* The Runner starts or resumes s in its agent's container. *)
Start(p, s) ==
    /\ work[p] = Idle /\ runner.up /\ Owner[s] \in hub.cont
    /\ ~\E t \in runner.live : Owner[t] = Owner[s]
    /\ runner' = [runner EXCEPT !.live = @ \union {s}]
    /\ work' = [work EXCEPT ![p] = [op |-> "promote", s |-> s, gen |-> hub.gen]]
    /\ ghost' = [ghost EXCEPT !.bound = [@ EXCEPT ![Owner[s]] = Nil]]
    /\ UNCHANGED <<rows, usage, hub, net>>

Stop(p, s) ==
    /\ work[p] = Idle /\ runner.up /\ s \in runner.live
    /\ runner' = [runner EXCEPT !.live = @ \ {s}]
    /\ work' = [work EXCEPT ![p] = [op |-> "unbind", s |-> s]]
    /\ UNCHANGED <<rows, usage, hub, net, ghost>>

(* promoteSession under bindingWriteMu: a cleared container promotes nothing. *)
promoteSession(p) ==
    /\ work[p].op = "promote" /\ hub.writeMu = Nil
    /\ IF Owner[work[p].s] \in hub.cont
       THEN /\ hub' = [hub EXCEPT !.writeMu = p]
            /\ work' = [work EXCEPT ![p].op = "record"]
            /\ ghost' = [ghost EXCEPT !.overtaken = IF work[p].gen # hub.gen THEN @ \union {Owner[work[p].s]} ELSE @]
       ELSE work' = [work EXCEPT ![p] = Idle] /\ UNCHANGED <<hub, ghost>>
    /\ UNCHANGED <<rows, usage, runner, net>>

(* The transaction's lock and read; another bind of the account waits. *)
LockSessionBindingAccount(p) ==
    /\ work[p].op \in {"record", "peer"} /\ ~Locked(Owner[work[p].s])
    /\ work' = [work EXCEPT ![p] = [op |-> IF @.op = "record" THEN "write" ELSE "peerWrite",
                                    s |-> @.s, gen |-> @.gen, prior |-> rows[Owner[@.s]]]]
    /\ UNCHANGED <<rows, usage, hub, runner, net, ghost>>

SessionTaken(s) == \E a \in Bound \ {Owner[s]} : rows[a].s = s

CommitBinding(p) ==
    LET w == work[p] IN
    /\ w.op = "write" /\ ~SessionTaken(w.s)
    /\ RecordSessionBinding(w.s, Mine, w.prior, w.gen)
    /\ ghost' = [ghost EXCEPT !.ids = @ + 1, !.bound = [@ EXCEPT ![Owner[w.s]] = w.s]]
    /\ work' = [work EXCEPT ![p] = [op |-> "cache", s |-> w.s, gen |-> w.gen, ver |-> ghost.ids + 1,
                                    displaced |-> IF w.prior = Nil THEN Nil ELSE w.prior.s]]
    /\ UNCHANGED <<hub, runner, net>>

(* A durable-write fault must not fail the Start: the cache alone holds it. *)
RecordFails(p) ==
    LET w == work[p] IN
    /\ w.op = "write"
    /\ work' = [work EXCEPT ![p] = [op |-> "cache", s |-> w.s, gen |-> w.gen, ver |-> 0, displaced |-> Nil]]
    /\ ghost' = [ghost EXCEPT !.bound = [@ EXCEPT ![Owner[w.s]] = Nil]]
    /\ UNCHANGED <<rows, usage, hub, runner, net>>

(* newBindingLocked: every cache entry is a lifetime of its own. *)
newBindingLocked(h, s, r, ver, gen) ==
    [h EXCEPT !.life = @ + 1, !.fwd = [@ EXCEPT ![s] = Entry(r, ver, h.life + 1, gen)]]

Evict(h, s) == [h EXCEPT !.fwd = [@ EXCEPT ![s] = Nil], !.rev = [a \in Accounts |-> IF @[a] = s THEN Nil ELSE @[a]]]

(* The maps follow the row: the displaced session resolves nowhere. *)
CacheBinding(p) ==
    LET w == work[p]
        a == Owner[w.s]
        h == newBindingLocked(hub, w.s, Mine, w.ver, w.gen)
        drop(f) == IF w.displaced \in Sessions \ {w.s} THEN [f EXCEPT ![w.displaced] = Nil] ELSE f
    IN  /\ w.op = "cache"
        /\ hub' = [h EXCEPT !.fwd = drop(@), !.rev = [@ EXCEPT ![a] = w.s], !.writeMu = Nil]
        /\ work' = [work EXCEPT ![p] = Idle]
        /\ UNCHANGED <<rows, usage, runner, net, ghost>>

-----------------------------------------------------------------------------
(* releaseSession.  Stop's full release orders itself against enroll.          *)

unbindSession(p) ==
    LET w == work[p]
    IN  /\ w.op = "unbind" /\ hub.writeMu = Nil
        /\ DeleteSessionBinding(w.s)
        /\ hub' = [hub EXCEPT !.writeMu = p]
        /\ work' = [work EXCEPT ![p] = [op |-> "evict", s |-> w.s]]
        /\ ghost' = [ghost EXCEPT !.overtaken = IF w.s \in runner.live THEN @ \union {Owner[w.s]} ELSE @]
        /\ UNCHANGED <<runner, net>>

(* A durable-delete fault still evicts the cache. *)
UnbindFails(p) ==
    /\ work[p].op = "unbind" /\ hub.writeMu = Nil
    /\ hub' = [hub EXCEPT !.writeMu = p]
    /\ work' = [work EXCEPT ![p] = [op |-> "evict", s |-> work[p].s]]
    /\ ghost' = [ghost EXCEPT !.overtaken = IF work[p].s \in runner.live THEN @ \union {Owner[work[p].s]} ELSE @]
    /\ UNCHANGED <<rows, usage, runner, net>>

EvictUnbound(p) ==
    /\ work[p].op = "evict"
    /\ hub' = [(IF hub.fwd[work[p].s] # Nil THEN Evict(hub, work[p].s) ELSE hub) EXCEPT !.writeMu = Nil]
    /\ work' = [work EXCEPT ![p] = Idle]
    /\ UNCHANGED <<rows, usage, runner, net, ghost>>

sameBinding_Session(x, y) == TRUE
sameBinding(x, y) == IF x.ver # 0 \/ y.ver # 0 THEN x.ver = y.ver ELSE x.life = y.life

(* A session dies.  The Hub hears of it from an ERRORED frame, with the        *)
(* binding it saw then, or from a refused deliver, with none (seen = Nil).     *)
(* A live agent reports ERRORED too, when its query fails.                     *)
SessionDies(s) ==
    /\ s \in runner.live
    /\ runner' = [runner EXCEPT !.live = @ \ {s}]
    /\ net' = [net EXCEPT !.lost = @ \union {[s |-> s, gen |-> hub.gen, kind |-> "errored"]}]
    /\ UNCHANGED <<rows, usage, hub, work, ghost>>
AgentErrs(s) ==
    /\ runner.up /\ s \in runner.live
    /\ net' = [net EXCEPT !.lost = @ \union {[s |-> s, gen |-> hub.gen, kind |-> "errored"]}]
    /\ UNCHANGED <<rows, usage, hub, runner, work, ghost>>
RefusesDeliver(s) ==
    /\ runner.up /\ s \notin runner.live
    /\ hub.fwd[s] # Nil /\ hub.rev[Owner[s]] = s
    /\ net' = [net EXCEPT !.lost = @ \union {[s |-> s, gen |-> hub.gen, kind |-> "refused"]}]
    /\ UNCHANGED <<rows, usage, hub, runner, work, ghost>>

(* A cache miss reads the row, and goes on to `then` with what it finds.       *)
Lookup(s, then) == [op |-> "lookup", s |-> s, epoch |-> hub.epoch, then |-> then]
Release(s, seen, live) ==
    IF live # Nil /\ live.runner = Mine /\ (seen # Nil => sameBinding(live, seen))
    THEN [op |-> "release", s |-> s, only |-> live] ELSE Idle
Then(next, entry) ==
    CASE next.op = "drop" /\ entry # Nil /\ entry.runner = Mine -> [next EXCEPT !.seen = entry]
      [] next.op = "resolved" -> Release(next.s, next.seen, entry)
      [] OTHER -> Idle

(* deliverSession's frameSession: the frame speaks for the binding it finds.   *)
deliverErrored(p, n) ==
    /\ n \in net.lost /\ n.kind = "errored" /\ work[p] = Idle
    /\ net' = [net EXCEPT !.lost = @ \ {n}]
    /\ LET drop == [op |-> "drop", s |-> n.s, gen |-> n.gen, seen |-> Nil] IN
       work' = IF n.gen # hub.gen \/ ~hub.enrolled THEN work
               ELSE [work EXCEPT ![p] = IF hub.fwd[n.s] = Nil THEN Lookup(n.s, drop) ELSE Then(drop, hub.fwd[n.s])]
    /\ ghost' = [ghost EXCEPT !.overtaken = IF n.s \in runner.live THEN @ \union {Owner[n.s]} ELSE @]
    /\ UNCHANGED <<rows, usage, hub, runner>>
complete(p, n) ==
    /\ n \in net.lost /\ n.kind = "refused" /\ work[p] = Idle
    /\ net' = [net EXCEPT !.lost = @ \ {n}]
    /\ work' = [work EXCEPT ![p] = [op |-> "drop", s |-> n.s, gen |-> n.gen, seen |-> Nil]]
    /\ UNCHANGED <<rows, usage, hub, runner, ghost>>

(* dropLostSession under enrollMu: only the current enrollment's loss, only    *)
(* for a row of this Runner, only the binding seen.                            *)
dropLostSession(p) ==
    LET w == work[p]
        live == hub.fwd[w.s]
    IN  /\ w.op = "drop"
        /\ IF w.gen = hub.gen /\ hub.enrolled /\ Scoped(w.s)
           THEN /\ work' = [work EXCEPT ![p] = IF live # Nil THEN Release(w.s, w.seen, live)
                                               ELSE Lookup(w.s, [op |-> "resolved", s |-> w.s, seen |-> w.seen])]
                /\ ghost' = [ghost EXCEPT !.overtaken =
                                IF w.seen = Nil /\ w.s \in runner.live THEN @ \union {Owner[w.s]} ELSE @]
           ELSE work' = [work EXCEPT ![p] = Idle] /\ UNCHANGED ghost
        /\ UNCHANGED <<rows, usage, hub, runner, net>>

(* The limited release removes only the write it saw: a row bound again since  *)
(* stays, and so does a row when the entry never wrote one.                    *)
releaseSession(p) ==
    LET w == work[p]
        row == SessionBinding(w.s)
    IN  /\ w.op = "release"
        /\ IF hub.fwd[w.s] # Nil /\ ~sameBinding(hub.fwd[w.s], w.only)
           THEN work' = [work EXCEPT ![p] = Idle] /\ UNCHANGED <<rows, usage>>
           ELSE IF w.only.ver = 0
           THEN /\ work' = [work EXCEPT ![p].op = IF row = Nil THEN "forget" ELSE "stale"]
                /\ UNCHANGED <<rows, usage>>
           ELSE /\ DeleteSessionBindingVersion(w.s, w.only.ver)
                /\ work' = [work EXCEPT ![p].op = IF rows' # rows THEN "forget" ELSE "stale"]
        /\ UNCHANGED <<hub, runner, net, ghost>>

(* A durable-delete fault still evicts the cache, here as in Stop. *)
ReleaseFails(p) ==
    LET w == work[p] IN
    /\ w.op = "release" /\ w.only.ver # 0
    /\ hub.fwd[w.s] # Nil => sameBinding(hub.fwd[w.s], w.only)
    /\ work' = [work EXCEPT ![p].op = "forget"]
    /\ UNCHANGED <<rows, usage, hub, runner, net, ghost>>

(* evictStaleBinding and the release's own eviction: still the same binding. *)
evictStaleBinding(p) ==
    LET w == work[p] IN
    /\ w.op \in {"forget", "stale"}
    /\ hub' = IF hub.fwd[w.s] # Nil /\ sameBinding(hub.fwd[w.s], w.only) THEN Evict(hub, w.s) ELSE hub
    /\ work' = [work EXCEPT ![p] = Idle]
    /\ UNCHANGED <<rows, usage, runner, net, ghost>>

-----------------------------------------------------------------------------
(* Read-through: a call of the Runner's session, or a caller that wants an     *)
(* account's session.  A miss reads the row with no lock held.                 *)

lookupSessionBinding(p, s) ==
    /\ work[p] = Idle /\ hub.enrolled /\ Scoped(s) /\ hub.fwd[s] = Nil
    /\ work' = [work EXCEPT ![p] = Lookup(s, Idle)]
    /\ UNCHANGED <<rows, usage, hub, runner, net, ghost>>

SessionForAccount(p, a) ==
    /\ work[p] = Idle /\ hub.enrolled
    /\ LET s == hub.rev[a]
           stale == s # Nil /\ hub.fwd[s] # Nil /\ hub.fwd[s].runner # Mine
       IN  /\ s = Nil \/ stale
           /\ hub' = IF stale THEN [hub EXCEPT !.rev = [@ EXCEPT ![a] = Nil]] ELSE hub
    /\ work' = [work EXCEPT ![p] = [op |-> "forAccount", a |-> a, epoch |-> hub.epoch, then |-> Idle]]
    /\ UNCHANGED <<rows, usage, runner, net, ghost>>

ReadRow(p) ==
    LET w == work[p] IN
    /\ w.op \in {"lookup", "forAccount"}
    /\ LET row == IF w.op = "lookup" THEN SessionBinding(w.s) ELSE rows[w.a]
       IN  work' = [work EXCEPT ![p] =
               IF row = Nil \/ (w.op = "forAccount" /\ row.r # Mine) THEN Idle
               ELSE [op |-> IF w.op = "lookup" THEN "install" ELSE "installBoth", row |-> row, epoch |-> w.epoch, then |-> w.then]]
    /\ UNCHANGED <<rows, usage, hub, runner, net, ghost>>

Refused_Reaping(w) == w.row.r = Mine /\ hub.reapStale # 0
(* A row read across an enroll of its Runner, or while its reap failed, is     *)
(* refused; an entry that appeared meanwhile wins.                             *)
Refused(w) == w.row.r = Mine /\ (hub.reapStale # 0 \/ hub.runnerEpoch > w.epoch)
InstallEntry(p) ==
    LET w == work[p]
        s == w.row.s
        a == Owner[s]
        h == newBindingLocked(hub, s, w.row.r, w.row.ver, w.row.gen)
    IN  /\ w.op \in {"install", "installBoth"}
        /\ hub' = CASE w.op = "install" -> IF hub.fwd[s] # Nil \/ Refused(w) THEN hub ELSE h
                    [] w.op = "installBoth" ->
                         LET t == hub.rev[a]
                         IN  IF t # Nil /\ hub.fwd[t] # Nil /\ hub.fwd[t].runner = Mine THEN hub
                             ELSE IF Refused(w) THEN [hub EXCEPT !.rev = [@ EXCEPT ![a] = Nil]]
                             ELSE [h EXCEPT !.rev = [@ EXCEPT ![a] = s]]
        /\ work' = [work EXCEPT ![p] = Then(w.then, hub'.fwd[s])]
        /\ ghost' = [ghost EXCEPT !.overtaken = IF work'[p] # Idle /\ w.then.seen = Nil /\ s \in runner.live THEN @ \union {a} ELSE @]
        /\ UNCHANGED <<rows, usage, runner, net>>

-----------------------------------------------------------------------------
(* Enrollment: the maps are cleared, the Runner's rows reaped, and the reads   *)
(* of either moment refused.  A failed reap keeps refusing until one succeeds. *)

(* dropLostSessionIfCurrent holds enrollMu from its check to its release. *)
Dropping ==
    \E p \in Workers : \/ work[p].op \in {"release", "forget", "stale"}
                       \/ work[p].op \in {"lookup", "install"} /\ work[p].then.op = "resolved"

enroll(p) ==
    /\ ~runner.up /\ work[p] = Idle /\ hub.writeMu = Nil /\ ~Dropping
    /\ hub' = [hub EXCEPT !.fwd = [s \in Sessions |-> Nil], !.rev = [a \in Accounts |-> Nil], !.cont = {},
                          !.enrolled = TRUE, !.gen = @ + 1, !.epoch = @ + 1, !.runnerEpoch = hub.epoch + 1,
                          !.reapStale = hub.epoch + 1, !.writeMu = p]
    /\ work' = [work EXCEPT ![p] = [op |-> "reap", epoch |-> hub.epoch + 1]]
    /\ ghost' = [ghost EXCEPT !.bound = [a \in Accounts |-> Nil], !.overtaken = {}]
    /\ UNCHANGED <<rows, usage, runner, net>>

ReapRows(p) ==
    /\ work[p].op = "reap"
    /\ DeleteSessionBindingsForRunner(Mine)
    /\ work' = [work EXCEPT ![p] = [op |-> "enrolled", epoch |-> @.epoch, ok |-> TRUE]]
    /\ UNCHANGED <<hub, runner, net, ghost>>
ReapFails(p) ==
    /\ work[p].op = "reap"
    /\ work' = [work EXCEPT ![p] = [op |-> "enrolled", epoch |-> @.epoch, ok |-> FALSE]]
    /\ UNCHANGED <<rows, usage, hub, runner, net, ghost>>

ReapDone(p) ==
    LET w == work[p] IN
    /\ w.op = "enrolled"
    /\ hub' = [hub EXCEPT !.epoch = @ + 1, !.runnerEpoch = hub.epoch + 1, !.writeMu = Nil,
                          !.reapStale = IF w.ok /\ @ = w.epoch THEN 0 ELSE @]
    /\ runner' = [runner EXCEPT !.up = w.ok]
    /\ work' = [work EXCEPT ![p] = Idle]
    /\ UNCHANGED <<rows, usage, net, ghost>>

(* The Runner process ends, its sessions with it; it enrolls again. *)
RunnerRestarts ==
    /\ runner.up
    /\ runner' = [live |-> {}, up |-> FALSE]
    /\ UNCHANGED <<rows, usage, hub, work, net, ghost>>

(* The Server restarts: the Hub is empty and no Runner is enrolled. *)
ServerRestarts ==
    /\ hub.enrolled
    /\ hub' = [hub EXCEPT !.fwd = [s \in Sessions |-> Nil], !.rev = [a \in Accounts |-> Nil], !.cont = {},
                          !.enrolled = FALSE, !.epoch = 0, !.runnerEpoch = 0, !.reapStale = 0, !.writeMu = Nil]
    /\ runner' = [live |-> {}, up |-> FALSE]
    /\ work' = [p \in Workers |-> IF work[p].op \in {"peer", "peerWrite"} THEN work[p] ELSE Idle]
    /\ net' = [net EXCEPT !.lost = {}]
    /\ UNCHANGED <<rows, usage, ghost>>

-----------------------------------------------------------------------------
(* A peer Server binds the account to a session on its own Runner and tells    *)
(* the others; a change that is lost is caught up on a cache miss.             *)

PeerStarts(p, s) ==
    /\ work[p] = Idle /\ s \notin runner.live
    /\ work' = [work EXCEPT ![p] = [op |-> "peer", s |-> s, gen |-> 0]]
    /\ UNCHANGED <<rows, usage, hub, runner, net, ghost>>

PeerBinds(p) ==
    LET w == work[p]
        displaced == IF w.prior = Nil THEN {} ELSE {w.prior.s}
    IN  /\ w.op = "peerWrite" /\ ~SessionTaken(w.s)
        /\ RecordSessionBinding(w.s, Theirs, w.prior, 0)
        /\ net' = [net EXCEPT !.changed = @ \union displaced \union {w.s}]
        /\ work' = [work EXCEPT ![p] = Idle]
        /\ ghost' = [ghost EXCEPT !.ids = @ + 1, !.bound = [@ EXCEPT ![Owner[w.s]] = Nil]]
        /\ UNCHANGED <<hub, runner>>

OnBindingChange(s) ==
    /\ s \in net.changed
    /\ net' = [net EXCEPT !.changed = @ \ {s}]
    /\ hub' = IF hub.fwd[s] # Nil THEN Evict(hub, s) ELSE hub
    /\ UNCHANGED <<rows, usage, runner, work, ghost>>

-----------------------------------------------------------------------------
(* Compute is billed exactly while a session is bound: an interval that has    *)
(* started and not ended is the interval of a row, no row's interval has       *)
(* ended, and none ends that has not started (RecordSessionBinding and the     *)
(* deletes write the events in the statement that changes the row).            *)
BilledWhileBound ==
    /\ \A e \in usage : e[2] = "end" => <<e[1], "start">> \in usage
    /\ \A e \in usage : <<e[1], "end">> \notin usage => \E a \in Accounts : rows[a] # Nil /\ rows[a].iv = e[1]
    /\ \A a \in Accounts : rows[a] # Nil => <<rows[a].iv, "end">> \notin usage

(* Nothing bound before the Runner's current enrollment resolves after it      *)
(* (lookupSessionBinding refuses rows read across an enroll): every cached     *)
(* binding of this Runner was started under its current enrollment.  Only a    *)
(* Start whose promotion came after the re-enroll and a re-provision escapes.  *)
NoneResurrected ==
    \A s \in Sessions : hub.fwd[s] # Nil /\ hub.fwd[s].runner = Mine =>
        hub.fwd[s].gen = hub.gen \/ Owner[s] \in ghost.overtaken

(* A live session whose promotion was its account's last stays resolvable      *)
(* until it ends, is replaced or the Runner enrolls anew: a loss observed      *)
(* before a resume bound the session again never unbinds the resumed one.      *)
(* Excepted are a loss whose binding the Hub looks up only after the resume,   *)
(* or that a live agent reports of itself, releases that name no binding       *)
(* (Stop, a refused deliver) and come after it, and a binding whose row could  *)
(* not be written.                                                             *)
Promoting(s) == \E p \in Workers : work[p].op \in {"promote", "record", "write", "cache"} /\ work[p].s = s
LiveResolves ==
    \A s \in runner.live :
        runner.up /\ ~Promoting(s) /\ ghost.bound[Owner[s]] = s /\ Owner[s] \notin ghost.overtaken =>
            \/ hub.fwd[s] # Nil
            \/ SessionBinding(s) # Nil

(* The reverse map only names sessions the forward map holds for the account.  *)
ReverseAgrees == \A a \in Accounts : hub.rev[a] # Nil => hub.fwd[hub.rev[a]] # Nil /\ Owner[hub.rev[a]] = a

(* Whatever enrollments, losses, resumes, faults and peers overlap, usage is   *)
(* billed while a session is bound, no binding outlives its enrollment, and a  *)
(* live session stays resolvable.                                              *)
BindingsSound == BilledWhileBound /\ NoneResurrected /\ LiveResolves /\ ReverseAgrees

-----------------------------------------------------------------------------
(* Bounds for SessionBindings: MaxOps calls, binds, faults and restarts in any *)
(* mixture, at most MaxBinds of them binds.                                    *)
CONSTANTS MaxOps, MaxBinds
VARIABLE load

SInit == SbInit /\ load = [binds |-> 0, ops |-> 0]

Call(A) == load.ops < MaxOps /\ A /\ load' = [load EXCEPT !.ops = @ + 1]
Bind(A) == load.ops < MaxOps /\ load.binds < MaxBinds /\ A /\ load' = [ops |-> load.ops + 1, binds |-> load.binds + 1]
Run(A) == A /\ load' = load

SbNext ==
    \/ \E a \in Accounts : Run(bindContainer(a)) \/ Call(unbindContainer(a))
    \/ \E s \in Sessions : Call(SessionDies(s)) \/ Call(AgentErrs(s)) \/ Call(RefusesDeliver(s)) \/ Run(OnBindingChange(s))
    \/ Call(RunnerRestarts) \/ Call(ServerRestarts)
    \/ \E p \in Workers :
        \/ \E s \in Sessions : Bind(Start(p, s)) \/ Call(Stop(p, s)) \/ Bind(PeerStarts(p, s)) \/ Call(lookupSessionBinding(p, s))
        \/ \E a \in Accounts : Call(SessionForAccount(p, a))
        \/ \E n \in net.lost : Run(deliverErrored(p, n)) \/ Run(complete(p, n))
        \/ Run(promoteSession(p)) \/ Run(LockSessionBindingAccount(p)) \/ Run(CommitBinding(p)) \/ Call(RecordFails(p))
        \/ Run(CacheBinding(p)) \/ Run(unbindSession(p)) \/ Call(UnbindFails(p)) \/ Run(EvictUnbound(p))
        \/ Run(dropLostSession(p)) \/ Run(releaseSession(p)) \/ Call(ReleaseFails(p)) \/ Run(evictStaleBinding(p)) \/ Run(ReadRow(p)) \/ Run(InstallEntry(p))
        \/ Run(enroll(p)) \/ Run(ReapRows(p)) \/ Call(ReapFails(p)) \/ Run(ReapDone(p)) \/ Run(PeerBinds(p))
SbSpec == SInit /\ [][SbNext]_<<sbvars, load>>
=============================================================================
