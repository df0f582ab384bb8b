---------------------------- MODULE ForgeNotify ----------------------------
(* Forge notifications for one issue: what happens on the forge, the           *)
(* webhook arm's bounded queue, the router both arms share, the reconciliation *)
(* sweep with its conditional reads, the subscriptions and cursor rows, and    *)
(* the subscribers' acks (ingest/notify_*.go, store/forge_subscriptions.go).   *)
(* A revision is the hash of a snapshot, hence the snapshot; an ETag is the    *)
(* version of what was read.  Notifications and acks can be lost.              *)
EXTENDS Naturals, Sequences, FiniteSets, SequencesExt

CONSTANTS Agents, Comments, AuthorOf, QueueSize, Nil

VARIABLES
    forge,    \* the artifact: its state, how often that changed, its comments
    queue,    \* NotifyWebhookArm.queue
    cursor,   \* the forge_artifact_cursors row, or Nil
    subs,     \* [Agents -> delivered_revision, or Nil without a subscription]
    work,     \* what the arm's drain and the sweep are doing
    wire,     \* notifications dispatched and not yet acked or lost
    ghost     \* whether a whole sweep ran undisturbed, a late event was applied
nvars == <<forge, queue, cursor, subs, work, wire, ghost>>

Workers == {"arm", "sweep"}
Idle == [op |-> "idle"]
NoRevision == [st |-> "none", comments |-> {}]

NfInit ==
    /\ forge = [st |-> "open", n |-> 1, comments |-> {}]
    /\ queue = <<>>
    /\ cursor = Nil
    /\ subs \in [Agents -> {Nil, NoRevision}]
    /\ work = [w \in Workers |-> Idle]
    /\ wire = {}
    /\ ghost = [sweep |-> "no", late |-> FALSE]

Disturbed == ghost' = [ghost EXCEPT !.sweep = "no"]

-----------------------------------------------------------------------------
(* The forge, its webhooks and the arm's queue.                                *)

StateEvent(st, n) == [change |-> "state", st |-> st, n |-> n]
CommentEvent(c) == [change |-> "comment", c |-> c, n |-> 0]
(* A full queue drops the event. *)
Enqueue(ev) == queue' = IF Len(queue) < QueueSize THEN Append(queue, ev) ELSE queue
Hook(ev) == (Enqueue(ev) \/ queue' = queue) /\ Disturbed

ChangeState ==
    /\ forge' = [forge EXCEPT !.st = IF @ = "open" THEN "closed" ELSE "open", !.n = @ + 1]
    /\ Hook(StateEvent(forge'.st, forge'.n))
    /\ UNCHANGED <<cursor, subs, work, wire>>
Comment(c) ==
    /\ c \notin forge.comments
    /\ forge' = [forge EXCEPT !.comments = @ \union {c}]
    /\ Hook(CommentEvent(c))
    /\ UNCHANGED <<cursor, subs, work, wire>>

-----------------------------------------------------------------------------
(* Subscriptions.                                                              *)

subscribersForArtifact == {a \in Agents : subs[a] # Nil}
SubscribersForArtifact == subscribersForArtifact
ensureAgentForgeSubscription(rev) == IF rev = Nil THEN NoRevision ELSE rev
EnsureAgentForgeSubscription(a) ==
    /\ subs' = [subs EXCEPT ![a] = ensureAgentForgeSubscription(@)]
    /\ Disturbed
    /\ UNCHANGED <<forge, queue, cursor, work, wire>>
GCForgeArtifactCursorIfUnsubscribed(a) == cursor' = IF SubscribersForArtifact \subseteq {a} THEN Nil ELSE cursor
deleteAgentForgeSubscription(a) == subs[a] # Nil /\ subs' = [subs EXCEPT ![a] = Nil]
DeleteAgentForgeSubscription(a) ==
    /\ deleteAgentForgeSubscription(a)
    /\ GCForgeArtifactCursorIfUnsubscribed(a)
    /\ Disturbed
    /\ UNCHANGED <<forge, queue, work, wire>>

-----------------------------------------------------------------------------
(* Snapshots.                                                                  *)

decodeSnapshot(cur) == IF cur = Nil THEN Nil ELSE cur.snap
upsertForgeArtifactCursor(row) == cursor' = row
UpsertForgeArtifactCursor(etag, cetag, snap) == upsertForgeArtifactCursor([etag |-> etag, cetag |-> cetag, snap |-> snap])
loadForgeArtifactCursor == cursor
Prior(prev) == IF prev = Nil THEN [st |-> "", comments |-> {}] ELSE prev
ApplyEvent(prev, ev) ==
    IF ev.change = "state" THEN [Prior(prev) EXCEPT !.st = ev.st]
    ELSE [Prior(prev) EXCEPT !.comments = @ \union {ev.c}]

(* New comments first, then a changed state; nothing on first sight. *)
detectArtifact(prev, got) ==
    IF prev = Nil THEN <<>>
    ELSE SetToSeq({CommentEvent(c) : c \in got.comments \ prev.comments})
         \o (IF got.st = prev.st THEN <<>> ELSE <<StateEvent(got.st, got.n)>>)

-----------------------------------------------------------------------------
(* NotifyRouter.Route, for the arm's event and for the sweep's synthetic ones. *)

Dequeue ==
    /\ work["arm"] = Idle /\ queue # <<>>
    /\ work' = [work EXCEPT !["arm"] = [op |-> "route", ev |-> Head(queue), after |-> Idle]]
    /\ queue' = Tail(queue)
    /\ Disturbed
    /\ UNCHANGED <<forge, cursor, subs, wire>>

LoadArtifactCursor(w) ==
    /\ work[w].op = "route"
    /\ work' = [work EXCEPT ![w] = [op |-> "apply", ev |-> work[w].ev, cur |-> loadForgeArtifactCursor, after |-> work[w].after]]
    /\ UNCHANGED <<forge, queue, cursor, subs, wire, ghost>>

(* The ETags of the loaded cursor are carried forward. *)
RouteApply(w) ==
    LET j == work[w]
        snap == ApplyEvent(decodeSnapshot(j.cur), j.ev) IN
    /\ j.op = "apply"
    /\ IF j.cur = Nil THEN UpsertForgeArtifactCursor(Nil, Nil, snap) ELSE UpsertForgeArtifactCursor(j.cur.etag, j.cur.cetag, snap)
    /\ work' = [work EXCEPT ![w] = [op |-> "dispatch", ev |-> j.ev, prior |-> IF j.cur = Nil THEN NoRevision ELSE j.cur.snap,
                                    rev |-> snap, after |-> j.after]]
    /\ ghost' = [ghost EXCEPT !.late = @ \/ (w = "arm" /\ j.ev.change = "state" /\ j.cur # Nil /\ j.cur.etag # Nil /\ j.ev.n < j.cur.etag)]
    /\ UNCHANGED <<forge, queue, subs, wire>>

selfOrigin(ev, a) == ev.change = "comment" /\ AuthorOf[ev.c] = a
(* A suppressed echo moves a subscriber that had seen all before it. *)
advanceForgeDeliveredRevisionCAS(rev, prior, next) == IF rev = prior THEN next ELSE rev
advanceOnSuppress(a, prior, next) == advanceForgeDeliveredRevisionCAS(subs[a], prior, next)
Dispatch(w) ==
    LET j == work[w]
        told == {a \in SubscribersForArtifact : ~selfOrigin(j.ev, a)} IN
    /\ j.op = "dispatch"
    /\ wire' = wire \union {[a |-> a, rev |-> j.rev] : a \in told}
    /\ subs' = [a \in Agents |-> IF a \in SubscribersForArtifact \ told THEN advanceOnSuppress(a, j.prior, j.rev) ELSE subs[a]]
    /\ work' = [work EXCEPT ![w] = j.after]
    /\ UNCHANGED <<forge, queue, cursor, ghost>>

(* A failed load, roll-up, upsert or subscriber read is logged and dropped. *)
RouteFails(w) ==
    /\ work[w].op \in {"route", "apply", "dispatch"}
    /\ work' = [work EXCEPT ![w] = work[w].after]
    /\ Disturbed
    /\ UNCHANGED <<forge, queue, cursor, subs, wire>>

advanceForgeDeliveredRevision(old, rev) == IF old = Nil THEN Nil ELSE rev
AdvanceForgeDeliveredRevision(a, rev) == subs' = [subs EXCEPT ![a] = advanceForgeDeliveredRevision(@, rev)]
forgeNotificationAck(n) ==
    /\ n \in wire
    /\ AdvanceForgeDeliveredRevision(n.a, n.rev)
    /\ wire' = wire \ {n}
    /\ UNCHANGED <<forge, queue, cursor, work, ghost>>
(* No live session, a session that ends, or a lost ack. *)
LoseNotification(n) ==
    /\ n \in wire
    /\ wire' = wire \ {n}
    /\ Disturbed
    /\ UNCHANGED <<forge, queue, cursor, subs, work>>

-----------------------------------------------------------------------------
(* The reconciliation sweep.                                                   *)

listForgeNotifyTargets == [cur |-> cursor, subs |-> subs]
ListForgeNotifyTargets ==
    LET tgt == listForgeNotifyTargets IN
    /\ work["sweep"] = Idle /\ SubscribersForArtifact # {}
    /\ work' = [work EXCEPT !["sweep"] = [op |-> "detail", cur |-> tgt.cur, subs |-> tgt.subs]]
    /\ ghost' = [ghost EXCEPT !.sweep = IF queue = <<>> /\ work["arm"] = Idle /\ wire = {} THEN "runs" ELSE "no"]
    /\ UNCHANGED <<forge, queue, cursor, subs, wire>>

(* GetIssueConditional: an unchanged ETag answers with the snapshot's state. *)
FetchDetail ==
    LET j == work["sweep"] IN
    /\ j.op = "detail"
    /\ work' = [work EXCEPT !["sweep"] = [op |-> "comments", cur |-> j.cur, subs |-> j.subs, n |-> forge.n,
                                          st |-> IF j.cur # Nil /\ j.cur.etag = forge.n THEN j.cur.snap.st ELSE forge.st]]
    /\ UNCHANGED <<forge, queue, cursor, subs, wire, ghost>>

(* ListComments, then the rebuilt snapshot with its fresh ETags. *)
reconcileTarget_Merges ==
    LET j == work["sweep"]
        got == [st |-> j.st, n |-> j.n, comments |-> forge.comments]
        snap == [st |-> got.st, comments |-> got.comments] IN
    /\ j.op = "comments"
    /\ UpsertForgeArtifactCursor(j.n, forge.comments, IF j.cur = Nil THEN snap ELSE [snap EXCEPT !.st = j.cur.snap.st])
    /\ work' = [work EXCEPT !["sweep"] = [op |-> "next", changes |-> detectArtifact(decodeSnapshot(j.cur), got),
                                          lag |-> j.subs, rev |-> snap, quietly |-> detectArtifact(decodeSnapshot(j.cur), got) = <<>>]]
    /\ UNCHANGED <<forge, queue, subs, wire, ghost>>
reconcileTarget ==
    LET j == work["sweep"]
        got == [st |-> j.st, n |-> j.n, comments |-> IF j.cur # Nil /\ j.cur.cetag = forge.comments THEN j.cur.snap.comments ELSE forge.comments]
        snap == [st |-> got.st, comments |-> got.comments]
        changes == detectArtifact(decodeSnapshot(j.cur), got) IN
    /\ j.op = "comments"
    /\ UpsertForgeArtifactCursor(j.n, forge.comments, snap)
    /\ work' = [work EXCEPT !["sweep"] = [op |-> "next", changes |-> changes, lag |-> j.subs, rev |-> snap, quietly |-> changes = <<>>]]
    /\ UNCHANGED <<forge, queue, subs, wire, ghost>>

(* Each change is routed; with none, every trailing subscriber gets an UPDATE. *)
RouteNext ==
    LET j == work["sweep"] IN
    /\ j.op = "next" /\ j.changes # <<>>
    /\ work' = [work EXCEPT !["sweep"] = [op |-> "route", ev |-> Head(j.changes), after |-> [j EXCEPT !.changes = Tail(@)]]]
    /\ UNCHANGED <<forge, queue, cursor, subs, wire, ghost>>
SynthesizeUpdate_Never(j) == {}
SynthesizeUpdate(j) == IF j.quietly THEN {[a |-> a, rev |-> j.rev] : a \in {b \in Agents : j.lag[b] \notin {Nil, j.rev}}} ELSE {}
SweepEnds ==
    LET j == work["sweep"] IN
    /\ j.op = "next" /\ j.changes = <<>>
    /\ wire' = wire \union SynthesizeUpdate(j)
    /\ work' = [work EXCEPT !["sweep"] = Idle]
    /\ ghost' = [ghost EXCEPT !.sweep = IF @ # "runs" THEN @ ELSE IF j.quietly THEN "found nothing" ELSE "routed"]
    /\ UNCHANGED <<forge, queue, cursor, subs>>
(* A failed read or write, or an exhausted budget, ends the target's turn. *)
SweepFails ==
    /\ work["sweep"].op \in {"detail", "comments", "route"}
    /\ work' = [work EXCEPT !["sweep"] = Idle]
    /\ Disturbed
    /\ UNCHANGED <<forge, queue, cursor, subs, wire>>

-----------------------------------------------------------------------------
Seen == [st |-> forge.st, comments |-> forge.comments]
Told(a) == subs[a] \in {Nil, cursor.snap} \/ [a |-> a, rev |-> cursor.snap] \in wire
OwnComment(a) == \E c \in cursor.snap.comments : AuthorOf[c] = a
(* The sweep heals what webhooks missed: once one ran with nothing else going  *)
(* on, the cursor holds what the forge shows, and every subscriber acked that  *)
(* revision or has it on its way.  The author of a comment that the sweep      *)
(* itself found waits for the next sweep, which tells everyone.  Excused is a  *)
(* state event applied after a fetch it precedes, under that fetch's ETag.     *)
SweepHeals ==
    ghost.sweep \in {"routed", "found nothing"} =>
        /\ ghost.late \/ cursor.snap = Seen
        /\ \A a \in Agents : Told(a) \/ (ghost.sweep = "routed" /\ OwnComment(a))

-----------------------------------------------------------------------------
(* Bounds for ForgeNotify: MaxChanges changes, subscriptions and losses,       *)
(* and MaxSweeps sweeps.                                                       *)
CONSTANTS MaxChanges, MaxSweeps
VARIABLE load

NInit == NfInit /\ load = [calls |-> 0, sweeps |-> 0]
Call(A) == load.calls < MaxChanges /\ A /\ load' = [load EXCEPT !.calls = @ + 1]
Sweep(A) == load.sweeps < MaxSweeps /\ A /\ load' = [load EXCEPT !.sweeps = @ + 1]
Run(A) == A /\ load' = load

NfNext ==
    \/ Call(ChangeState) \/ \E c \in Comments : Call(Comment(c))
    \/ \E a \in Agents : Call(EnsureAgentForgeSubscription(a)) \/ Call(DeleteAgentForgeSubscription(a))
    \/ Run(Dequeue) \/ \E w \in Workers : Run(LoadArtifactCursor(w)) \/ Run(RouteApply(w)) \/ Run(Dispatch(w)) \/ Call(RouteFails(w))
    \/ \E n \in wire : Run(forgeNotificationAck(n)) \/ Call(LoseNotification(n))
    \/ Sweep(ListForgeNotifyTargets) \/ Run(FetchDetail) \/ Run(reconcileTarget) \/ Run(RouteNext) \/ Run(SweepEnds) \/ Call(SweepFails)
NfSpec == NInit /\ [][NfNext]_<<nvars, load>>
=============================================================================
