---------------------------- MODULE BoardIngest ----------------------------
(* How one repository reaches the board: the webhook arm with its bounded      *)
(* queue, coalescing and held keys, and the reconciliation sweep with its      *)
(* watermark, list ETag and pull request backfill (ingest/board_webhook.go,    *)
(* ingest/board_reconcile.go, ingest/pull_request_sink.go,                     *)
(* store/forge_cursors.go).  An item has a version, an updated_at of whole     *)
(* seconds, and the pull request a CI version that moves neither.              *)
EXTENDS Naturals, Sequences, FiniteSets, SequencesExt

CONSTANTS Issues, QueueSize, MaxPending, Nil

VARIABLES
    forge,    \* per item [v, at], the pull request's ci and state, the clock
    db,       \* the stored rows [v, at, ci], or Nil
    repo,     \* the forge_repo_subscriptions row
    queue,    \* BoardWebhookArm.queue
    arm,      \* the drain: batch, its keys, what it read, held keys, retry timer
    sweep,    \* the sweep's turn at the repository
    ghost     \* an undisturbed sweep, rows passed over, CI versions read and lost
ivars == <<forge, db, repo, queue, arm, sweep, ghost>>

Pull == "pull"
Items == Issues \union {Pull}
(* Coalescing keys: an item, or the head SHA of a checks event. *)
Sha == "sha"
NoRead == [of |-> Nil]
Idle == [op |-> "idle"]

(* In units of the model's clock: what was last updated at 1 is out of it. *)
prBackfillWindow == 1
NewArm == [batch |-> <<>>, seen |-> {}, read |-> NoRead, pending |-> {}, timer |-> FALSE]

BiInit ==
    /\ \E open \in BOOLEAN : forge = [item |-> [x \in Items |-> [v |-> 1, at |-> 1]], ci |-> 0, open |-> open, now |-> 2]
    /\ db = [x \in Items |-> Nil]
    /\ repo = [enabled |-> TRUE, mark |-> 0, etag |-> Nil, backfilled |-> FALSE]
    /\ queue = <<>>
    /\ arm = NewArm
    /\ sweep = Idle
    /\ ghost = [clean |-> "no", passed |-> {}, ci |-> 0, lost |-> FALSE]

Disturbed == ghost' = [ghost EXCEPT !.clean = "no"]
Quiet == queue = <<>> /\ arm.batch = <<>> /\ arm.read = NoRead
Listed == [x \in Items |-> forge.item[x].v]

-----------------------------------------------------------------------------
(* Queries on forge_repo_subscriptions and pull_requests.                      *)

isEnabledForgeRepo == repo.enabled
setForgeRepoSubscriptionEnabled(b) == repo' = [repo EXCEPT !.enabled = b]
loadForgeRepoWatermark == [since |-> repo.mark, etag |-> repo.etag]
storeForgeRepoWatermark(mark, etag) == repo' = [repo EXCEPT !.mark = mark, !.etag = etag]
loadPRsBackfilledAt == repo.backfilled
markPRsBackfilled == [repo EXCEPT !.backfilled = TRUE]
pullRequestForgeUpdatedAt == IF db[Pull] = Nil THEN 0 ELSE db[Pull].at

-----------------------------------------------------------------------------
(* The forge and the webhook queue.                                            *)

(* A full queue drops the event; the webhook may not come at all. *)
Enqueue(key) == \/ Len(queue) < QueueSize /\ queue' = Append(queue, key) /\ ghost' = [ghost EXCEPT !.clean = "no"]
                \/ queue' = queue /\ ghost' = [ghost EXCEPT !.clean = "no", !.lost = @ \/ key = Sha]
Edit(x, tick) ==
    /\ forge' = [forge EXCEPT !.item[x] = [v |-> @.v + 1, at |-> forge.now + tick], !.now = @ + tick]
    /\ Enqueue(x)
    /\ UNCHANGED <<db, repo, arm, sweep>>
ChecksChange ==
    /\ forge' = [forge EXCEPT !.ci = @ + 1]
    /\ Enqueue(Sha)
    /\ UNCHANGED <<db, repo, arm, sweep>>
SetForgeRepoSubscriptionEnabled(b) ==
    /\ repo.enabled # b
    /\ setForgeRepoSubscriptionEnabled(b)
    /\ Disturbed
    /\ UNCHANGED <<forge, db, queue, arm, sweep>>

-----------------------------------------------------------------------------
(* Sinks: the guarded upserts of an issue row and of a hydrated pull request.  *)

IsEnabledRepo == isEnabledForgeRepo
Overtaken(x, row) == db[x] # Nil /\ row.at = db[x].at /\ row.v < db[x].v
SinkGhost(x, row) == ghost' = [ghost EXCEPT !.passed = IF Overtaken(x, row) THEN @ \union {x} ELSE IF row.v = forge.item[x].v THEN @ \ {x} ELSE @]
Sink(x, row) == db' = IF db[x] = Nil \/ row.at >= db[x].at THEN [db EXCEPT ![x] = row] ELSE db
GetIssueConditional(x) == [v |-> forge.item[x].v, at |-> forge.item[x].at, ci |-> 0]
GetPullRequest == [v |-> forge.item[Pull].v, at |-> forge.item[Pull].at, ci |-> forge.ci]

-----------------------------------------------------------------------------
(* The arm's drain.                                                            *)

(* One hydrate per key, in the order they came; a held key waits for its retry. *)
Coalesced(q) == FoldLeft(LAMBDA order, k : IF k \in ToSet(order) \union arm.pending THEN order ELSE Append(order, k), <<>>, q)
drainBatch ==
    /\ arm.batch = <<>> /\ arm.read = NoRead /\ queue # <<>>
    /\ arm' = [arm EXCEPT !.batch = Coalesced(queue), !.seen = ToSet(Coalesced(queue))]
    /\ queue' = <<>>
    /\ Disturbed
    /\ UNCHANGED <<forge, db, repo, sweep>>
takePending ==
    /\ arm.batch = <<>> /\ arm.read = NoRead /\ arm.timer
    /\ \E order \in SetToSeqs(arm.pending) :
         arm' = [arm EXCEPT !.batch = order, !.seen = arm.pending, !.pending = {}, !.timer = FALSE]
    /\ Disturbed
    /\ UNCHANGED <<forge, db, repo, queue, sweep>>

(* A head SHA resolves to the pull request, and is skipped when the batch has  *)
(* that key, read already or still to be read; so is a disabled repository.    *)
resolveAndSink ==
    LET key == Head(arm.batch)
        rest == Tail(arm.batch) IN
    /\ arm.batch # <<>> /\ arm.read = NoRead
    /\ arm' = [arm EXCEPT !.batch = rest,
                          !.seen = IF key = Sha /\ IsEnabledRepo THEN @ \union {Pull} ELSE @,
                          !.read = CASE ~IsEnabledRepo -> NoRead
                                     [] key = Sha /\ Pull \in arm.seen -> NoRead
                                     [] key \in {Sha, Pull} -> [of |-> Pull, row |-> GetPullRequest]
                                     [] OTHER -> [of |-> key, row |-> GetIssueConditional(key)]]
    /\ ghost' = [ghost EXCEPT !.ci = IF arm'.read.of = Pull THEN forge.ci ELSE @,
                              !.lost = @ \/ (key \in {Sha, Pull} /\ ~IsEnabledRepo)]
    /\ UNCHANGED <<forge, db, repo, queue, sweep>>
hydrateAndSink ==
    /\ arm.read # NoRead
    /\ Sink(arm.read.of, arm.read.row)
    /\ arm' = [arm EXCEPT !.read = NoRead]
    /\ SinkGhost(arm.read.of, arm.read.row)
    /\ UNCHANGED <<forge, repo, queue, sweep>>
(* An isolated failure loses the key's update. *)
HydrateFails ==
    /\ arm.batch # <<>> /\ arm.read = NoRead
    /\ arm' = [arm EXCEPT !.batch = Tail(@)]
    /\ ghost' = [ghost EXCEPT !.clean = "no", !.lost = @ \/ Head(arm.batch) \in {Sha, Pull}]
    /\ UNCHANGED <<forge, db, repo, queue, sweep>>

(* Out of budget: the pull request keys left are held; past maxPending a key   *)
(* is dropped.                                                                 *)
hold_Tail(rest) ==
    FoldLeft(LAMBDA held, k : IF k \in {Sha, Pull} /\ Cardinality(held \union {k}) <= MaxPending THEN held \union {k} ELSE held,
             arm.pending, Tail(rest))
hold(rest) ==
    FoldLeft(LAMBDA held, k : IF k \in {Sha, Pull} /\ Cardinality(held \union {k}) <= MaxPending THEN held \union {k} ELSE held,
             arm.pending, rest)
process ==
    LET held == hold(arm.batch) IN
    /\ arm.batch # <<>> /\ arm.read = NoRead
    /\ arm' = [arm EXCEPT !.batch = <<>>, !.pending = held, !.timer = held # {}]
    /\ ghost' = [ghost EXCEPT !.clean = "no",
                              !.lost = @ \/ (Cardinality(held) = MaxPending /\ ~((ToSet(arm.batch) \intersect {Sha, Pull}) \subseteq held))]
    /\ UNCHANGED <<forge, db, repo, queue, sweep>>

-----------------------------------------------------------------------------
(* The sweep.                                                                  *)

(* Rows newest first, the second of the watermark included. *)
ListUpdatedIssues_After(since) == {x \in Items : forge.item[x].at > since}
ListUpdatedIssues(since) == {x \in Items : forge.item[x].at >= since}
reconcileRepo ==
    LET w == loadForgeRepoWatermark
        new == ListUpdatedIssues(w.since) IN
    /\ sweep = Idle /\ repo.enabled
    /\ sweep' = IF w.etag = Listed THEN [op |-> "backfill", since |-> w.since, failed |-> FALSE]
                ELSE [op |-> "rows", since |-> w.since, etag |-> Listed, max |-> 0, poison |-> {},
                      issues |-> [x \in new \ {Pull} |-> GetIssueConditional(x)], pulls |-> [x \in new \intersect {Pull} |-> forge.item[x].at]]
    /\ ghost' = [ghost EXCEPT !.clean = IF Quiet THEN "runs" ELSE "no"]
    /\ UNCHANGED <<forge, db, repo, queue, arm>>
later(a, b) == IF b > a THEN b ELSE a
Without(f, x) == [y \in DOMAIN f \ {x} |-> f[y]]
SinkIssue(x, ok) ==
    LET row == sweep.issues[x] IN
    /\ sweep.op = "rows" /\ x \in DOMAIN sweep.issues
    /\ sweep' = [sweep EXCEPT !.issues = Without(@, x), !.max = IF ok THEN later(@, row.at) ELSE @, !.poison = IF ok THEN @ ELSE @ \union {x}]
    /\ IF ok THEN Sink(x, row) /\ SinkGhost(x, row) ELSE db' = db /\ ghost' = ghost
    /\ UNCHANGED <<forge, repo, queue, arm>>

(* hydrateIfNewer, in the walk and in the backfill: "skip", "read" or a failure. *)
hydrateIfNewer(at) == at > pullRequestForgeUpdatedAt
(* A cold start leaves out closed pull requests older than the window. *)
inBackfillWindow(at) == forge.open \/ at > forge.now - prBackfillWindow
SinkPull ==
    LET at == sweep.pulls[Pull]
        wanted == sweep.since # 0 \/ inBackfillWindow(at)
        walked == [sweep EXCEPT !.pulls = <<>>, !.max = later(@, at)] IN
    /\ sweep.op = "rows" /\ sweep.issues = <<>> /\ Pull \in DOMAIN sweep.pulls
    /\ sweep' = IF wanted /\ hydrateIfNewer(at) THEN [op |-> "hydrate", row |-> GetPullRequest, after |-> walked] ELSE walked
    /\ ghost' = [ghost EXCEPT !.passed = IF wanted THEN @ ELSE @ \union {Pull}]
    /\ UNCHANGED <<forge, db, repo, queue, arm>>
Hydrate ==
    /\ sweep.op = "hydrate"
    /\ Sink(Pull, sweep.row)
    /\ sweep' = sweep.after
    /\ SinkGhost(Pull, sweep.row)
    /\ UNCHANGED <<forge, repo, queue, arm>>
PullFails ==
    /\ sweep.op = "rows" /\ sweep.issues = <<>> /\ Pull \in DOMAIN sweep.pulls
    /\ sweep' = [sweep EXCEPT !.pulls = <<>>, !.poison = @ \union {Pull}]
    /\ UNCHANGED <<forge, db, repo, queue, arm, ghost>>
(* The budget ran out: the window is listed again.  Either store may fail too. *)
StoreRepoWatermark(mark, etag) == storeForgeRepoWatermark(mark, etag)
abortWindow(since) == StoreRepoWatermark(since, Nil)
BudgetEnds ==
    /\ sweep.op = "rows" /\ sweep.issues = <<>> /\ Pull \in DOMAIN sweep.pulls
    /\ abortWindow(sweep.since) \/ repo' = repo
    /\ sweep' = Idle
    /\ Disturbed
    /\ UNCHANGED <<forge, db, queue, arm>>
StoreFails ==
    /\ sweep.op = "rows" /\ sweep.issues = <<>> /\ sweep.pulls = <<>> /\ sweep.max # 0
    /\ sweep' = Idle
    /\ Disturbed
    /\ UNCHANGED <<forge, db, repo, queue, arm>>

(* The watermark moves past the healthy rows; a skipped one drops the ETag. *)
sinkRows == StoreRepoWatermark(sweep.max, IF sweep.poison = {} THEN sweep.etag ELSE Nil)
RowsSunk ==
    /\ sweep.op = "rows" /\ sweep.issues = <<>> /\ sweep.pulls = <<>>
    /\ IF sweep.max = 0 THEN repo' = repo ELSE sinkRows
    /\ sweep' = [op |-> "backfill", since |-> sweep.since, failed |-> Pull \in sweep.poison]
    /\ ghost' = [ghost EXCEPT !.passed = IF sweep.max = 0 THEN @ ELSE @ \union {x \in sweep.poison : forge.item[x].at < sweep.max},
                              !.clean = IF sweep.poison = {} THEN @ ELSE "no"]
    /\ UNCHANGED <<forge, db, queue, arm>>

(* Once per repository: every open pull request, and on a warm start those     *)
(* updated in the window before the watermark.                                 *)
listOpen == IF forge.open THEN {Pull} ELSE {}
BackfillRows(since) == listOpen \union (IF since = 0 THEN {} ELSE {x \in {Pull} : forge.item[x].at + prBackfillWindow >= since})
backfillPRs(ok) ==
    /\ sweep.op = "backfill" /\ ~loadPRsBackfilledAt
    /\ sweep' = IF ok /\ Pull \in BackfillRows(sweep.since) /\ hydrateIfNewer(forge.item[Pull].at)
                THEN [op |-> "hydrate", row |-> GetPullRequest, after |-> [op |-> "mark", failed |-> sweep.failed]]
                ELSE [op |-> "mark", failed |-> sweep.failed \/ ~ok]
    /\ UNCHANGED <<forge, db, repo, queue, arm, ghost>>
MarkPRsBackfilled ==
    /\ \/ sweep.op = "mark" /\ repo' = IF sweep.failed THEN repo ELSE markPRsBackfilled
       \/ sweep.op = "backfill" /\ loadPRsBackfilledAt /\ repo' = repo
    /\ sweep' = Idle
    /\ ghost' = [ghost EXCEPT !.clean = IF @ = "runs" THEN "yes" ELSE @]
    /\ UNCHANGED <<forge, db, queue, arm>>

(* The Server restarts: queue, held keys and turns are gone, rows stay. *)
Restart ==
    /\ queue' = <<>>
    /\ arm' = NewArm
    /\ sweep' = Idle
    /\ ghost' = [ghost EXCEPT !.clean = "no", !.lost = TRUE]
    /\ UNCHANGED <<forge, db, repo>>

-----------------------------------------------------------------------------
(* After a sweep with nothing else going on, every row is what the forge       *)
(* shows, to the second for a pull request, except a row that failed beside a  *)
(* newer one and waits for its next update, as sinkRows documents, that a late *)
(* read of the same second wrote over, or that a cold start found closed and   *)
(* older than the backfill window.  A checks event that was accepted, and not  *)
(* dropped for want of room, is followed by a read of the pull request, however*)
(* keys are coalesced and held: the sweep cannot heal a CI-only change.        *)
IngestSound ==
    /\ ghost.clean = "yes" =>
        \A x \in Items \ ghost.passed :
            db[x] # Nil /\ db[x].at = forge.item[x].at /\ (x \in Issues => db[x].v = forge.item[x].v)
    /\ (Quiet /\ arm.pending = {} /\ ~ghost.lost) => ghost.ci = forge.ci
    /\ arm.pending # {} => arm.timer

-----------------------------------------------------------------------------
(* Bounds for BoardIngest: MaxCalls changes of the forge, failures, starts,    *)
(* and MaxSweeps sweeps.                                                       *)
CONSTANTS MaxCalls, MaxSweeps
VARIABLE load

GInit == BiInit /\ load = [calls |-> 0, sweeps |-> 0]
Call(A) == load.calls < MaxCalls /\ A /\ load' = [load EXCEPT !.calls = @ + 1]
Sweep(A) == load.sweeps < MaxSweeps /\ A /\ load' = [load EXCEPT !.sweeps = @ + 1]
Run(A) == A /\ load' = load

BiNext ==
    \/ \E x \in Items, tick \in {0, 1} : Call(Edit(x, tick))
    \/ Call(ChecksChange) \/ \E b \in BOOLEAN : Call(SetForgeRepoSubscriptionEnabled(b))
    \/ Run(drainBatch) \/ Run(takePending) \/ Run(resolveAndSink) \/ Run(hydrateAndSink) \/ Call(HydrateFails) \/ Run(process)
    \/ Sweep(reconcileRepo) \/ (sweep.op = "rows" /\ \E x \in DOMAIN sweep.issues : Run(SinkIssue(x, TRUE)) \/ Call(SinkIssue(x, FALSE)))
    \/ Run(SinkPull) \/ Run(Hydrate) \/ Call(PullFails) \/ Call(BudgetEnds) \/ Call(StoreFails) \/ Run(RowsSunk)
    \/ Run(backfillPRs(TRUE)) \/ Call(backfillPRs(FALSE)) \/ Run(MarkPRsBackfilled) \/ Call(Restart)
BiSpec == GInit /\ [][BiNext]_<<ivars, load>>
=============================================================================
