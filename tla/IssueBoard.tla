----------------------------- MODULE IssueBoard -----------------------------
(* The issue board: the rows of issues, of one pull request and of its links,  *)
(* and the projection that publishes a card per issue with the pull requests   *)
(* it shows (board/issue_projection.go, board/issue_prs.go, server/board.go,   *)
(* store/issues.go, store/pull_requests.go).  Concurrent workers hydrate       *)
(* issues and the pull request, move issues, create a linked pull request and  *)
(* sweep the merge queue.  Versions count the forge's updated_at; the merge    *)
(* queue's entry is its version, and an observation's time is that version.    *)
EXTENDS Naturals, FiniteSets

CONSTANTS Issues, Procs, Lanes, Nil

VARIABLES
    forge,    \* versions of the issues, of the pull request and of its queue entry; its closing refs
    tab,      \* the rows: issues, pr, links ([Issues -> source])
    cards,    \* IssueProjection.issues, what the bus was given last
    jobs,     \* [Procs -> what each is doing]
    mu,       \* the holder of IssueProjection.writeMu
    ghost     \* failures since the last start, a queue entry nobody republished, a card that went back
bvars == <<forge, tab, cards, jobs, mu, ghost>>

Idle == [op |-> "idle"]
IbInit ==
    /\ forge = [issue |-> [i \in Issues |-> 1], pr |-> 0, refs |-> {}, q |-> 0]
    /\ tab = [issues |-> [i \in Issues |-> Nil], pr |-> Nil, links |-> [i \in Issues |-> "none"]]
    /\ cards = [i \in Issues |-> Nil]
    /\ jobs = [p \in Procs |-> Idle]
    /\ mu = Nil
    /\ ghost = [failed |-> FALSE, unshown |-> FALSE, back |-> FALSE]

Job(p, j) == jobs' = [jobs EXCEPT ![p] = j]
At(p, op) == jobs[p].op = op

-----------------------------------------------------------------------------
(* The forge.                                                                  *)

EditIssue(i) == forge' = [forge EXCEPT !.issue[i] = @ + 1] /\ UNCHANGED <<tab, cards, jobs, mu, ghost>>
EditPull(refs) ==
    /\ forge' = [forge EXCEPT !.pr = @ + 1, !.refs = refs]
    /\ UNCHANGED <<tab, cards, jobs, mu, ghost>>
MoveQueue ==
    /\ forge.pr > 0
    /\ forge' = [forge EXCEPT !.q = @ + 1]
    /\ UNCHANGED <<tab, cards, jobs, mu, ghost>>

-----------------------------------------------------------------------------
(* Queries.                                                                    *)

upsertIssueForgeFields(row, at) == IF row = Nil THEN [at |-> at, lane |-> "backlog"] ELSE IF at >= row.at THEN [row EXCEPT !.at = at] ELSE row
getIssue(i) == tab.issues[i]
setIssueState(i, lane) == [tab EXCEPT !.issues[i].lane = lane]
upsertPullRequestGuarded(row, at) == IF row = Nil THEN [at |-> at, q |-> 0, obs |-> 0] ELSE IF at >= row.at THEN [row EXCEPT !.at = at] ELSE row
(* Only in a repository whose subscription is enabled. *)
insertPullRequestIfAbsent(row, at, enabled) == IF row = Nil /\ enabled THEN [at |-> at, q |-> 0, obs |-> 0] ELSE row
listPullRequestLinks == {i \in Issues : tab.links[i] # "none"}
pullRequestLinks == {i \in Issues : tab.links[i] # "none"}
insertClosingRefLink(source) == IF source = "none" THEN "closing" ELSE source
deleteClosingRefLink(source) == IF source = "closing" THEN "none" ELSE source
upsertExplicitPullRequestLink(i) == [tab.links EXCEPT ![i] = "explicit"]
fallbackIssuesForTarget(i) == IF tab.links[i] = "explicit" THEN {c \in Issues : tab.links[c] = "closing"} ELSE {}
(* A closing reference shows only while no explicit link has its issue on the board. *)
pullRequestsForIssues(i) ==
    tab.links[i] = "explicit"
    \/ (tab.links[i] = "closing" /\ ~\E e \in Issues : tab.links[e] = "explicit" /\ tab.issues[e] # Nil)
setPullRequestMergeQueue(row, q, obs) == IF row # Nil /\ obs >= row.obs THEN [row EXCEPT !.q = q, !.obs = obs] ELSE row

-----------------------------------------------------------------------------
(* The projection.                                                             *)

loadPrs(i) == IF tab.pr # Nil /\ pullRequestsForIssues(i) THEN [at |-> tab.pr.at, q |-> tab.pr.q] ELSE Nil
IssueToProtoWithPrs(i, row) == [at |-> row.at, lane |-> row.lane, prs |-> loadPrs(i)]

Older(new, old) == old # Nil /\ (new.at < old.at \/ (new.prs # Nil /\ old.prs # Nil /\ new.prs.at < old.prs.at))
record(new, loaded) ==
    /\ cards' = [i \in Issues |-> IF i \in DOMAIN new THEN new[i] ELSE cards[i]]
    /\ ghost' = [ghost EXCEPT !.back = @ \/ (~ghost.failed /\ \E i \in DOMAIN new : Older(new[i], cards[i])),
                              !.unshown = @ /\ ~(pullRequestLinks \subseteq loaded)]
(* Only a cached card is given its pull requests anew. *)
republishPrsLocked(coords) ==
    record([i \in {c \in coords : cards[c] # Nil} |-> [cards[i] EXCEPT !.prs = loadPrs(i)]], coords)

(* GetIssueConditional: the webhook arm's or the sweep's read of an issue. *)
Ingest(p, i) ==
    /\ jobs[p] = Idle
    /\ Job(p, [op |-> "upsert", i |-> i, at |-> forge.issue[i]])
    /\ UNCHANGED <<forge, tab, cards, mu, ghost>>
UpsertIssueForgeFields(p) ==
    LET j == jobs[p] IN
    /\ At(p, "upsert")
    /\ tab' = [tab EXCEPT !.issues[j.i] = upsertIssueForgeFields(@, j.at)]
    /\ Job(p, [op |-> "publish", i |-> j.i])
    /\ UNCHANGED <<forge, cards, mu, ghost>>
PublishIssueUpdate(p) ==
    /\ At(p, "publish") /\ mu = Nil
    /\ mu' = p
    /\ Job(p, [op |-> "record", i |-> jobs[p].i, row |-> getIssue(jobs[p].i)])
    /\ UNCHANGED <<forge, tab, cards, ghost>>
RecordIssue(p) ==
    LET j == jobs[p] IN
    /\ At(p, "record")
    /\ record([i \in {j.i} |-> IssueToProtoWithPrs(i, j.row)], {j.i})
    /\ Job(p, [op |-> "fallback", i |-> j.i])
    /\ UNCHANGED <<forge, tab, mu>>
FallbackIssuesForTarget(i) == fallbackIssuesForTarget(i)
ReadFallback(p) ==
    /\ At(p, "fallback")
    /\ Job(p, [op |-> "republish", coords |-> FallbackIssuesForTarget(jobs[p].i)])
    /\ UNCHANGED <<forge, tab, cards, mu, ghost>>
(* republishPrs takes writeMu, PublishIssueUpdate holds it. *)
republishPrs(p) ==
    /\ At(p, "republish") /\ mu \in {Nil, p}
    /\ republishPrsLocked(jobs[p].coords)
    /\ mu' = Nil
    /\ Job(p, Idle)
    /\ UNCHANGED <<forge, tab>>

-----------------------------------------------------------------------------
(* Transitions.                                                                *)

(* transitionMu serializes the read, the commit and the publish. *)
SetIssueState(p, i, lane) ==
    /\ jobs[p] = Idle /\ \A o \in Procs : ~At(o, "transition")
    /\ getIssue(i) # Nil /\ getIssue(i).lane # lane
    /\ tab' = setIssueState(i, lane)
    /\ Job(p, [op |-> "transition", i |-> i, row |-> tab'.issues[i]])
    /\ UNCHANGED <<forge, cards, mu, ghost>>
Transitioned(i, row) == [at |-> row.at, lane |-> row.lane, prs |-> IF cards[i] # Nil THEN cards[i].prs ELSE loadPrs(i)]
RecordAndPublish_CallerRow(p) ==
    LET j == jobs[p] IN
    /\ At(p, "transition") /\ mu = Nil
    /\ record([i \in {j.i} |-> Transitioned(i, j.row)], {})
    /\ Job(p, Idle)
    /\ UNCHANGED <<forge, tab, mu>>
RecordAndPublish(p) ==
    LET j == jobs[p] IN
    /\ At(p, "transition") /\ mu = Nil
    /\ record([i \in {j.i} |-> Transitioned(i, getIssue(i))], {})
    /\ Job(p, Idle)
    /\ UNCHANGED <<forge, tab, mu>>
(* The reads fail: the caller's row is published all the same. *)
PublishCommitted(p) ==
    LET j == jobs[p] IN
    /\ At(p, "transition") /\ mu = Nil
    /\ cards' = [cards EXCEPT ![j.i] = [at |-> j.row.at, lane |-> j.row.lane, prs |-> IF @ # Nil THEN @.prs ELSE Nil]]
    /\ ghost' = [ghost EXCEPT !.failed = TRUE]
    /\ Job(p, Idle)
    /\ UNCHANGED <<forge, tab, mu>>

-----------------------------------------------------------------------------
(* The pull request.                                                           *)

(* The read of the pull request, and the time taken before the queue's read. *)
Hydrate(p) ==
    /\ jobs[p] = Idle /\ forge.pr > 0
    /\ Job(p, [op |-> "queue entry", at |-> forge.pr, refs |-> forge.refs, obs |-> forge.q])
    /\ UNCHANGED <<forge, tab, cards, mu, ghost>>
(* No configured queue or a failed lookup leaves it unobserved. *)
mergeQueueEntry(p, observed) ==
    LET j == jobs[p] IN
    /\ At(p, "queue entry")
    /\ Job(p, [op |-> "upsert pr", at |-> j.at, refs |-> j.refs, obs |-> j.obs, q |-> forge.q, observed |-> observed])
    /\ UNCHANGED <<forge, tab, cards, mu, ghost>>
(* Every issue linked before or now is affected. *)
replaceClosingRefs_New(refs) == refs
replaceClosingRefs(refs) == listPullRequestLinks \union refs
UpsertPullRequest(p) ==
    LET j == jobs[p]
        written == tab.pr = Nil \/ j.at >= tab.pr.at IN
    /\ At(p, "upsert pr")
    /\ tab' = IF written
              THEN [tab EXCEPT !.pr = upsertPullRequestGuarded(@, j.at),
                               !.links = [i \in Issues |-> IF i \in j.refs THEN insertClosingRefLink(@[i]) ELSE deleteClosingRefLink(@[i])]]
              ELSE tab
    /\ Job(p, IF j.observed THEN [op |-> "set queue", q |-> j.q, obs |-> j.obs, coords |-> IF written THEN replaceClosingRefs(j.refs) ELSE {}]
              ELSE [op |-> "republish", coords |-> IF written THEN replaceClosingRefs(j.refs) ELSE {}])
    /\ UNCHANGED <<forge, cards, mu, ghost>>
(* A changed entry adds only the pull request's own coordinate, which is no issue's. *)
PublishPullRequestUpdate(p) ==
    LET j == jobs[p]
        row == setPullRequestMergeQueue(tab.pr, j.q, j.obs) IN
    /\ At(p, "set queue")
    /\ tab' = [tab EXCEPT !.pr = row]
    /\ ghost' = [ghost EXCEPT !.unshown = @ \/ (row.q # tab.pr.q /\ ~(pullRequestLinks \subseteq j.coords))]
    /\ Job(p, [op |-> "republish", coords |-> j.coords])
    /\ UNCHANGED <<forge, cards, mu>>

(* An agent's pull request, linked to the issue it names. *)
CreatePull(p, i) ==
    /\ jobs[p] = Idle /\ forge.pr = 0
    /\ forge' = [forge EXCEPT !.pr = 1]
    /\ Job(p, [op |-> "create", i |-> i])
    /\ UNCHANGED <<tab, cards, mu, ghost>>
CreatePullRequestWithLink(p, enabled) ==
    /\ At(p, "create")
    /\ tab' = [tab EXCEPT !.pr = insertPullRequestIfAbsent(@, 1, enabled), !.links = upsertExplicitPullRequestLink(jobs[p].i)]
    /\ Job(p, [op |-> "explicit", i |-> jobs[p].i])
    /\ UNCHANGED <<forge, cards, mu, ghost>>
PublishExplicitLink(p) ==
    /\ At(p, "explicit")
    /\ Job(p, [op |-> "republish", coords |-> FallbackIssuesForTarget(jobs[p].i) \union {jobs[p].i}])
    /\ UNCHANGED <<forge, tab, cards, mu, ghost>>

(* The merge queue's sweep. *)
OpenPullRequests(p) ==
    /\ jobs[p] = Idle /\ tab.pr # Nil
    /\ Job(p, [op |-> "entries", obs |-> forge.q])
    /\ UNCHANGED <<forge, tab, cards, mu, ghost>>
publishChanged(p) ==
    LET row == setPullRequestMergeQueue(tab.pr, forge.q, jobs[p].obs) IN
    /\ At(p, "entries")
    /\ tab' = [tab EXCEPT !.pr = row]
    /\ Job(p, IF row.q # tab.pr.q THEN [op |-> "links"] ELSE Idle)
    /\ UNCHANGED <<forge, cards, mu, ghost>>
PublishPullRequestMergeQueue(p) ==
    /\ At(p, "links")
    /\ Job(p, [op |-> "republish", coords |-> pullRequestLinks])
    /\ UNCHANGED <<forge, tab, cards, mu, ghost>>

-----------------------------------------------------------------------------
(* A read or write that fails ends the worker's turn. *)
Fail(p) ==
    /\ jobs[p] # Idle
    /\ Job(p, Idle)
    /\ mu' = IF mu = p THEN Nil ELSE mu
    /\ ghost' = [ghost EXCEPT !.failed = TRUE]
    /\ UNCHANGED <<forge, tab, cards>>
Rehydrate ==
    /\ jobs' = [p \in Procs |-> Idle]
    /\ mu' = Nil
    /\ cards' = [i \in Issues |-> IF tab.issues[i] = Nil THEN Nil ELSE IssueToProtoWithPrs(i, tab.issues[i])]
    /\ ghost' = [ghost EXCEPT !.failed = FALSE, !.unshown = FALSE]
    /\ UNCHANGED <<forge, tab>>

-----------------------------------------------------------------------------
(* Once every worker is done and none failed, each card is what the rows say,  *)
(* whatever order reads, commits and publishes took, and no card ever went     *)
(* back to an older issue or pull request.  Excused is a queue entry that a    *)
(* hydrate wrote although its pull request read was outdated or a link is new. *)
CardsSound ==
    /\ ~ghost.back
    /\ ((\A p \in Procs : jobs[p] = Idle) /\ ~ghost.failed /\ ~ghost.unshown) =>
        \A i \in Issues : cards[i] = IF tab.issues[i] = Nil THEN Nil ELSE IssueToProtoWithPrs(i, tab.issues[i])

-----------------------------------------------------------------------------
(* Bounds for IssueBoard: MaxCalls edits, worker starts, failures and starts   *)
(* of the Server.                                                              *)
CONSTANTS MaxCalls
VARIABLE load

BInit == IbInit /\ load = 0
Call(A) == load < MaxCalls /\ A /\ load' = load + 1
Run(A) == A /\ load' = load

IbNext ==
    \/ \E i \in Issues : Call(EditIssue(i))
    \/ \E refs \in SUBSET Issues : Call(EditPull(refs))
    \/ Call(MoveQueue) \/ Call(Rehydrate)
    \/ \E p \in Procs :
        \/ \E i \in Issues : Call(Ingest(p, i)) \/ Call(CreatePull(p, i)) \/ \E l \in Lanes : Call(SetIssueState(p, i, l))
        \/ Call(Hydrate(p)) \/ Call(OpenPullRequests(p)) \/ Call(Fail(p))
        \/ Run(UpsertIssueForgeFields(p)) \/ Run(PublishIssueUpdate(p)) \/ Run(RecordIssue(p)) \/ Run(ReadFallback(p)) \/ Run(republishPrs(p))
        \/ Run(RecordAndPublish(p)) \/ Call(PublishCommitted(p)) \/ \E b \in BOOLEAN : Run(mergeQueueEntry(p, b))
        \/ Run(UpsertPullRequest(p)) \/ Run(PublishPullRequestUpdate(p)) \/ \E b \in BOOLEAN : Run(CreatePullRequestWithLink(p, b))
        \/ Run(PublishExplicitLink(p))
        \/ Run(publishChanged(p)) \/ Run(PublishPullRequestMergeQueue(p))
IbSpec == BInit /\ [][IbNext]_<<bvars, load>>
=============================================================================
