---------------------------- MODULE ForgeMirrors ----------------------------
(* One forge mirror: the outbox row that carries an ask or an agent's messages *)
(* to a comment on a forge issue.  Calls claim the row under a request key,    *)
(* workers lease it, post or edit the comment and mark the row, and a recheck  *)
(* removes the duplicates that lost answers leave behind.                      *)
EXTENDS Naturals, Sequences, FiniteSets, TLC

CONSTANTS Workers, Agent, Person, Keys, MaxAttempts, Nil

(* comments[c] is the revision comment c shows, 0 once it is deleted.  wire    *)
(* holds the writes on their way to the forge; one whose sender stopped        *)
(* waiting has from = Nil.  acts is the history of what the requests did.      *)
VARIABLES row, requests, acts, comments, wire, work, env
fmvars == <<row, requests, acts, comments, wire, work, env>>

Off == 0
Manual == 1
Auto == 2
Pending == 1
Done == 2
Failed == 3

NewRow(source, actor, request) ==
    [source |-> source, actor |-> actor, request |-> request, body |-> 1, posted |-> 0, state |-> Pending,
     key |-> 0, tried |-> FALSE, recheck |-> "none", token |-> Nil, live |-> FALSE]

(* No mirror yet, or one that a call without a key has had delivered. *)
FmInit ==
    /\ \/ row = Nil /\ acts = <<>> /\ comments = <<>>
       \/ /\ row = [NewRow("messages", Agent, Nil) EXCEPT !.posted = 1, !.state = Done, !.key = 1, !.tried = TRUE]
          /\ acts = <<Nil>> /\ comments = <<1>>
    /\ requests = {} /\ wire = <<>> /\ work = [p \in Workers |-> Nil]
    /\ env \in [github : BOOLEAN, mode : {Auto}, timer : {"none"}, stale : {"no"}]

Free(p) == work[p] = Nil
At(p, pc) == work[p] # Nil /\ work[p].pc = pc
Set(p, r) == work' = [work EXCEPT ![p] = r]
To(p, pc) == Set(p, [work[p] EXCEPT !.pc = pc])
Lease == [pc |-> "lease"]
Need(actor) == IF actor = Agent THEN Auto ELSE Manual
MirrorAllowed(actor) == env.mode >= Need(actor)
Marked == {c \in DOMAIN comments : comments[c] # 0}
OldestOf(S) == CHOOSE c \in S : \A d \in S : c <= d

----------------------------------------------------------------------------
(* Settings, asks and claims. *)

UpsertForgeMirrorSetting(mode) == env' = [env EXCEPT !.mode = mode]

SetForgeMirrorSetting(mode) ==
    /\ UpsertForgeMirrorSetting(mode) /\ UNCHANGED <<row, requests, acts, comments, wire, work>>

InsertAskForgeMirror == row' = NewRow("ask", Agent, Nil)

InsertAskMirrors ==
    /\ row = Nil /\ env.mode = Auto /\ InsertAskForgeMirror
    /\ UNCHANGED <<requests, acts, comments, wire, work, env>>

BumpAskMirror ==
    /\ row # Nil /\ row.source = "ask" /\ row.body = 1
    /\ row' = [row EXCEPT !.body = 2, !.state = Pending]
    /\ UNCHANGED <<requests, acts, comments, wire, work, env>>

Reserved(key) == key \in requests

(* A used key is answered from its row before anything else. *)
MirrorMessages(p, key) ==
    /\ Free(p) /\ MirrorAllowed(Agent) /\ ~Reserved(key)
    /\ Set(p, [pc |-> "claim", actor |-> Agent, request |-> key])
    /\ UNCHANGED <<row, requests, acts, comments, wire, env>>

MirrorAsUser(p) ==
    /\ Free(p) /\ MirrorAllowed(Person)
    /\ Set(p, [pc |-> "claim", actor |-> Person, request |-> Nil])
    /\ UNCHANGED <<row, requests, acts, comments, wire, env>>

RecordForgeMirrorRequest(key) == requests' = requests \union ({key} \ {Nil})

(* The insert and the reservation are one transaction: either both or neither. *)
InsertForgeMirror(p) ==
    /\ At(p, "claim")
    /\ IF row = Nil /\ ~Reserved(work[p].request)
       THEN /\ row' = NewRow("messages", work[p].actor, work[p].request)
            /\ RecordForgeMirrorRequest(work[p].request) /\ acts' = <<work[p].request>>
            /\ Set(p, Lease)
       ELSE /\ To(p, IF work[p].request # Nil THEN "lookup" ELSE "conflict")
            /\ UNCHANGED <<row, requests, acts>>
    /\ UNCHANGED <<comments, wire, env>>

ForgeMirrorByRequest(p) ==
    /\ At(p, "lookup")
    /\ IF Reserved(work[p].request) THEN Set(p, Nil) ELSE To(p, "conflict")
    /\ UNCHANGED <<row, requests, acts, comments, wire, env>>

(* The row holds the claim's source key, and not under the claim's request key. *)
SourceKeyConflict(p) == row.source = "messages" /\ (work[p].request = Nil \/ row.request # work[p].request)

(* Only the row's own actor re-mirrors it; any other claim is told of the conflict. *)
ClaimConflict(p) ==
    /\ At(p, "conflict")
    /\ IF SourceKeyConflict(p) /\ row.actor = work[p].actor THEN To(p, "remirror") ELSE Set(p, Nil)
    /\ UNCHANGED <<row, requests, acts, comments, wire, env>>

BumpForgeMirrorSourceRevision == row' = [row EXCEPT !.body = @ + 1, !.state = Pending]

RemirrorSource_BumpsAgain(p) ==
    /\ At(p, "remirror")
    /\ BumpForgeMirrorSourceRevision /\ RecordForgeMirrorRequest(work[p].request)
    /\ acts' = Append(acts, work[p].request) /\ Set(p, Lease)
    /\ UNCHANGED <<comments, wire, env>>
RemirrorSource(p) ==
    /\ At(p, "remirror")
    /\ IF Reserved(work[p].request)
       THEN Set(p, Nil) /\ UNCHANGED <<row, requests, acts>>
       ELSE /\ RecordForgeMirrorRequest(work[p].request) /\ BumpForgeMirrorSourceRevision
            /\ acts' = Append(acts, work[p].request) /\ Set(p, Lease)
    /\ UNCHANGED <<comments, wire, env>>

----------------------------------------------------------------------------
(* The lease. *)

Holds(p) == row.token = p /\ row.live

Leasable == (row.state # Done \/ row.recheck = "due") /\ (row.token = Nil \/ ~row.live)

OpenForgeMirror == row.actor = Agent /\ (row.state # Done \/ row.recheck = "due")

DriveAgent(p) ==
    /\ Free(p) /\ row # Nil /\ OpenForgeMirror /\ Set(p, Lease)
    /\ UNCHANGED <<row, requests, acts, comments, wire, env>>

AskForgeMirror == row.source = "ask"

DriveAsks(p) ==
    /\ Free(p) /\ row # Nil /\ AskForgeMirror /\ Set(p, Lease)
    /\ UNCHANGED <<row, requests, acts, comments, wire, env>>

TimerFires(p) ==
    /\ Free(p) /\ env.timer = "set" /\ Set(p, Lease) /\ env' = [env EXCEPT !.timer = "none"]
    /\ UNCHANGED <<row, requests, acts, comments, wire>>

(* A drive ends by arming the timer of a recheck that is still to come. *)
ScheduleMirrorRecheck == env' = [env EXCEPT !.timer = IF row.recheck # "none" THEN "set" ELSE @]
EndDrive(p) == Set(p, Nil) /\ ScheduleMirrorRecheck

LeasedWork ==
    [pc |-> IF row.state = Done THEN "recheck"
            ELSE IF row.key # 0 /\ row.posted = row.body THEN "mark" ELSE "attempt",
     done |-> row.state = Done, rev |-> row.body, posted |-> row.posted, key |-> row.key, tried |-> row.tried,
     unsure |-> env.github /\ row.key = 0 /\ row.tried, to |-> row.key, extra |-> {}, n |-> 1,
     lost |-> FALSE, refused |-> FALSE]

LeaseForgeMirror(p) ==
    /\ At(p, "lease")
    /\ IF Leasable
       THEN row' = [row EXCEPT !.token = p, !.live = TRUE] /\ Set(p, LeasedWork) /\ UNCHANGED env
       ELSE UNCHANGED row /\ EndDrive(p)
    /\ UNCHANGED <<requests, acts, comments, wire>>

(* The lease runs out when its holder died, stalled or could not renew it. *)
ExpireLease ==
    /\ row # Nil /\ row.live /\ row' = [row EXCEPT !.live = FALSE]
    /\ UNCHANGED <<requests, acts, comments, wire, work, env>>

Leased(p) == ~Free(p) /\ work[p].pc \in {"recheck", "attempt", "begin", "dedupe", "post", "sent"}

RenewLease(p) ==
    /\ Leased(p) /\ ~work[p].lost /\ ~Holds(p)
    /\ Set(p, [work[p] EXCEPT !.lost = TRUE]) /\ UNCHANGED <<row, requests, acts, comments, wire, env>>

Finish(p) == To(p, "final")

(* The drive repeats for a newer revision or a repointed comment. *)
DriveOne(p) ==
    /\ At(p, "final")
    /\ LET again == \/ row.body > work[p].rev
                    \/ ~work[p].refused /\ row.state = Pending /\ row.key # work[p].key
       IN IF again THEN Set(p, Lease) /\ UNCHANGED env ELSE EndDrive(p)
    /\ UNCHANGED <<row, requests, acts, comments, wire>>

(* Ten minutes outlast every write begun before them. *)
RecheckDue ==
    /\ row # Nil /\ row.recheck = "later"
    /\ \A i \in DOMAIN wire : wire[i].key # 0
    /\ \A p \in Workers : ~(At(p, "post") /\ work[p].to = 0)
    /\ row' = [row EXCEPT !.recheck = "due"] /\ UNCHANGED <<requests, acts, comments, wire, work, env>>

(* The Server stops: its workers and its timers are gone, what it sent is not. *)
Restart ==
    /\ work' = [p \in Workers |-> Nil]
    /\ wire' = [i \in DOMAIN wire |-> [wire[i] EXCEPT !.from = Nil]]
    /\ env' = [env EXCEPT !.timer = "gone"] /\ UNCHANGED <<row, requests, acts, comments>>

----------------------------------------------------------------------------
(* Marking: only the live lease writes, and a mark never calls done a row whose *)
(* body moved on meanwhile.                                                     *)

MarkForgeMirror_IgnoresBump(p, posted, state, key, recheck) ==
    row' = IF Holds(p)
           THEN [row EXCEPT !.posted = posted, !.state = state,
                            !.key = IF key = 0 THEN @ ELSE key, !.recheck = recheck, !.token = Nil, !.live = FALSE]
           ELSE row
MarkForgeMirror(p, posted, state, key, recheck) ==
    row' = IF Holds(p)
           THEN [row EXCEPT !.posted = posted,
                            !.state = IF state = Done /\ row.body > posted THEN Pending ELSE state,
                            !.key = IF key = 0 THEN @ ELSE key, !.recheck = recheck, !.token = Nil, !.live = FALSE]
           ELSE row

MarkDelivered(p) ==
    /\ At(p, "mark")
    /\ MarkForgeMirror(p, work[p].rev, Done, work[p].to, IF work[p].unsure THEN "later" ELSE row.recheck)
    /\ Finish(p) /\ UNCHANGED <<requests, acts, comments, wire, env>>

MarkFailed(p) ==
    /\ At(p, "fail")
    /\ MarkForgeMirror(p, work[p].posted, Failed, 0, row.recheck)
    /\ Finish(p) /\ UNCHANGED <<requests, acts, comments, wire, env>>

----------------------------------------------------------------------------
(* One delivery attempt. *)

Retry(p, unsure) ==
    IF work[p].n < MaxAttempts
    THEN Set(p, [work[p] EXCEPT !.pc = "attempt", !.n = @ + 1, !.unsure = unsure, !.to = work[p].key, !.extra = {}])
    ELSE To(p, "fail")

Recovers(p) == work[p].key = 0 /\ env.github /\ work[p].tried

(* The source can no longer be rendered. *)
RenderBody(p) ==
    /\ At(p, "attempt") /\ work[p].n = 1 /\ To(p, "fail")
    /\ UNCHANGED <<row, requests, acts, comments, wire, env>>

DeliverAttempt(p) ==
    /\ At(p, "attempt") /\ ~Recovers(p)
    /\ IF work[p].lost THEN Finish(p) ELSE To(p, IF work[p].key = 0 THEN "begin" ELSE "post")
    /\ UNCHANGED <<row, requests, acts, comments, wire, env>>

(* A recheck that cannot finish keeps its lease until it runs out; listing and *)
(* deleting ask for the mirror's permission too, and a refusal is an error.    *)
Rechecks(p) == work[p].done
GiveUp(p) == IF Rechecks(p) THEN Finish(p) ELSE Retry(p, work[p].unsure)

(* The oldest marked comment is kept, the others are deleted one by one; only  *)
(* a person could delete the oldest, and none does here.                       *)
RecoverComment(p) ==
    /\ At(p, "attempt") /\ Recovers(p)
    /\ IF work[p].lost THEN Finish(p)
       ELSE IF ~MirrorAllowed(row.actor) THEN GiveUp(p)
       ELSE IF Marked = {} THEN To(p, "begin")
       ELSE Set(p, [work[p] EXCEPT !.pc = "dedupe", !.to = OldestOf(Marked), !.extra = Marked \ {OldestOf(Marked)}])
    /\ UNCHANGED <<row, requests, acts, comments, wire, env>>

RecheckComments(p) ==
    /\ At(p, "recheck") /\ work[p].extra = {} /\ Marked # {}
    /\ IF work[p].lost \/ ~MirrorAllowed(row.actor) THEN Finish(p)
       ELSE Set(p, [work[p] EXCEPT !.pc = "dedupe", !.to = OldestOf(Marked), !.extra = Marked \ {OldestOf(Marked)}])
    /\ UNCHANGED <<row, requests, acts, comments, wire, env>>

DeleteMirrorComment(p) ==
    /\ At(p, "dedupe") /\ work[p].extra # {}
    /\ LET c == OldestOf(work[p].extra)
       IN IF work[p].lost THEN Finish(p) /\ UNCHANGED comments
          ELSE IF comments[c] = 0 \/ ~MirrorAllowed(row.actor) THEN GiveUp(p) /\ UNCHANGED comments
          ELSE comments' = [comments EXCEPT ![c] = 0] /\ Set(p, [work[p] EXCEPT !.extra = @ \ {c}])
    /\ UNCHANGED <<row, requests, acts, wire, env>>

ForgeErrs(p) ==
    /\ At(p, "recheck") \/ At(p, "dedupe") \/ (At(p, "attempt") /\ Recovers(p))
    /\ GiveUp(p) /\ UNCHANGED <<row, requests, acts, comments, wire, env>>

(* An adopted comment is always edited: which revision it shows is not known. *)
AdoptComment(p) ==
    /\ At(p, "dedupe") /\ work[p].extra = {} /\ ~Rechecks(p)
    /\ Set(p, [work[p] EXCEPT !.pc = "post", !.unsure = TRUE])
    /\ UNCHANGED <<row, requests, acts, comments, wire, env>>

ClearRecheck(p) ==
    /\ At(p, "dedupe") /\ work[p].extra = {} /\ Rechecks(p)
    /\ LET moved == work[p].to # work[p].key
       IN MarkForgeMirror(p, IF moved THEN 0 ELSE work[p].posted, IF moved THEN Pending ELSE Done, work[p].to, "none")
    /\ Finish(p) /\ UNCHANGED <<requests, acts, comments, wire, env>>

BeginForgeMirrorAttempt(p) ==
    /\ At(p, "begin")
    /\ IF Holds(p)
       THEN /\ row' = [row EXCEPT !.tried = TRUE]
            /\ Set(p, [work[p] EXCEPT !.pc = "post", !.tried = TRUE, !.unsure = @ \/ (env.github /\ work[p].tried)])
       ELSE UNCHANGED row /\ Finish(p)
    /\ UNCHANGED <<requests, acts, comments, wire, env>>

PostMirror(p) ==
    /\ At(p, "post")
    /\ IF work[p].lost THEN Finish(p) /\ UNCHANGED wire
       ELSE IF ~MirrorAllowed(row.actor)
       THEN Set(p, [work[p] EXCEPT !.pc = "fail", !.refused = TRUE]) /\ UNCHANGED wire
       ELSE wire' = Append(wire, [from |-> p, key |-> work[p].to, rev |-> work[p].rev]) /\ To(p, "sent")
    /\ UNCHANGED <<row, requests, acts, comments, env>>

----------------------------------------------------------------------------
(* The forge.  GitHub creates a comment for every create that reaches it;      *)
(* Linear refuses a used client id, and its adapter answers with the comment   *)
(* that has it.                                                                *)

Exists(w) == IF w.key = 0 THEN ~env.github /\ Marked # {} ELSE comments[w.key] # 0
Apply(w) ==
    comments' = IF w.key = 0 THEN IF Exists(w) THEN comments ELSE Append(comments, w.rev)
                ELSE IF Exists(w) THEN [comments EXCEPT ![w.key] = w.rev] ELSE comments
Without(i) == SubSeq(wire, 1, i - 1) \o SubSeq(wire, i + 1, Len(wire))

(* A late edit overwrites a newer revision. *)
Overtaken(w) == w.key # 0 /\ comments[w.key] > w.rev
(* Linear's adapter adopts a comment that shows another revision. *)
AdoptsOther(w) == w.key = 0 /\ Exists(w) /\ comments[OldestOf(Marked)] # w.rev
Wrote(w, heard) ==
    env' = [env EXCEPT !.stale =
        IF w.key = 0 THEN IF heard /\ AdoptsOther(w) THEN "adopted" ELSE @
        ELSE IF Exists(w) /\ w.rev = row.body THEN "no" ELSE IF Overtaken(w) THEN "late" ELSE @]

Answered(i) ==
    /\ wire[i].from # Nil
    /\ LET w == wire[i] p == wire[i].from
       IN IF w.key # 0 /\ ~Exists(w)
          THEN Retry(p, work[p].unsure \/ env.github) /\ UNCHANGED <<comments, env>>
          ELSE /\ Apply(w) /\ Wrote(w, TRUE)
               /\ Set(p, [work[p] EXCEPT !.pc = "mark",
                     !.to = IF w.key # 0 THEN w.key ELSE IF Exists(w) THEN OldestOf(Marked) ELSE Len(comments) + 1])
    /\ wire' = Without(i) /\ UNCHANGED <<row, requests, acts>>

(* The answer is lost or late: the worker tries again, the write is still out. *)
AnswerLost(i) ==
    /\ wire[i].from # Nil /\ Retry(wire[i].from, work[wire[i].from].unsure \/ env.github)
    /\ wire' = [wire EXCEPT ![i].from = Nil] /\ UNCHANGED <<row, requests, acts, comments, env>>

LateWrite(i) ==
    /\ wire[i].from = Nil /\ Apply(wire[i]) /\ Wrote(wire[i], FALSE)
    /\ wire' = Without(i) /\ UNCHANGED <<row, requests, acts, work>>

LostWrite(i) ==
    /\ wire[i].from = Nil /\ wire' = Without(i) /\ UNCHANGED <<row, requests, acts, comments, work, env>>

----------------------------------------------------------------------------
Settled == row # Nil /\ row.state = Done /\ row.recheck = "none"

(* A request key acts once: it inserts or bumps the row in the transaction     *)
(* that reserves it, and every revision of a message mirror is some request's. *)
KeysActOnce ==
    /\ \A i, j \in DOMAIN acts : acts[i] = acts[j] => i = j \/ acts[i] = Nil
    /\ {acts[i] : i \in DOMAIN acts} \ {Nil} = requests
    /\ (row # Nil /\ row.source = "messages") => row.body = Len(acts)

(* A row marked done was posted at its latest revision. *)
DoneIsCurrent == (row # Nil /\ row.state = Done) => row.posted = row.body /\ row.key # 0

(* A settled row has one comment, and nothing on its way can add another:      *)
(* whatever answers were lost and leases expired, a recheck stays due until    *)
(* the duplicates are gone.                                                    *)
OneComment ==
    Settled => /\ Marked = {row.key}
               /\ \A i \in DOMAIN wire : wire[i].key = 0 => ~env.github
               /\ \A p \in Workers : ~(At(p, "post") /\ work[p].to = 0 /\ env.github)

(* A settled row's comment shows its latest revision, unless a late edit       *)
(* overwrote it or Linear's adapter adopted it.                                *)
ShowsLatest == (Settled /\ env.stale = "no") => comments[row.key] = row.body

(* "An adopted comment's body revision is unknown, so always edit it": a       *)
(* settled row's comment shows its latest revision unless a late edit          *)
(* overwrote it, also where a Linear create found its client id in use.        *)
AdoptedIsEdited == (Settled /\ env.stale # "late") => comments[row.key] = row.body

(* A recheck to come is never forgotten while the Server runs: its timer is    *)
(* set or a drive that will set it is under way.                               *)
RecheckArmed ==
    (row # Nil /\ row.recheck # "none" /\ env.timer = "none") =>
        \E p \in Workers : ~Free(p) /\ work[p].pc \notin {"claim", "lookup", "conflict", "remirror"}

MirrorsSound == KeysActOnce /\ DoneIsCurrent /\ OneComment /\ ShowsLatest /\ RecheckArmed

-----------------------------------------------------------------------------
(* Bounds for ForgeMirrors: MaxCalls calls and drives, MaxFaults faults.       *)
CONSTANTS MaxCalls, MaxFaults
VARIABLE load

FInit == FmInit /\ load = [calls |-> 0, faults |-> 0]

Call(A) == load.calls < MaxCalls /\ A /\ load' = [load EXCEPT !.calls = @ + 1]
Fault(A) == load.faults < MaxFaults /\ A /\ load' = [load EXCEPT !.faults = @ + 1]
Run(A) == A /\ load' = load

FmNext ==
    \/ Call(\E mode \in {Off, Manual, Auto} \ {env.mode} : SetForgeMirrorSetting(mode))
    \/ Run(InsertAskMirrors) \/ Call(BumpAskMirror) \/ Fault(ExpireLease) \/ Run(RecheckDue) \/ Fault(Restart)
    \/ \E p \in Workers :
        \/ Call(\E key \in Keys : MirrorMessages(p, key)) \/ Call(MirrorAsUser(p)) \/ Call(DriveAgent(p)) \/ Call(DriveAsks(p))
        \/ Run(InsertForgeMirror(p)) \/ Run(ForgeMirrorByRequest(p)) \/ Run(ClaimConflict(p)) \/ Run(RemirrorSource(p))
        \/ Run(TimerFires(p)) \/ Run(LeaseForgeMirror(p)) \/ Run(RenewLease(p)) \/ Run(DriveOne(p))
        \/ Run(MarkDelivered(p)) \/ Run(MarkFailed(p)) \/ Fault(RenderBody(p)) \/ Run(DeliverAttempt(p))
        \/ Run(RecoverComment(p)) \/ Run(RecheckComments(p)) \/ Run(DeleteMirrorComment(p)) \/ Fault(ForgeErrs(p))
        \/ Run(AdoptComment(p)) \/ Run(ClearRecheck(p)) \/ Run(BeginForgeMirrorAttempt(p)) \/ Run(PostMirror(p))
    \/ \E i \in DOMAIN wire : Run(Answered(i)) \/ Fault(AnswerLost(i)) \/ Run(LateWrite(i)) \/ Run(LostWrite(i))
FmSpec == FInit /\ [][FmNext]_<<fmvars, load>>
=============================================================================
