---------------------------- MODULE ForgeWrites ----------------------------
(* What an agent creates on a forge, at most once per request key: the write   *)
(* intents (store/forge_write_intents.go), the creates that run under them     *)
(* (server/forge.go, server/forge_stack.go) and the sweep that looks for what  *)
(* a lost answer may have left behind (server/forge_write_sweep.go).  An issue *)
(* carries the intent's id as a marker in its body, a comment or a review too; *)
(* a pull request is found again by its head.  Numbers on the forge and intent *)
(* ids are positions, so both are fresh.                                       *)
EXTENDS Naturals, Sequences, FiniteSets

CONSTANTS Procs, Nil
(* A request is [agent, key, kind, head, stack]; head is "" unless its kind is  *)
(* "pull_request".                                                             *)

VARIABLES
    intents,    \* forge_write_intents, in order of creation
    forge,      \* objects of the forge: kind, head, by (the intent, 0: a person), open, early
    authored,   \* forge_authored_artifacts: [number |-> agent]
    calls,      \* [Procs -> one call of an agent]
    sweep,      \* the sweep: what it listed and is working on
    flying,     \* intents whose create left the Server without an answer and may still land
    told        \* [agent, key, number]: the successes agents were told of
wvars == <<intents, forge, authored, calls, sweep, flying, told>>

Idle == [pc |-> "idle"]
Rest == [pc |-> "idle", todo |-> {}]
FwInit ==
    /\ intents = <<>> /\ forge = <<>> /\ authored = <<>> /\ flying = {} /\ told = {}
    /\ calls = [p \in Procs |-> Idle]
    /\ sweep = Rest

At(p, pc) == calls[p].pc = pc
Goto(p, pc) == calls' = [calls EXCEPT ![p].pc = pc]
End(p) == calls' = [calls EXCEPT ![p] = Idle]
Numbered(kind) == kind \in {"issue", "pull_request"}

-----------------------------------------------------------------------------
(* Queries.                                                                    *)

recordForgeWriteIntent_LostFree(r) == {i \in DOMAIN intents : intents[i].agent = r.agent /\ intents[i].key = r.key /\ intents[i].state \in {"pending", "done"}}
(* The unique index over (agent, client_request_id) leaves out failed rows.    *)
recordForgeWriteIntent(r) == {i \in DOMAIN intents : intents[i].agent = r.agent /\ intents[i].key = r.key /\ intents[i].state # "failed"}
(* The unique index over a pull request's head: one pending or done intent.    *)
pRWriteIntentByHead(r) == {i \in DOMAIN intents : r.kind = "pull_request" /\ intents[i].head = r.head /\ intents[i].state \in {"pending", "done"}}
completeForgeWriteIntent(i, n) == [intents EXCEPT ![i].state = "done", ![i].forge_key = n]
endForgeWriteIntent(i, s) == IF intents[i].state = "pending" THEN [intents EXCEPT ![i].state = s] ELSE intents
pendingForgeWriteIntents == {i \in DOMAIN intents : intents[i].state = "pending" /\ intents[i].age # "new"}
(* A number already recorded keeps its agent.                                  *)
recordAuthoredArtifact(n, a) == IF n \in DOMAIN authored THEN authored ELSE [m \in DOMAIN authored \union {n} |-> IF m = n THEN a ELSE authored[m]]
authoredArtifactByCoordinateFold(n) == IF n \in DOMAIN authored THEN authored[n] ELSE Nil

-----------------------------------------------------------------------------
(* The forge.                                                                  *)

ByHead(head) == {n \in DOMAIN forge : forge[n].kind = "pull_request" /\ forge[n].head = head}
Newest(ns) == CHOOSE n \in ns : \A m \in ns : m <= n
(* Every state of the head's pull requests, newest first; 0: none.             *)
FindPullRequestByHead(head) == IF ByHead(head) = {} THEN 0 ELSE Newest(ByHead(head))
(* Listed since the intent's second by the forge's clock: a forge whose clock  *)
(* is behind shows an object as earlier, and it is passed over.                *)
FindByWriteMarker(i) ==
    LET ns == {n \in DOMAIN forge : forge[n].by = i /\ ~forge[n].early} IN IF ns = {} THEN 0 ELSE Newest(ns)
Object(kind, head, by, early) == [kind |-> kind, head |-> head, by |-> by, open |-> TRUE, early |-> early]
CreateIssue(i, early) == Object("issue", "", i, early)
CreatePullRequest(i, early) == Object("pull_request", intents[i].head, i, early)
CommentOnIssue(i, early) == Object("comment", "", i, early)
SubmitReview(i, early) == Object("review", "", i, early)
Created(i, early) ==
    CASE intents[i].kind = "issue" -> CreateIssue(i, early) [] intents[i].kind = "pull_request" -> CreatePullRequest(i, early)
      [] intents[i].kind = "comment" -> CommentOnIssue(i, early) [] OTHER -> SubmitReview(i, early)
(* The forge takes no second open pull request for a head.                     *)
Takes(kind, head) == kind = "pull_request" => \A n \in ByHead(head) : ~forge[n].open
PersonOpens(head) ==
    /\ Takes("pull_request", head)
    /\ forge' = Append(forge, Object("pull_request", head, 0, FALSE))
    /\ UNCHANGED <<intents, authored, calls, sweep, flying, told>>
PersonCloses(n) ==
    /\ n \in DOMAIN forge /\ forge[n].kind = "pull_request" /\ forge[n].open
    /\ forge' = [forge EXCEPT ![n].open = FALSE]
    /\ UNCHANGED <<intents, authored, calls, sweep, flying, told>>
(* A create whose answer the Server gave up on reaches the forge, or never does. *)
Land(i, early) ==
    /\ i \in flying
    /\ flying' = flying \ {i}
    /\ forge' = IF Takes(intents[i].kind, intents[i].head) THEN Append(forge, Created(i, early)) ELSE forge
    /\ UNCHANGED <<intents, authored, calls, sweep, told>>
Drop(i) == i \in flying /\ flying' = flying \ {i} /\ UNCHANGED <<intents, forge, authored, calls, sweep, told>>

-----------------------------------------------------------------------------
(* Rows.                                                                       *)

RecordWriteIntent(r) ==
    Append(intents, [agent |-> r.agent, key |-> r.key, kind |-> r.kind, head |-> r.head, state |-> "pending", forge_key |-> 0, age |-> "new"])
(* Under the row's lock: the artifact's row and the state together, or a conflict that changes nothing. *)
CompleteWriteIntent(i, n) ==
    IF intents[i].state # "pending" THEN UNCHANGED <<intents, authored>>
    ELSE /\ intents' = completeForgeWriteIntent(i, n)
         /\ authored' = IF Numbered(intents[i].kind) THEN recordAuthoredArtifact(n, intents[i].agent) ELSE authored
EndWriteIntent(i, s) == intents' = endForgeWriteIntent(i, s)

-----------------------------------------------------------------------------
(* A call.                                                                     *)

(* What the agent is told: by the intent the row names, which an earlier kind of call under the key may have made. *)
Tell(p, i, n) == told' = told \union {[agent |-> intents[i].agent, key |-> intents[i].key, number |-> n]} /\ End(p)
Started(p, r, goal) == calls' = [calls EXCEPT ![p] = [pc |-> "begin", req |-> r, goal |-> goal, id |-> 0, number |-> 0]]

Create(p, r) ==
    /\ At(p, "idle") /\ ~r.stack
    /\ Started(p, r, "create")
    /\ UNCHANGED <<intents, forge, authored, sweep, flying, told>>
createIssue(p, r) == r.kind = "issue" /\ Create(p, r)
createPullRequest(p, r) == r.kind = "pull_request" /\ Create(p, r)
writeComment(p, r) == r.kind = "comment" /\ Create(p, r)
submitReview(p, r) == r.kind = "review" /\ Create(p, r)

requireOwn(p, r, n) ==
    \/ authoredArtifactByCoordinateFold(n) = Nil /\ calls' = [calls EXCEPT ![p] = [pc |-> "begin", req |-> r, goal |-> "adopt", id |-> 0, number |-> n]]
    \/ authoredArtifactByCoordinateFold(n) # Nil /\ UNCHANGED calls
(* One entry of a submitted stack: its head's pull request, created when there is none. *)
ensure(p, r) ==
    /\ At(p, "idle") /\ r.stack
    /\ LET n == FindPullRequestByHead(r.head) IN
        \/ n = 0 /\ Started(p, r, "create")
        \/ n # 0 /\ forge[n].open /\ requireOwn(p, r, n)
        \/ n # 0 /\ ~forge[n].open /\ UNCHANGED calls
    /\ UNCHANGED <<intents, forge, authored, sweep, flying, told>>

(* The intent before any forge call: a fresh one, or what the row of an earlier attempt says. *)
beginWrite(p) ==
    /\ At(p, "begin")
    /\ LET r == calls[p].req
           prior == recordForgeWriteIntent(r) IN
        \/ /\ prior = {} /\ pRWriteIntentByHead(r) = {}
           /\ intents' = RecordWriteIntent(r)
           /\ calls' = [calls EXCEPT ![p].pc = IF calls[p].goal = "adopt" THEN "unused" ELSE "send", ![p].id = Len(intents) + 1]
           /\ UNCHANGED told
        \/ prior = {} /\ pRWriteIntentByHead(r) # {} /\ End(p) /\ UNCHANGED <<intents, told>>
        \/ \E i \in prior :
            /\ UNCHANGED intents
            /\ \/ intents[i].state = "done" /\ calls[p].goal = "create" /\ Tell(p, i, intents[i].forge_key)
               \/ intents[i].state = "done" /\ calls[p].goal = "adopt" /\ End(p) /\ UNCHANGED told
               \/ intents[i].state = "lost" /\ End(p) /\ UNCHANGED told
               \/ /\ intents[i].state = "pending" /\ UNCHANGED told
                  /\ calls' = [calls EXCEPT ![p].pc = "find", ![p].id = i]
    /\ UNCHANGED <<forge, authored, sweep, flying>>

findWrite(i) == IF intents[i].kind = "pull_request" THEN FindPullRequestByHead(intents[i].head) ELSE FindByWriteMarker(i)
(* Not found, or the lookup failed: the caller is told to retry later.         *)
FindPrior(p, answered) ==
    /\ At(p, "find")
    /\ LET n == findWrite(calls[p].id) IN
        IF answered /\ n # 0 THEN calls' = [calls EXCEPT ![p].pc = "found", ![p].number = n] ELSE End(p)
    /\ UNCHANGED <<intents, forge, authored, sweep, flying, told>>
completeFound(p) ==
    /\ At(p, "found")
    /\ CompleteWriteIntent(calls[p].id, calls[p].number)
    /\ IF calls[p].goal = "create" THEN Tell(p, calls[p].id, calls[p].number) ELSE End(p) /\ UNCHANGED told
    /\ UNCHANGED <<forge, sweep, flying>>

(* The forge's answer: made, refused with a 4xx, or an error that may hide a create. *)
Made(p, early) ==
    /\ At(p, "send") /\ Takes(calls[p].req.kind, calls[p].req.head)
    /\ forge' = Append(forge, Created(calls[p].id, early))
    /\ calls' = [calls EXCEPT ![p].pc = IF calls[p].req.kind = "pull_request" THEN "row" ELSE "finish", ![p].number = Len(forge) + 1]
    /\ UNCHANGED <<intents, authored, sweep, flying, told>>
forgeRefused(p) == At(p, "send") /\ Goto(p, "refused") /\ UNCHANGED <<intents, forge, authored, sweep, flying, told>>
Unanswered_Fails(p) ==
    /\ At(p, "send")
    /\ flying' = flying \union {calls[p].id}
    /\ Goto(p, "refused")
    /\ UNCHANGED <<intents, forge, authored, sweep, told>>
Unanswered(p) ==
    /\ At(p, "send")
    /\ flying' = flying \union {calls[p].id}
    /\ End(p)
    /\ UNCHANGED <<intents, forge, authored, sweep, told>>
failWrite(p) ==
    /\ At(p, "refused")
    /\ EndWriteIntent(calls[p].id, "failed") /\ End(p)
    /\ UNCHANGED <<forge, authored, sweep, flying, told>>
(* The pull request's row, its link and its author in one transaction.         *)
recordPullRequest(p) ==
    /\ At(p, "row")
    /\ authored' = recordAuthoredArtifact(calls[p].number, calls[p].req.agent)
    /\ Goto(p, "finish")
    /\ UNCHANGED <<intents, forge, sweep, flying, told>>
(* A conflict is taken to mean that the sweep recorded the same object.        *)
completeWrite(p) ==
    /\ At(p, "finish")
    /\ CompleteWriteIntent(calls[p].id, calls[p].number)
    /\ Tell(p, calls[p].id, calls[p].number)
    /\ UNCHANGED <<forge, sweep, flying>>
(* A fresh intent an adoption did not need sends nothing, so it ends.          *)
adopt(p) ==
    /\ At(p, "unused")
    /\ EndWriteIntent(calls[p].id, "failed") /\ End(p)
    /\ UNCHANGED <<forge, authored, sweep, flying, told>>
(* A store error or a client gone: the call ends where it stands.              *)
Abandon(p) ==
    /\ calls[p].pc \in {"begin", "found", "refused", "row", "finish", "unused"}
    /\ End(p)
    /\ UNCHANGED <<intents, forge, authored, sweep, flying, told>>
Restart ==
    /\ calls' = [p \in Procs |-> Idle] /\ sweep' = Rest
    /\ flying' = flying \union {calls[p].id : p \in {q \in Procs : At(q, "send")}}
    /\ UNCHANGED <<intents, forge, authored, told>>

(* Only the recorded author closes or reopens a pull request.                  *)
transitionPullRequestState(a, n) ==
    /\ n \in DOMAIN forge /\ forge[n].kind = "pull_request" /\ authoredArtifactByCoordinateFold(n) = a
    /\ ~forge[n].open => Takes("pull_request", forge[n].head)
    /\ forge' = [forge EXCEPT ![n].open = ~@]
    /\ UNCHANGED <<intents, authored, calls, sweep, flying, told>>

-----------------------------------------------------------------------------
(* The sweep, once a minute.                                                   *)

(* A call ends, and its create lands or is dropped, long before a day has passed. *)
Age(i) ==
    /\ i \in DOMAIN intents /\ intents[i].state = "pending" /\ intents[i].age # "old"
    /\ intents[i].age = "aged" => i \notin flying /\ {p \in Procs : ~At(p, "idle") /\ calls[p].id = i} = {}
    /\ intents' = [intents EXCEPT ![i].age = IF @ = "new" THEN "aged" ELSE "old"]
    /\ UNCHANGED <<forge, authored, calls, sweep, flying, told>>
PendingWriteIntents ==
    /\ sweep = Rest /\ pendingForgeWriteIntents # {}
    /\ sweep' = [pc |-> "next", todo |-> {[id |-> i, old |-> intents[i].age = "old"] : i \in pendingForgeWriteIntents}]
    /\ UNCHANGED <<intents, forge, authored, calls, flying, told>>
Swept(t) == IF sweep.todo = {t} THEN Rest ELSE [pc |-> "next", todo |-> sweep.todo \ {t}]
(* A lookup that fails leaves the intent to the next sweep.                    *)
sweepWriteIntents(t, answered) ==
    /\ sweep.pc = "next" /\ t \in sweep.todo
    /\ LET n == findWrite(t.id) IN
        sweep' = IF answered /\ (n # 0 \/ t.old) THEN [pc |-> "end", todo |-> sweep.todo, at |-> t, number |-> n] ELSE Swept(t)
    /\ UNCHANGED <<intents, forge, authored, calls, flying, told>>
SweepEnds ==
    /\ sweep.pc = "end"
    /\ IF sweep.number # 0 THEN CompleteWriteIntent(sweep.at.id, sweep.number)
       ELSE EndWriteIntent(sweep.at.id, "lost") /\ UNCHANGED authored
    /\ sweep' = Swept(sweep.at)
    /\ UNCHANGED <<forge, calls, flying, told>>

-----------------------------------------------------------------------------
(* The head of an intent also has a pull request someone else made, so it no   *)
(* longer says whose it is: findWrite may take it for the intent's.            *)
Contested(i) ==
    /\ intents[i].kind = "pull_request"
    /\ \E n \in ByHead(intents[i].head) : forge[n].by # 0 =>
            intents[forge[n].by].agent # intents[i].agent \/ intents[forge[n].by].key # intents[i].key
ToldFor(i) == {t \in told : t.agent = intents[i].agent /\ t.key = intents[i].key}

(* A request key never creates two objects on the forge, whatever is retried,  *)
(* lost, swept or restarted; a done intent names an object of its own kind,    *)
(* for a marked kind the one it made; every success told for a key names one   *)
(* object, and one with a number is recorded as that agent's or has a pending  *)
(* intent that will record it, unless the      *)
(* pull request's head also has one that someone else made.                    *)
WritesSound ==
    /\ \A i, j \in DOMAIN intents : \A n, m \in DOMAIN forge :
        intents[i].agent = intents[j].agent /\ intents[i].key = intents[j].key /\ forge[n].by = i /\ forge[m].by = j => n = m
    /\ \A i \in DOMAIN intents :
        /\ intents[i].state = "done" =>
            LET n == intents[i].forge_key IN
            /\ n \in DOMAIN forge /\ forge[n].kind = intents[i].kind /\ forge[n].head = intents[i].head
            /\ forge[n].by # i => Contested(i)
        /\ ~Contested(i) =>
              /\ Cardinality(ToldFor(i)) <= 1
              /\ Numbered(intents[i].kind) => \A t \in ToldFor(i) :
                    authoredArtifactByCoordinateFold(t.number) = t.agent \/ \E j \in recordForgeWriteIntent(t) : intents[j].state = "pending"

-----------------------------------------------------------------------------
(* Bounds for ForgeWrites: MaxCalls calls, MaxFaults lost answers, restarts    *)
(* and steps of time, MaxPeople acts of a person; the calls are those of one   *)
(* of the Scenarios.                                                           *)
CONSTANTS MaxCalls, MaxFaults, MaxPeople, Scenarios
VARIABLE load

WInit == FwInit /\ \E rs \in Scenarios : load = [calls |-> 0, faults |-> 0, people |-> 0, reqs |-> rs]
Call(A) == load.calls < MaxCalls /\ A /\ load' = [load EXCEPT !.calls = @ + 1]
Fault(A) == load.faults < MaxFaults /\ A /\ load' = [load EXCEPT !.faults = @ + 1]
Person(A) == load.people < MaxPeople /\ A /\ load' = [load EXCEPT !.people = @ + 1]
Run(A) == A /\ load' = load
Heads == {r.head : r \in {q \in load.reqs : q.kind = "pull_request"}}

FwNext ==
    \/ \E h \in Heads : Person(PersonOpens(h))
    \/ \E n \in DOMAIN forge : Person(PersonCloses(n)) \/ \E r \in load.reqs : Person(transitionPullRequestState(r.agent, n))
    \/ \E i \in DOMAIN intents : (\E e \in BOOLEAN : Run(Land(i, e))) \/ Run(Drop(i)) \/ Fault(Age(i))
    \/ Fault(Restart) \/ Run(PendingWriteIntents) \/ Run(SweepEnds)
    \/ \E t \in sweep.todo, b \in BOOLEAN : Run(sweepWriteIntents(t, b))
    \/ \E p \in Procs :
        \/ \E r \in load.reqs : Call(createIssue(p, r)) \/ Call(createPullRequest(p, r)) \/ Call(writeComment(p, r)) \/ Call(submitReview(p, r)) \/ Call(ensure(p, r))
        \/ Run(beginWrite(p)) \/ Run(completeFound(p)) \/ Run(forgeRefused(p)) \/ Fault(Unanswered(p)) \/ Run(failWrite(p))
        \/ Run(recordPullRequest(p)) \/ Run(completeWrite(p)) \/ Run(adopt(p)) \/ Fault(Abandon(p))
        \/ \E b \in BOOLEAN : Run(FindPrior(p, b)) \/ Run(Made(p, b))
FwSpec == WInit /\ [][FwNext]_<<wvars, load>>
=============================================================================
