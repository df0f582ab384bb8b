-------------------------- MODULE SessionCommands --------------------------
(* The Sessions stream between the Server and one Runner: the Server's         *)
(* commandRouter (go/internal/runnerhub/router.go), one per enrollment, the    *)
(* stream, and the Runner's dispatcher (go/internal/runner/dispatch.go), one   *)
(* per Runner process.  A Runner process enrolls once and opens one stream, so *)
(* an enrollment e stands for its router, its stream and its dispatcher.       *)
EXTENDS Integers, Sequences, Functions

CONSTANTS
    Cmds,        \* request ids of commands: a caller waits for the result
    Delivers,    \* request ids of delivers: send-only, a result is a refusal
    Signals,     \* version signals: no request id, no result
    Callers,     \* RPC goroutines of the Server
    Nil,
    QueueCap,    \* sendQueueCap
    MaxEnroll,   \* bound on enrollments
    MaxTries     \* bound on the dispatches of one caller

(* Request ids are minted with their kind, signals have none; the bounds are   *)
(* counts.                                                                     *)
ASSUME FramesApart == Cmds \intersect Delivers = {} /\ Signals \intersect (Cmds \union Delivers) = {}
ASSUME BoundsNat == QueueCap \in Nat /\ MaxEnroll \in Nat /\ MaxTries \in Nat

Ids == Cmds \union Delivers
Frames == Ids \union Signals
Enrollments == 1..MaxEnroll
NoCall == [e |-> 0, id |-> Nil, k |-> 0]

VARIABLES
    cur,      \* the current enrollment (h.runner), 0 before the first
    rt,       \* [Enrollments -> router]: attached, queue, calls, in-flight ids, refusals
    link,     \* [Enrollments -> stream]: broken, frames down, results up
    dsp,      \* [Enrollments -> dispatcher]: goroutines, handled, results, executions
    caller,   \* [Callers -> [pc, call, tries]]
    sentOps   \* history: the delivers the router queued
vars == <<cur, rt, link, dsp, caller, sentOps>>

(* A router before its stream attaches; calls[id] is every pendingCall ever    *)
(* made for id, inflight the ids whose last call is registered.                *)
NewRouter ==
    [att |-> "new", sending |-> FALSE, queue |-> <<>>, inflight |-> {},
     calls |-> [id \in Cmds |-> <<>>], refusals |-> {}, refused |-> {}]
NewLink == [broken |-> FALSE, down |-> <<>>, up |-> <<>>]
NewDispatcher ==
    [spawned |-> [id \in Ids |-> 0], handled |-> [id \in Ids |-> "no"],
     execs |-> [id \in Ids |-> 0]]

Init ==
    /\ cur = 0
    /\ rt = [e \in Enrollments |-> NewRouter]
    /\ link = [e \in Enrollments |-> NewLink]
    /\ dsp = [e \in Enrollments |-> NewDispatcher]
    /\ caller = [c \in Callers |-> [pc |-> "idle", call |-> NoCall, tries |-> 0]]
    /\ sentOps = {}

-----------------------------------------------------------------------------
(* Enroll replaces the router; the stream attaches afterwards.                 *)
Enroll ==
    /\ cur < MaxEnroll
    /\ cur' = cur + 1
    /\ UNCHANGED <<rt, link, dsp, caller, sentOps>>

Attach ==
    /\ cur > 0 /\ rt[cur].att = "new"
    /\ rt' = [rt EXCEPT ![cur].att = "live", ![cur].sending = TRUE]
    /\ UNCHANGED <<cur, link, dsp, caller, sentOps>>

(* What closing a pendingCall does: the waiters of its last call wake.         *)
Closed(r, id, outcome) ==
    [r EXCEPT !.inflight = @ \ {id},
              !.calls[id][Len(r.calls[id])] = outcome]

(* What detach does to a router: every open call fails.                        *)
Detached(r) ==
    [r EXCEPT !.att = "gone", !.inflight = {},
              !.calls = [id \in Cmds |-> [k \in DOMAIN r.calls[id] |->
                   IF r.calls[id][k] = "open" THEN "failed" ELSE r.calls[id][k]]]]

(* The handler's Receive fails: detach fails every in-flight call.  The sender *)
(* still drains the closed queue.                                              *)
Detach_KeepsCalls(e) ==
    /\ rt[e].att = "live" /\ link[e].broken
    /\ rt' = [rt EXCEPT ![e].att = "gone"]
    /\ UNCHANGED <<cur, link, dsp, caller, sentOps>>
Detach(e) ==
    /\ rt[e].att = "live" /\ link[e].broken
    /\ rt' = [rt EXCEPT ![e] = Detached(@)]
    /\ UNCHANGED <<cur, link, dsp, caller, sentOps>>

-----------------------------------------------------------------------------
(* The callers.  dispatch joins an in-flight id, fails without a sender or     *)
(* with a full queue, and otherwise registers the call and queues the command. *)
Full(e) == Len(rt[e].queue) >= QueueCap

Waiting(c, e, id, k) ==
    caller' = [caller EXCEPT ![c] =
       [pc |-> "wait", call |-> [e |-> e, id |-> id, k |-> k], tries |-> @.tries + 1]]

Joins(e, id) == id \in rt[e].inflight

DispatchJoin(c, id) ==
    /\ caller[c].pc = "idle" /\ caller[c].tries < MaxTries
    /\ cur > 0 /\ Joins(cur, id)
    /\ Waiting(c, cur, id, Len(rt[cur].calls[id]))
    /\ UNCHANGED <<cur, rt, link, dsp, sentOps>>

DispatchRefuse(c, id) ==
    /\ caller[c].pc = "idle" /\ caller[c].tries < MaxTries
    /\ cur > 0 => ~Joins(cur, id) /\ (rt[cur].att # "live" \/ Full(cur))
    /\ caller' = [caller EXCEPT ![c].tries = @ + 1]
    /\ UNCHANGED <<cur, rt, link, dsp, sentOps>>

(* A router that registers and queues a command, or queues a deliver.          *)
Registered(r, id) ==
    [r EXCEPT !.inflight = @ \union {id}, !.queue = Append(@, id), !.calls[id] = Append(@, "open")]
Tracking(r, d) == [r EXCEPT !.queue = Append(@, d), !.refusals = @ \union {d}]

Dispatch(c, id) ==
    /\ caller[c].pc = "idle" /\ caller[c].tries < MaxTries
    /\ cur > 0 /\ ~Joins(cur, id) /\ rt[cur].att = "live" /\ ~Full(cur)
    /\ rt' = [rt EXCEPT ![cur] = Registered(@, id)]
    /\ Waiting(c, cur, id, Len(rt[cur].calls[id]) + 1)
    /\ UNCHANGED <<cur, link, dsp, sentOps>>

(* waitCall: the result, or the caller's own deadline.                         *)
Outcome(c) == LET w == caller[c].call IN rt[w.e].calls[w.id][w.k]

Return(c) ==
    /\ caller[c].pc = "wait" /\ Outcome(c) # "open"
    /\ caller' = [caller EXCEPT ![c] = [@ EXCEPT !.pc = "idle", !.call = NoCall]]
    /\ UNCHANGED <<cur, rt, link, dsp, sentOps>>

TimeOut(c) ==
    /\ caller[c].pc = "wait" /\ Outcome(c) = "open"
    /\ caller' = [caller EXCEPT ![c] = [@ EXCEPT !.pc = "idle", !.call = NoCall]]
    /\ UNCHANGED <<cur, rt, link, dsp, sentOps>>

(* send1: a fresh id per deliver; a full queue leaves no trace of it.          *)
Send1(d) ==
    /\ cur > 0 /\ d \notin sentOps
    /\ rt[cur].att = "live" /\ ~Full(cur)
    /\ rt' = [rt EXCEPT ![cur] = Tracking(@, d)]
    /\ sentOps' = sentOps \union {d}
    /\ UNCHANGED <<cur, link, dsp, caller>>

(* push: dropped without a sender or with a full queue.  Bound: one copy of a  *)
(* signal in transit.                                                          *)
Push(s) ==
    /\ cur > 0 /\ rt[cur].att = "live" /\ ~Full(cur)
    /\ s \notin Range(rt[cur].queue) \union Range(link[cur].down)
    /\ rt' = [rt EXCEPT ![cur].queue = Append(@, s)]
    /\ UNCHANGED <<cur, link, dsp, caller, sentOps>>

-----------------------------------------------------------------------------
(* runSender: one frame at a time, in order; the first failed Send ends it.  A *)
(* Send on a stream that just broke may still succeed, and the frame is lost.  *)
FailFrame(r, f) ==
    IF f \in Cmds /\ f \in r.inflight THEN Closed(r, f, "failed")
    ELSE [r EXCEPT !.refusals = @ \ {f}]

SenderSend(e) ==
    LET r == [rt[e] EXCEPT !.queue = Tail(@)]
        f == Head(rt[e].queue)
    IN
    /\ rt[e].sending /\ rt[e].queue # <<>>
    /\ \/ /\ link[e].broken
          /\ rt' = [rt EXCEPT ![e] = [FailFrame(r, f) EXCEPT !.sending = FALSE]]
          /\ UNCHANGED link
       \/ /\ rt' = [rt EXCEPT ![e] = r]
          /\ link' = IF link[e].broken THEN link ELSE [link EXCEPT ![e].down = Append(@, f)]
    /\ UNCHANGED <<cur, dsp, caller, sentOps>>

(* The stream fails, or the Runner process ends: what is in transit to the     *)
(* Runner is lost; results already received may still be read.                 *)
Break(e) ==
    /\ e <= cur /\ ~link[e].broken /\ rt[e].att = "live"
    /\ link' = [link EXCEPT ![e] = [broken |-> TRUE, down |-> <<>>, up |-> @.up]]
    /\ UNCHANGED <<cur, rt, dsp, caller, sentOps>>

(* complete: a result closes its in-flight call, or is a deliver's refusal, or *)
(* names nothing and is dropped.                                               *)
Completed(r, id) ==
    IF id \in r.inflight THEN Closed(r, id, "ok")
    ELSE [r EXCEPT !.refusals = @ \ {id}, !.refused = @ \union ({id} \intersect r.refusals)]

Complete(e) ==
    /\ rt[e].att = "live" /\ link[e].up # <<>>
    /\ rt' = [rt EXCEPT ![e] = Completed(@, Head(link[e].up))]
    /\ link' = [link EXCEPT ![e].up = Tail(@)]
    /\ UNCHANGED <<cur, dsp, caller, sentOps>>

-----------------------------------------------------------------------------
(* The Runner.  Each received command gets a goroutine of its own.             *)
Receive(e) ==
    LET f == Head(link[e].down) IN
    /\ link[e].down # <<>>
    /\ link' = [link EXCEPT ![e].down = Tail(@)]
    /\ dsp' = IF f \in Ids THEN [dsp EXCEPT ![e].spawned[f] = @ + 1] ELSE dsp
    /\ UNCHANGED <<cur, rt, caller, sentOps>>

(* handle: the first goroutine of an id executes it.                           *)
First_Always(e, id) == TRUE
First(e, id) == dsp[e].handled[id] = "no"

Started(d, id) ==
    [spawned |-> [d.spawned EXCEPT ![id] = @ - 1], handled |-> [d.handled EXCEPT ![id] = "run"],
     execs |-> [d.execs EXCEPT ![id] = @ + 1]]

HandleFirst(e, id) ==
    /\ dsp[e].spawned[id] > 0 /\ First(e, id)
    /\ dsp' = [dsp EXCEPT ![e] = Started(@, id)]
    /\ UNCHANGED <<cur, rt, link, caller, sentOps>>

Reply(e, id) ==
    link' = IF link[e].broken THEN link ELSE [link EXCEPT ![e].up = Append(@, id)]

(* The execution ends: a command answers, a deliver only when it is refused.   *)
Finish(e, id) ==
    /\ dsp[e].handled[id] = "run"
    /\ \E silent \in IF id \in Delivers THEN BOOLEAN ELSE {FALSE} :
         /\ dsp' = [dsp EXCEPT ![e].handled[id] = IF silent THEN "silent" ELSE "done"]
         /\ IF silent THEN UNCHANGED link ELSE Reply(e, id)
    /\ UNCHANGED <<cur, rt, caller, sentOps>>

(* A later goroutine of a handled id waits for the recorded result and sends   *)
(* it again.                                                                   *)
HandleJoin_Silent(e, id) ==
    /\ dsp[e].spawned[id] > 0 /\ dsp[e].handled[id] \in {"done", "silent"}
    /\ dsp' = [dsp EXCEPT ![e].spawned[id] = @ - 1]
    /\ UNCHANGED <<cur, rt, link, caller, sentOps>>
HandleJoin(e, id) ==
    /\ dsp[e].spawned[id] > 0 /\ dsp[e].handled[id] \in {"done", "silent"}
    /\ dsp' = [dsp EXCEPT ![e].spawned[id] = @ - 1]
    /\ IF dsp[e].handled[id] = "done" THEN Reply(e, id) ELSE UNCHANGED link
    /\ UNCHANGED <<cur, rt, caller, sentOps>>

-----------------------------------------------------------------------------
Router(e) == SenderSend(e) \/ Complete(e) \/ Detach(e)
Runner(e) == Receive(e) \/ \E id \in Ids : HandleFirst(e, id) \/ Finish(e, id) \/ HandleJoin(e, id)

Next ==
    \/ Enroll \/ Attach
    \/ \E c \in Callers :
         \/ \E id \in Cmds : DispatchJoin(c, id) \/ DispatchRefuse(c, id) \/ Dispatch(c, id)
         \/ Return(c) \/ TimeOut(c)
    \/ \E d \in Delivers : Send1(d)
    \/ \E s \in Signals : Push(s)
    \/ \E e \in Enrollments : Router(e) \/ Runner(e) \/ Break(e)

Spec == Init /\ [][Next]_vars

(* The Server's sender and handler goroutines, the Runner's loop and its       *)
(* goroutines, and a caller whose call is closed, all run.  Nothing is assumed *)
(* of callers that dispatch or time out, of new enrollments or of the link.    *)
Fairness ==
    /\ \A c \in Callers : WF_vars(Return(c))
    /\ \A e \in Enrollments :
         /\ WF_vars(SenderSend(e)) /\ WF_vars(Complete(e)) /\ WF_vars(Detach(e))
         /\ WF_vars(Receive(e))
         /\ \A id \in Ids : /\ WF_vars(HandleFirst(e, id)) /\ WF_vars(Finish(e, id))
                            /\ WF_vars(HandleJoin(e, id))

LiveSpec == Spec /\ Fairness

-----------------------------------------------------------------------------
(* The type invariant; the outbound queue stays within sendQueueCap.           *)
Routers ==
    [att : {"new", "live", "gone"}, sending : BOOLEAN, queue : Seq(Frames),
     inflight : SUBSET Cmds, calls : [Cmds -> Seq({"open", "ok", "failed"})],
     refusals : SUBSET Delivers, refused : SUBSET Delivers]
Links == [broken : BOOLEAN, down : Seq(Frames), up : Seq(Ids)]
Dispatchers ==
    [spawned : [Ids -> Nat], handled : [Ids -> {"no", "run", "done", "silent"}],
     execs : [Ids -> Nat]]
WaitCalls == [e : Enrollments \union {0}, id : Cmds \union {Nil}, k : Nat]

TypeOK ==
    /\ cur \in 0..MaxEnroll
    /\ rt \in [Enrollments -> Routers] /\ \A e \in Enrollments : Len(rt[e].queue) <= QueueCap
    /\ link \in [Enrollments -> Links]
    /\ dsp \in [Enrollments -> Dispatchers]
    /\ caller \in [Callers -> [pc : {"idle", "wait"}, call : WaitCalls, tries : 0..MaxTries]]
    /\ sentOps \subseteq Delivers

(* dispatch, complete, detach and a failed Send close every pendingCall once:  *)
(* a call is open exactly while its id is in flight, only the newest call of   *)
(* an id can be, and only on a router whose stream is attached.  So nobody     *)
(* waits on a call that nothing will close, and no done channel closes twice.  *)
OpenIffInflight ==
    \A e \in Enrollments, id \in Cmds :
       LET calls == rt[e].calls[id] IN
       /\ \A k \in DOMAIN calls : calls[k] = "open" => k = Len(calls)
       /\ id \in rt[e].inflight <=> calls # <<>> /\ calls[Len(calls)] = "open"
       /\ id \in rt[e].inflight => rt[e].att = "live"

(* The Runner executes a request id at most once per process, however often    *)
(* callers retry it and the router pushes it (dispatch.go, handled), and a     *)
(* call that came back ok was executed: the router takes a result for the call *)
(* that is in flight now, which may not be the call that asked for it.         *)
ExecutedOnce ==
    \A e \in Enrollments :
       /\ \A id \in Ids : dsp[e].execs[id] <= 1
       /\ \A id \in Cmds : "ok" \in Range(rt[e].calls[id]) => dsp[e].execs[id] = 1

(* A refusal whose result was read is counted, never silently dropped          *)
(* (router.go, complete).                                                      *)
RefusalObserved ==
    \A e \in Enrollments, d \in Delivers :
       dsp[e].handled[d] = "done" /\ ~link[e].broken /\ d \notin Range(link[e].up)
          => d \in rt[e].refused

(* waitCall: with no deadline of its own, a caller still gets an answer: the   *)
(* Runner's result, or the failure that detach gives every call in flight.     *)
EventuallyAnswered == \A c \in Callers : caller[c].pc = "wait" ~> caller[c].pc = "idle"

(* Every call and every deliver is accounted for: open calls are the in-flight *)
(* ones, and a refusal reaches the entry made for it.                          *)
CallsAccounted == OpenIffInflight /\ RefusalObserved
=============================================================================
