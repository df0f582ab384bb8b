------------------------------ MODULE Presence ------------------------------
(* One agent's presence: the lifecycle, promotion and release edges the Hub    *)
(* queues (runnerhub/hub.go, relay_comms.go), the publisher's loop over them   *)
(* and over the ask events of the comms bus (presence/run.go, presence.go),    *)
(* and what a client sees.  Asks commit before their event is published,       *)
(* status reads time out, store reads fail and the bus drops a lagging loop.   *)
EXTENDS Naturals, Sequences

CONSTANT Nil

VARIABLES
    agent,    \* the session: the agent's own state, the host's of its process, frames in transit
    hub,      \* whether the session is bound, and the edges a start, a release and a frame still owe
    asks,     \* open asks, and changes committed and not yet on the bus
    queue,    \* Publisher.queue
    bus,      \* ask events the publisher's subscription holds
    pub,      \* Publisher.last, lastState and notify, and what the loop is doing
    view      \* what clients saw last, an activity being published, excuses, a state masked by a promotion
pvars == <<agent, hub, asks, queue, bus, pub, view>>

Live == {"READY", "WORKING"}
Offline == "OFFLINE"
Idle == [op |-> "idle"]

PrInit ==
    /\ agent = [st |-> Nil, host |-> Nil, frames |-> <<>>]
    /\ hub = [bound |-> FALSE, owes |-> Nil, drop |-> Nil, frame |-> Nil]
    /\ asks = [open |-> 0, unpublished |-> 0]
    /\ queue = <<>>
    /\ bus = 0
    /\ pub = [last |-> Nil, state |-> Nil, loop |-> Idle, notify |-> FALSE, drains |-> FALSE]
    /\ view = [seen |-> Nil, activity |-> Nil, excused |-> FALSE, masked |-> FALSE]

(* An open ask overrides IDLE, never WORKING; no live state is OFFLINE. *)
presenceFor(st, openAsk) ==
    CASE st = "WORKING" -> "WORKING"
      [] st = "READY" /\ openAsk -> "WAITING"
      [] st = "READY" /\ ~openAsk -> "IDLE"
      [] OTHER -> Offline
AgentHasOpenAsk == asks.open > 0

(* Append under the lock, then wake the loop without blocking. *)
enqueue(kind, st) ==
    /\ queue' = Append(queue, [kind |-> kind, st |-> st])
    /\ pub' = [pub EXCEPT !.notify = TRUE]

-----------------------------------------------------------------------------
(* The session and the Hub's edges.                                            *)

(* The binding's own races are SessionBindings'; a frame of the process before *)
(* that outlives the restart is excused.                                       *)
Start ==
    /\ agent.st \notin Live /\ ~hub.bound /\ hub.owes = Nil /\ hub.drop = Nil
    /\ agent' = [agent EXCEPT !.st = "READY", !.host = "READY"]
    /\ hub' = [hub EXCEPT !.owes = "promote"]
    /\ view' = [view EXCEPT !.excused = @ \/ agent.frames # <<>> \/ hub.frame # Nil]
    /\ UNCHANGED <<asks, queue, bus, pub>>

(* promoteSession records the binding, and then reports the promotion. *)
promoteSession ==
    /\ hub.owes = "promote"
    /\ hub' = [hub EXCEPT !.bound = TRUE, !.owes = "promoted"]
    /\ UNCHANGED <<agent, asks, queue, bus, pub, view>>
OnSessionPromoted ==
    /\ hub.owes = "promoted"
    /\ hub' = [hub EXCEPT !.owes = Nil]
    /\ enqueue("promoted", Nil)
    /\ UNCHANGED <<agent, asks, bus, view>>

(* The agent turns, or a turn of it fails; its process lives on. *)
Transition(st) ==
    /\ agent.st \in Live \ {st}
    /\ agent' = [agent EXCEPT !.st = st, !.frames = Append(@, st)]
    /\ UNCHANGED <<hub, asks, queue, bus, pub, view>>
(* Its process ends: the host marks the session and reports ERRORED. *)
markErrored ==
    /\ agent.host = "READY"
    /\ agent' = [st |-> "ERRORED", host |-> "ERRORED", frames |-> Append(agent.frames, "ERRORED")]
    /\ UNCHANGED <<hub, asks, queue, bus, pub, view>>

(* deliverSession resolves the binding first and reports the edge last. *)
frameSession ==
    /\ agent.frames # <<>> /\ hub.frame = Nil
    /\ agent' = [agent EXCEPT !.frames = Tail(@)]
    /\ hub' = IF hub.bound THEN [hub EXCEPT !.frame = Head(agent.frames)] ELSE hub
    /\ UNCHANGED <<asks, queue, bus, pub, view>>
(* A release between the two is excused: its OFFLINE edge is overtaken.  An    *)
(* ERRORED session is lost, and dropped by a goroutine of its own.             *)
OnSessionLifecycle ==
    /\ hub.frame # Nil
    /\ enqueue("lifecycle", hub.frame)
    /\ hub' = [hub EXCEPT !.frame = Nil, !.drop = IF hub.frame = "ERRORED" /\ hub.bound /\ @ = Nil THEN "release" ELSE @]
    /\ view' = [view EXCEPT !.excused = @ \/ ~hub.bound]
    /\ UNCHANGED <<agent, asks, bus>>

Stop ==
    /\ agent.st # Nil /\ hub.bound /\ hub.owes = Nil /\ hub.drop = Nil
    /\ agent' = [agent EXCEPT !.st = Nil, !.host = Nil]
    /\ hub' = [hub EXCEPT !.drop = "release"]
    /\ UNCHANGED <<asks, queue, bus, pub, view>>
(* releaseSession unbinds, and reports DISCONNECTED outside the lock; a        *)
(* promotion reported after it is the race the code accepts (RIG-1651).        *)
releaseSession ==
    /\ hub.drop = "release"
    /\ hub' = [hub EXCEPT !.bound = FALSE, !.drop = "released"]
    /\ view' = [view EXCEPT !.excused = @ \/ hub.owes = "promoted"]
    /\ UNCHANGED <<agent, asks, queue, bus, pub>>
DisconnectedEdge ==
    /\ hub.drop = "released"
    /\ hub' = [hub EXCEPT !.drop = Nil]
    /\ enqueue("lifecycle", "DISCONNECTED")
    /\ UNCHANGED <<agent, asks, bus, view>>
(* A new Runner process holds no session: enroll clears the binding and owes   *)
(* its account the same edge.                                                  *)
enroll ==
    /\ hub.bound /\ hub.owes = Nil /\ hub.drop = Nil
    /\ agent' = [st |-> Nil, host |-> Nil, frames |-> <<>>]
    /\ hub' = [hub EXCEPT !.bound = FALSE, !.drop = "released"]
    /\ UNCHANGED <<asks, queue, bus, pub, view>>

-----------------------------------------------------------------------------
(* Asks: committed first, published after.                                     *)

OpenAsk == /\ asks' = [open |-> asks.open + 1, unpublished |-> asks.unpublished + 1]
           /\ UNCHANGED <<agent, hub, queue, bus, pub, view>>
AnswerAsk == /\ asks.open > 0
             /\ asks' = [open |-> asks.open - 1, unpublished |-> asks.unpublished + 1]
             /\ UNCHANGED <<agent, hub, queue, bus, pub, view>>
PublishAsk == /\ asks.unpublished > 0
              /\ asks' = [asks EXCEPT !.unpublished = @ - 1]
              /\ bus' = bus + 1
              /\ UNCHANGED <<agent, hub, queue, pub, view>>
(* A lagging loop is dropped; it subscribes again and skips what it missed. *)
Lagged == /\ bus > 0
          /\ bus' = 0
          /\ view' = [view EXCEPT !.excused = TRUE]
          /\ UNCHANGED <<agent, hub, asks, queue, pub>>

-----------------------------------------------------------------------------
(* Publisher.Run: one goroutine, which takes an event, or a wakeup and then    *)
(* every queued edge.  Publishes(st) is how each of them ends: the open asks   *)
(* are read, and the presence is published if it changed.                      *)

Publishes(st) == [op |-> "publish", st |-> st, ask |-> AgentHasOpenAsk]

(* recomputeFromStore: an author with no recorded state is no agent. *)
handleEvent ==
    /\ pub.loop = Idle /\ ~pub.drains /\ bus > 0
    /\ bus' = bus - 1
    /\ pub' = IF pub.state = Nil THEN pub ELSE [pub EXCEPT !.loop = Publishes(pub.state)]
    /\ UNCHANGED <<agent, hub, asks, queue, view>>

Wake ==
    /\ pub.loop = Idle /\ ~pub.drains /\ pub.notify
    /\ pub' = [pub EXCEPT !.notify = FALSE, !.drains = TRUE]
    /\ UNCHANGED <<agent, hub, asks, queue, bus, view>>
(* The next edge of the drain, if it is of this kind. *)
drainEdges(kind) ==
    /\ pub.loop = Idle /\ pub.drains /\ queue # <<>> /\ Head(queue).kind = kind
    /\ queue' = Tail(queue)
Drained_PerEdge ==
    /\ pub.loop = Idle /\ pub.drains
    /\ pub' = [pub EXCEPT !.drains = FALSE]
    /\ UNCHANGED <<agent, hub, asks, queue, bus, view>>
Drained ==
    /\ pub.loop = Idle /\ pub.drains /\ queue = <<>>
    /\ pub' = [pub EXCEPT !.drains = FALSE]
    /\ UNCHANGED <<agent, hub, asks, queue, bus, view>>

applyLifecycle ==
    /\ drainEdges("lifecycle")
    /\ pub' = [pub EXCEPT !.state = Head(queue).st, !.loop = Publishes(Head(queue).st)]
    /\ view' = [view EXCEPT !.masked = FALSE]
    /\ UNCHANGED <<agent, hub, asks, bus>>

SessionState_Cached ==
    /\ drainEdges("promoted")
    /\ pub' = [pub EXCEPT !.loop = [op |-> "promoted", st |-> IF pub.state = Nil THEN "READY" ELSE pub.state]]
    /\ UNCHANGED <<agent, hub, asks, bus, view>>
(* applyPromoted asks the Runner, whose host knows READY and ERRORED only: a   *)
(* state of the agent's own is masked until the next lifecycle edge.           *)
SessionState ==
    /\ drainEdges("promoted")
    /\ pub' = [pub EXCEPT !.loop = [op |-> "promoted", st |-> IF agent.host = Nil THEN "UNSPECIFIED" ELSE agent.host]]
    /\ view' = [view EXCEPT !.masked = agent.st # agent.host]
    /\ UNCHANGED <<agent, hub, asks, bus>>
(* presenceStatusTimeout: unknown, hence OFFLINE until the next edge. *)
StatusTimesOut ==
    /\ pub.loop.op = "promoted"
    /\ pub' = [pub EXCEPT !.loop.st = "UNSPECIFIED"]
    /\ view' = [view EXCEPT !.excused = TRUE]
    /\ UNCHANGED <<agent, hub, asks, queue, bus>>
applyPromoted ==
    /\ pub.loop.op = "promoted"
    /\ pub' = [pub EXCEPT !.state = pub.loop.st, !.loop = Publishes(pub.loop.st)]
    /\ UNCHANGED <<agent, hub, asks, queue, bus, view>>
(* A failed AgentHasOpenAsk drops the edge or event it was read for. *)
StoreFails ==
    /\ \/ drainEdges("lifecycle") /\ UNCHANGED <<pub, bus>>
       \/ pub.loop.op = "promoted" /\ pub' = [pub EXCEPT !.loop = Idle] /\ UNCHANGED <<queue, bus>>
       \/ pub.loop = Idle /\ ~pub.drains /\ bus > 0 /\ bus' = bus - 1 /\ UNCHANGED <<pub, queue>>
    /\ view' = [view EXCEPT !.excused = TRUE]
    /\ UNCHANGED <<agent, hub, asks>>

(* last is set under the lock, and published after it. *)
publishIfChanged ==
    LET p == presenceFor(pub.loop.st, pub.loop.ask) IN
    /\ pub.loop.op = "publish"
    /\ pub' = [pub EXCEPT !.last = p, !.loop = IF pub.last = p THEN Idle ELSE [op |-> "fanOut", p |-> p]]
    /\ UNCHANGED <<agent, hub, asks, queue, bus, view>>
FanOut ==
    /\ pub.loop.op = "fanOut"
    /\ view' = [view EXCEPT !.seen = pub.loop.p, !.excused = @ \/ view.activity # Nil]
    /\ pub' = [pub EXCEPT !.loop = Idle]
    /\ UNCHANGED <<agent, hub, asks, queue, bus>>

(* PublishActivity reads last under the lock, and publishes it after: a change *)
(* published in between is excused.                                            *)
PublishActivity ==
    /\ view.activity = Nil
    /\ view' = [view EXCEPT !.activity = IF pub.last = Nil THEN Offline ELSE pub.last]
    /\ UNCHANGED <<agent, hub, asks, queue, bus, pub>>
ActivityOut ==
    /\ view.activity # Nil
    /\ view' = [view EXCEPT !.seen = view.activity, !.activity = Nil]
    /\ UNCHANGED <<agent, hub, asks, queue, bus, pub>>

-----------------------------------------------------------------------------
Quiet ==
    /\ agent.frames = <<>> /\ hub.owes = Nil /\ hub.drop = Nil /\ hub.frame = Nil
    /\ asks.unpublished = 0 /\ queue = <<>> /\ bus = 0 /\ pub.loop = Idle /\ view.activity = Nil
(* Once the edges and ask events are worked off, the published presence is     *)
(* what the session's state and the open asks say, whatever order the edges,   *)
(* the status reads, the ask commits and their events came in; and it is what  *)
(* clients saw last.  After a promotion's read it is the host's word for that  *)
(* state, IDLE or WAITING for an agent whose WORKING edge came first, until    *)
(* the next edge.  Excused are a status timeout, a failed store read, a        *)
(* lagging bus, an edge and a session's release that overtook each other, and  *)
(* an activity published around a change.                                      *)
PresenceCurrent ==
    Quiet /\ ~view.excused /\ pub.last # Nil =>
        /\ pub.last = presenceFor(IF ~hub.bound THEN Nil ELSE IF view.masked THEN agent.host ELSE agent.st, AgentHasOpenAsk)
        /\ view.seen = pub.last
(* And no queued edge waits for a wakeup that has been used up. *)
NoEdgeStranded == queue # <<>> => pub.notify \/ pub.drains
(* Presence is current once its sources are quiet, and no edge lacks a wakeup. *)
PresenceSound == PresenceCurrent /\ NoEdgeStranded

-----------------------------------------------------------------------------
(* Bounds for Presence: MaxSteps transitions, asks, starts, stops and faults.  *)
CONSTANT MaxSteps
VARIABLE load

PInit == PrInit /\ load = 0
Call(A) == load < MaxSteps /\ A /\ load' = load + 1
Run(A) == A /\ load' = load

PrNext ==
    \/ Call(Start) \/ Call(Stop) \/ Call(enroll) \/ Call(OpenAsk) \/ Call(AnswerAsk) \/ Call(Lagged) \/ Call(StatusTimesOut) \/ Call(StoreFails)
    \/ Call(PublishActivity) \/ \E st \in Live \union {"ERRORED"} : Call(Transition(st))
    \/ Call(markErrored)
    \/ Run(promoteSession) \/ Run(OnSessionPromoted) \/ Run(frameSession) \/ Run(OnSessionLifecycle) \/ Run(releaseSession)
    \/ Run(DisconnectedEdge) \/ Run(PublishAsk) \/ Run(handleEvent) \/ Run(Wake) \/ Run(Drained) \/ Run(applyLifecycle) \/ Run(SessionState) \/ Run(applyPromoted)
    \/ Run(publishIfChanged) \/ Run(FanOut) \/ Run(ActivityOut)
PrSpec == PInit /\ [][PrNext]_<<pvars, load>>
=============================================================================
