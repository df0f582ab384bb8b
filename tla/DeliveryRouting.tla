-------------------------- MODULE DeliveryRouting --------------------------
(* The delivery consumer (go/internal/delivery): how a committed message       *)
(* reaches the agents of its channel.  Fabric callbacks, the consumer's loop   *)
(* with its settle, start, lost, rewake and recovery drains, the wake path of  *)
(* go/server/lifecycle.go, and the Runner whose stream carries every dispatch. *)
(*                                                                             *)
(* Membership is fixed (DeliveryCursor changes it), and held stands for the    *)
(* posts of live authors (SettleHold says when each is fired).                 *)
EXTENDS Integers, FiniteSets

CONSTANTS
    Msgs,
    Agents,
    Mentioned,   \* [Msgs -> the agents of its channel a message mentions]
    Swept,       \* [Msgs -> the sweep set of its channel, author excluded]
    Asker,       \* [Msgs -> the agent whose ask it answers, if any, as a set]
    Nil,
    MaxFaults    \* bound on crashes, disconnects, lost publishes and sessions, failed reads

VARIABLES
    db,     \* durable: posted, routed, owed rows, acked; and the fabric's queue
    con,    \* the consumer's memory
    task,   \* [Workers -> the routing pass under way, or Nil]
    hub,    \* attached stream, live bindings, ops the sessions have not acked
    faults,
    steered,  \* history: <<a, m>> steered to a session that was live when routed
    dropped,  \* history: <<a, m>> whose routing met a fault that was swallowed
    excused   \* history: agents whose wake failed, whose session was stopped or
              \* whose owed rows could not be read, since their last owed sweep
history == <<steered, dropped, excused>>
routing == <<db, con, task, hub, faults, history>>

Workers == {"callback", "loop"}

NewConsumer(scanning) ==
    [up |-> TRUE, subscribed |-> FALSE, scanning |-> scanning, at |-> "select", notify |-> FALSE,
     held |-> {}, stranded |-> {}, settles |-> {}, starts |-> {}, lost |-> {}, rewake |-> FALSE, recovery |-> FALSE,
     waking |-> {}, strikes |-> {}, pending |-> {}]
NoTasks == [w \in Workers |-> Nil]

Init ==
    /\ db = [posted |-> {}, queued |-> {}, routed |-> {}, owed |-> {}, acked |-> {}]
    /\ con = NewConsumer({})
    /\ task = NoTasks
    /\ hub = [attached |-> TRUE, live |-> {}, inbox |-> {}]
    /\ faults = 0 /\ steered = {} /\ dropped = {} /\ excused = {}

Faults(n) == faults + n <= MaxFaults /\ faults' = faults + n
Fault == Faults(1)

-----------------------------------------------------------------------------
(* A commit, and the publish after it, which may fail.                         *)
Post(m) ==
    /\ m \notin db.posted
    /\ \/ db' = [db EXCEPT !.posted = @ \union {m}, !.queued = @ \union {m}] /\ UNCHANGED faults
       \/ db' = [db EXCEPT !.posted = @ \union {m}] /\ Fault
    /\ UNCHANGED <<con, task, hub, history>>

-----------------------------------------------------------------------------
(* The hub.  DispatchControl is a push on the attached stream; what it queues  *)
(* stays with the session until acked.  Without a stream it is refused.        *)
Dispatched(h, ops) ==
    IF h.attached THEN [h EXCEPT !.inbox = @ \union {x \in ops : x[1] \in h.live}] ELSE h

Ack(a, m) ==
    /\ <<a, m>> \in hub.inbox /\ hub.attached
    /\ hub' = [hub EXCEPT !.inbox = @ \ {<<a, m>>}]
    /\ db' = [db EXCEPT !.acked = @ \union {<<a, m>>}, !.owed = @ \ {<<a, m>>}]
    /\ UNCHANGED <<con, task, faults, history>>

Ended(h, a) == [h EXCEPT !.live = @ \ {a}, !.inbox = {x \in @ : x[1] # a}]

(* A session that ends on its own is reported lost, errored or not; one that   *)
(* is stopped is not.                                                          *)
SessionLost(a, kind) ==
    /\ a \in hub.live /\ hub.attached /\ kind \in {"gone", "errored"} /\ Fault
    /\ hub' = Ended(hub, a)
    /\ con' = [con EXCEPT !.lost = @ \union {<<a, kind>>}, !.notify = TRUE]
    /\ UNCHANGED <<db, task, history>>

(* A user starts a session of the agent.                                       *)
SessionStarted(a) ==
    /\ a \notin hub.live /\ hub.attached /\ con.up
    /\ hub' = [hub EXCEPT !.live = @ \union {a}]
    /\ con' = [con EXCEPT !.starts = @ \union {a}, !.notify = TRUE]
    /\ UNCHANGED <<db, task, faults, history>>

SessionStopped(a) ==
    /\ a \in hub.live /\ hub.attached /\ Fault
    /\ hub' = Ended(hub, a)
    /\ excused' = excused \union {a}
    /\ UNCHANGED <<db, con, task, steered, dropped>>

(* The stream breaks; the bindings stay until the Runner, restarted without    *)
(* its sessions, enrolls and attaches.  Held posts of bound authors are reaped. *)
Disconnect ==
    /\ hub.attached /\ Fault
    /\ hub' = [hub EXCEPT !.attached = FALSE]
    /\ UNCHANGED <<db, con, task, history>>

Attach ==
    /\ ~hub.attached /\ con.up
    /\ hub' = [attached |-> TRUE, live |-> {}, inbox |-> {}]
    /\ con' = [con EXCEPT !.held = @ \cap con.stranded, !.rewake = TRUE, !.notify = TRUE]
    /\ UNCHANGED <<db, task, faults, history>>

(* WakeAgent: nothing to do for a live agent; otherwise a resume, which needs  *)
(* the stream and may fail.  promoteSession binds and queues the start sweep.  *)
Wake(a) ==
    \/ (a \in hub.live \/ ~hub.attached) /\ UNCHANGED <<hub, faults, excused>>
    \/ /\ a \notin hub.live /\ hub.attached
       /\ hub' = [hub EXCEPT !.live = @ \union {a}]
       /\ UNCHANGED <<faults, excused>>
    \/ /\ a \notin hub.live /\ hub.attached /\ Fault
       /\ excused' = excused \union {a}
       /\ UNCHANGED hub
Woken(c) ==
    IF hub'.live = hub.live THEN c
    ELSE [c EXCEPT !.starts = @ \union (hub'.live \ hub.live), !.notify = TRUE]

-----------------------------------------------------------------------------
(* One routing pass over a message: fanOut from a callback or a settle edge,   *)
(* or the recovery scan's pass, which does not deliver to subscribers.         *)
Pass(m, fan) ==
    [msg |-> m, fan |-> fan, step |-> IF Mentioned[m] = {} THEN "mentions" ELSE "resolve",
     mentions |-> Mentioned[m], agent |-> Nil,
     asks |-> Asker[m] \ Swept[m],
     subs |-> IF fan THEN Swept[m] \ Mentioned[m] ELSE {}]

At(w, step) == task[w] # Nil /\ task[w].step = step
Go(w, step) == task' = [task EXCEPT ![w].step = step]
Op(w) == <<task[w].agent, task[w].msg>>

(* resolveMentioned: when a read fails, every mention of the message is        *)
(* dropped, and the pass goes on to mark it.                                   *)
ResolveMentioned(w) ==
    /\ At(w, "resolve")
    /\ \/ Go(w, "mentions") /\ UNCHANGED <<faults, dropped>>
       \/ LET m == task[w].msg IN
          /\ Fault /\ dropped' = dropped \union (Mentioned[m] \X {m})
          /\ task' = [task EXCEPT ![w] = [@ EXCEPT !.step = "mentions", !.mentions = {},
                                                  !.subs = IF task[w].fan THEN Swept[m] ELSE {}]]
    /\ UNCHANGED <<db, con, hub, steered, excused>>

(* routeMentionsFor: a live agent is steered; for another, outside the sweep   *)
(* set, a row is recorded first, then liveness is checked again, then it is    *)
(* woken.                                                                      *)
RouteMention(w, a) ==
    /\ At(w, "mentions") /\ a \in task[w].mentions
    /\ LET left == [task[w] EXCEPT !.mentions = @ \ {a}, !.agent = a] IN
         IF a \in hub.live
         THEN /\ hub' = Dispatched(hub, {<<a, left.msg>>})
              /\ steered' = steered \union {<<a, left.msg>>}
              /\ task' = [task EXCEPT ![w] = left]
         ELSE /\ task' = [task EXCEPT ![w] = [left EXCEPT !.step = IF a \in Swept[left.msg] THEN "wake" ELSE "record"]]
              /\ UNCHANGED <<hub, steered>>
    /\ UNCHANGED <<db, con, faults, dropped, excused>>

(* The sweep-set read or the insert may fail: then no row, and the wake all    *)
(* the same.                                                                   *)
Record(w) ==
    /\ At(w, "record")
    /\ \/ /\ db' = [db EXCEPT !.owed = @ \union {Op(w)}]
          /\ Go(w, "recheck")
          /\ UNCHANGED <<faults, dropped>>
       \/ /\ Fault /\ dropped' = dropped \union {Op(w)}
          /\ Go(w, "wake")
          /\ UNCHANGED db
    /\ UNCHANGED <<con, hub, steered, excused>>

Recheck(w) ==
    /\ At(w, "recheck")
    /\ hub' = Dispatched(hub, {Op(w)})
    /\ Go(w, "wake")
    /\ UNCHANGED <<db, con, faults, history>>

WakeMentioned(w) ==
    /\ At(w, "wake") /\ Wake(task[w].agent)
    /\ con' = Woken(con)
    /\ Go(w, "mentions")
    /\ UNCHANGED <<db, steered, dropped>>

(* routeAskAnswerFor: the row first, then a steer if the asker is live; when   *)
(* the sweep-set read or the insert fails, neither.                            *)
AskRecord(w) ==
    /\ At(w, "mentions") /\ task[w].mentions = {} /\ task[w].asks # {}
    /\ \E a \in task[w].asks :
         LET left == [task[w] EXCEPT !.asks = @ \ {a}, !.agent = a] IN
         \/ /\ db' = [db EXCEPT !.owed = @ \union {<<a, task[w].msg>>}]
            /\ task' = [task EXCEPT ![w] = [left EXCEPT !.step = "askSteer"]]
            /\ UNCHANGED <<faults, dropped>>
         \/ /\ Fault /\ dropped' = dropped \union {<<a, task[w].msg>>}
            /\ task' = [task EXCEPT ![w] = left]
            /\ UNCHANGED db
    /\ UNCHANGED <<con, hub, steered, excused>>

AskSteer(w) ==
    /\ At(w, "askSteer")
    /\ hub' = Dispatched(hub, {Op(w)})
    /\ Go(w, "mentions")
    /\ UNCHANGED <<db, con, faults, history>>

(* MarkMentionsRouted; a scan leaves a message that was held meanwhile alone.  *)
Mark_Early(w) ==
    /\ At(w, "mentions")
    /\ db' = [db EXCEPT !.routed = @ \union {task[w].msg}]
    /\ Go(w, "fan")
    /\ UNCHANGED <<con, hub, faults, history>>
Mark(w) ==
    /\ At(w, "mentions") /\ task[w].mentions = {} /\ task[w].asks = {}
    /\ \/ UNCHANGED faults
          /\ db' = IF ~task[w].fan /\ task[w].msg \in con.held THEN db
                   ELSE [db EXCEPT !.routed = @ \union {task[w].msg}]
       \/ Fault /\ UNCHANGED db
    /\ Go(w, IF task[w].subs = {} THEN "fan" ELSE "subscribers")
    /\ UNCHANGED <<con, hub, history>>

(* SubscribedAgents: when the read fails the pass ends here.                   *)
SubscribedAgents(w) ==
    /\ At(w, "subscribers")
    /\ \/ Go(w, "fan") /\ UNCHANGED faults
       \/ Fault /\ task' = [task EXCEPT ![w] = [@ EXCEPT !.step = "fan", !.subs = {}]]
    /\ UNCHANGED <<db, con, hub, history>>

(* The subscribers not mentioned: delivered to if live, woken if not.          *)
FanOut(w, a) ==
    /\ At(w, "fan") /\ a \in task[w].subs
    /\ task' = [task EXCEPT ![w].subs = @ \ {a}]
    /\ IF a \in hub.live
       THEN hub' = Dispatched(hub, {<<a, task[w].msg>>}) /\ UNCHANGED <<con, faults, excused>>
       ELSE Wake(a) /\ con' = Woken(con)
    /\ UNCHANGED <<db, steered, dropped>>

(* The pass ends; a callback that returns nil acks its event.                  *)
Done(w) ==
    /\ At(w, "fan") /\ task[w].subs = {}
    /\ task' = [task EXCEPT ![w] = Nil]
    /\ db' = IF w = "callback" THEN [db EXCEPT !.queued = @ \ {task[w].msg}] ELSE db
    /\ UNCHANGED <<con, hub, faults, history>>

Step(w) ==
    \/ \E a \in Agents : RouteMention(w, a) \/ FanOut(w, a)
    \/ ResolveMentioned(w) \/ Record(w) \/ Recheck(w) \/ WakeMentioned(w)
    \/ AskRecord(w) \/ AskSteer(w) \/ Mark(w) \/ SubscribedAgents(w) \/ Done(w)

-----------------------------------------------------------------------------
(* The fabric callback: hold a live author's post, or route it now.  A ref     *)
(* whose reads keep failing is parked.                                         *)
Callback(m) == con.subscribed /\ task["callback"] = Nil /\ m \in db.queued

CallbackHold(m) ==
    /\ Callback(m)
    /\ con' = [con EXCEPT !.held = @ \union {m}]
    /\ db' = [db EXCEPT !.queued = @ \ {m}]
    /\ UNCHANGED <<task, hub, faults, history>>

CallbackRoute(m) ==
    /\ Callback(m)
    /\ task' = [task EXCEPT !["callback"] = Pass(m, TRUE)]
    /\ UNCHANGED <<db, con, hub, faults, history>>

Park(m) ==
    /\ Callback(m) /\ Fault
    /\ db' = [db EXCEPT !.queued = @ \ {m}]
    /\ UNCHANGED <<con, task, hub, history>>

-----------------------------------------------------------------------------
(* The loop: a wakeup runs the drains in order, each to the end of its queue.  *)
Draining(stage) == con.at = stage /\ task["loop"] = Nil /\ con.scanning = {}

LoopWake ==
    /\ con.subscribed /\ Draining("select") /\ con.notify
    /\ con' = [con EXCEPT !.notify = FALSE, !.at = "settles"]
    /\ UNCHANGED <<db, task, hub, faults, history>>

(* The author's session ends without a last frame, and the held post stays     *)
(* under it: no settle comes until the session is resumed.                     *)
Strand(m) ==
    /\ m \in con.held \ (con.settles \union con.stranded) /\ Fault
    /\ con' = [con EXCEPT !.stranded = @ \union {m}]
    /\ UNCHANGED <<db, task, hub, history>>

Resumed(m) ==
    /\ m \in con.stranded
    /\ con' = [con EXCEPT !.stranded = @ \ {m}]
    /\ UNCHANGED <<db, task, hub, faults, history>>

(* A settle edge of the author queues its held post; the drain re-reads and    *)
(* fires it.                                                                   *)
SettleEdge(m) ==
    /\ m \in con.held \ (con.settles \union con.stranded)
    /\ con' = [con EXCEPT !.settles = @ \union {m}, !.notify = TRUE]
    /\ UNCHANGED <<db, task, hub, faults, history>>

DrainSettles ==
    /\ Draining("settles")
    /\ \/ con.settles = {} /\ con' = [con EXCEPT !.at = "starts"] /\ UNCHANGED <<task, faults>>
       \/ \E m \in con.settles :
            /\ con' = [con EXCEPT !.settles = @ \ {m}, !.held = @ \ {m}]
            /\ \/ UNCHANGED faults
                  /\ task' = IF m \in con.held THEN [task EXCEPT !["loop"] = Pass(m, TRUE)] ELSE task
               \/ m \in con.held /\ Fault /\ UNCHANGED task
    /\ UNCHANGED <<db, hub, history>>

(* What the cursor sweep and the owed sweep of a session send: heldIDs leaves  *)
(* the posts of live authors alone.                                            *)
Undelivered(a) == {<<a, m>> : m \in {n \in db.posted : a \in Swept[n]}} \ db.acked
OwedTo(a) == {x \in db.owed : x[1] = a}
SweepSession(a) == {x \in Undelivered(a) : x[2] \notin con.held \ con.stranded}

(* The start sweep reads the undelivered messages, the owed rows and each owed *)
(* message.  Any of the reads may fail: nothing is sent for it, and the row of *)
(* a message that could not be read is cleared.                                *)
DrainStart(a, undelivered, owed, gone) ==
    /\ Faults(Cardinality(gone) + (IF undelivered THEN 0 ELSE 1) + (IF owed THEN 0 ELSE 1))
    /\ con' = [con EXCEPT !.starts = @ \ {a}]
    /\ db' = [db EXCEPT !.owed = @ \ gone] /\ dropped' = dropped \union gone
    /\ hub' = Dispatched(hub, (IF undelivered THEN SweepSession(a) ELSE {})
                                \union (IF owed THEN OwedTo(a) \ gone ELSE {}))
    /\ excused' = IF ~owed THEN excused \union {a}
                  ELSE IF a \in hub.live /\ hub.attached THEN excused \ {a}
                  ELSE excused

DrainStarts ==
    /\ Draining("starts")
    /\ \/ con.starts = {} /\ con' = [con EXCEPT !.at = "lost"] /\ UNCHANGED <<db, hub, faults, dropped, excused>>
       \/ \E a \in con.starts, undelivered, owed \in BOOLEAN :
            \E gone \in SUBSET (IF owed THEN OwedTo(a) ELSE {}) : DrainStart(a, undelivered, owed, gone)
    /\ UNCHANGED <<task, steered>>

HasOwedWork(a) == Undelivered(a) \union OwedTo(a) # {}

(* An errored loss wakes only with owed work, and a repeat only after a delay: *)
(* the account stays pending until the timer has queued the loss again and it  *)
(* is drained.                                                                 *)
DrainLost(a, kind) ==
    LET c == [con EXCEPT !.lost = @ \ {<<a, kind>>},
                         !.pending = IF kind = "deferred" THEN @ \ {a} ELSE @] IN
    /\ Draining("lost") /\ <<a, kind>> \in con.lost
    /\ IF kind # "gone" /\ ((kind = "errored" /\ a \in con.pending) \/ ~HasOwedWork(a))
       THEN con' = c /\ UNCHANGED <<hub, faults, excused>>
       ELSE IF kind = "errored" /\ a \in con.strikes
       THEN con' = [c EXCEPT !.pending = @ \union {a}] /\ UNCHANGED <<hub, faults, excused>>
       ELSE /\ Wake(a)
            /\ con' = Woken(IF kind = "errored" THEN [c EXCEPT !.strikes = @ \union {a}] ELSE c)
    /\ UNCHANGED <<db, task, steered, dropped>>

DrainLostEnd ==
    /\ Draining("lost") /\ con.lost = {}
    /\ con' = [con EXCEPT !.at = "rewake"]
    /\ UNCHANGED <<db, task, hub, faults, history>>

WakeTimer(a) ==
    /\ a \in con.pending /\ <<a, "deferred">> \notin con.lost
    /\ con' = [con EXCEPT !.lost = @ \union {<<a, "deferred">>}, !.notify = TRUE]
    /\ UNCHANGED <<db, task, hub, faults, history>>

(* The reset window of the backoff passes.                                     *)
StrikesExpire(a) ==
    /\ a \in con.strikes \ con.pending
    /\ con' = [con EXCEPT !.strikes = @ \ {a}]
    /\ UNCHANGED <<db, task, hub, faults, history>>

(* The flag is cleared before the owed accounts are read.                      *)
OwedMentionAccounts == {x[1] : x \in db.owed}

DrainOwedRewake_Undelivered ==
    /\ Draining("rewake")
    /\ con' = [con EXCEPT !.at = "recovery", !.rewake = FALSE,
                          !.waking = @ \union (IF con.rewake THEN {a \in Agents : Undelivered(a) # {}} ELSE {})]
    /\ UNCHANGED <<db, task, hub, faults, history>>
DrainOwedRewake ==
    LET idle == [con EXCEPT !.at = "recovery", !.rewake = FALSE] IN
    /\ Draining("rewake")
    /\ \/ /\ con' = [idle EXCEPT !.waking = @ \union (IF con.rewake THEN OwedMentionAccounts ELSE {})]
          /\ UNCHANGED <<faults, excused>>
       \/ /\ con.rewake /\ Fault
          /\ con' = idle /\ excused' = excused \union OwedMentionAccounts
    /\ UNCHANGED <<db, task, hub, steered, dropped>>

Rewake(a) ==
    /\ a \in con.waking /\ Wake(a)
    /\ con' = Woken([con EXCEPT !.waking = @ \ {a}])
    /\ UNCHANGED <<db, task, steered, dropped>>

(* The floor tick, or a fabric reconnect.                                      *)
RequestRecovery ==
    /\ con.subscribed /\ ~con.recovery
    /\ con' = [con EXCEPT !.recovery = TRUE, !.notify = TRUE]
    /\ UNCHANGED <<db, task, hub, faults, history>>

Unrouted == db.posted \ db.routed

(* Each live session's sweep and the scan's batch read may fail.               *)
Recover(sweep, scan) ==
    IF ~con.recovery THEN UNCHANGED <<hub, faults>> /\ con' = [con EXCEPT !.at = "select"]
    ELSE \E failed \in SUBSET hub.live, read \in BOOLEAN :
           /\ Faults(Cardinality(failed) + (IF read THEN 0 ELSE 1))
           /\ con' = [con EXCEPT !.at = "select", !.recovery = FALSE, !.scanning = IF read THEN scan ELSE {}]
           /\ hub' = Dispatched(hub, UNION {SweepSession(a) : a \in sweep \ failed})

DrainRecovery_NoScan ==
    /\ Draining("recovery") /\ Recover(hub.live, {})
    /\ UNCHANGED <<db, task, history>>
DrainRecovery_NoSweep ==
    /\ Draining("recovery") /\ Recover({}, Unrouted)
    /\ UNCHANGED <<db, task, history>>
DrainRecovery ==
    /\ Draining("recovery") /\ Recover(hub.live, Unrouted)
    /\ UNCHANGED <<db, task, history>>

(* scanMissedMentions: a held message is left to its settle edge, be it under  *)
(* a dead session, and one that cannot be re-read to the next scan.            *)
ScanNext(m) ==
    /\ con.up /\ task["loop"] = Nil /\ m \in con.scanning
    /\ con' = [con EXCEPT !.scanning = @ \ {m}]
    /\ \/ UNCHANGED faults
          /\ task' = IF m \in con.held THEN task ELSE [task EXCEPT !["loop"] = Pass(m, FALSE)]
       \/ m \notin con.held /\ Fault /\ UNCHANGED task
    /\ UNCHANGED <<db, hub, history>>

Subscribe ==
    /\ con.up /\ ~con.subscribed /\ task["loop"] = Nil /\ con.scanning = {}
    /\ con' = [con EXCEPT !.subscribed = TRUE]
    /\ UNCHANGED <<db, task, hub, faults, history>>

(* The Server goes down, and with it the stream and every session; on its      *)
(* restart the consumer scans before it subscribes.                            *)
Crash ==
    /\ con.up /\ Fault
    /\ con' = [NewConsumer({}) EXCEPT !.up = FALSE]
    /\ task' = NoTasks
    /\ hub' = [attached |-> FALSE, live |-> {}, inbox |-> {}]
    /\ UNCHANGED <<db, history>>

Restart ==
    /\ ~con.up
    /\ \/ con' = NewConsumer(Unrouted) /\ UNCHANGED faults
       \/ con' = NewConsumer({}) /\ Fault
    /\ UNCHANGED <<db, task, hub, history>>

-----------------------------------------------------------------------------
Loop ==
    \/ LoopWake \/ DrainSettles \/ DrainStarts \/ DrainLostEnd \/ DrainOwedRewake \/ DrainRecovery
    \/ \E a \in Agents, kind \in {"gone", "errored", "deferred"} : DrainLost(a, kind)
    \/ \E m \in Msgs : ScanNext(m)
    \/ Subscribe \/ Restart
Deliver == \E m \in Msgs : CallbackHold(m) \/ CallbackRoute(m)
Agent(a) == Rewake(a) \/ WakeTimer(a) \/ \E m \in Msgs : Ack(a, m)

Next ==
    \/ Loop \/ Deliver \/ RequestRecovery \/ Attach
    \/ \E w \in Workers : Step(w)
    \/ \E m \in Msgs : Post(m) \/ Park(m) \/ SettleEdge(m) \/ Strand(m) \/ Resumed(m)
    \/ \E a \in Agents :
         \/ Agent(a) \/ SessionStarted(a) \/ SessionStopped(a) \/ StrikesExpire(a)
         \/ \E kind \in {"gone", "errored"} : SessionLost(a, kind)
    \/ Disconnect \/ Crash

Spec == Init /\ [][Next]_routing

(* The fabric redelivers, the loop runs its drains, a pass goes on, a live     *)
(* author settles, the floor ticks, the Server and the Runner come back,       *)
(* agents ack.  Nothing resumes an author whose session ended.                 *)
Fairness ==
    /\ WF_routing(Loop \/ Step("loop")) /\ WF_routing(Deliver \/ Step("callback"))
    /\ WF_routing(RequestRecovery) /\ WF_routing(Attach)
    /\ \A m \in Msgs : WF_routing(SettleEdge(m))
    /\ \A a \in Agents : WF_routing(Agent(a))

LiveSpec == Spec /\ Fairness

-----------------------------------------------------------------------------
(* The type invariant.                                                         *)
TypeOK ==
    /\ db.queued \union db.routed \subseteq db.posted /\ db.posted \subseteq Msgs
    /\ db.owed \union db.acked \union hub.inbox \subseteq Agents \X db.posted
    /\ con.held \union con.scanning \subseteq db.posted /\ con.stranded \subseteq con.held
    /\ con.starts \union con.waking \union hub.live \subseteq Agents
    /\ \A w \in Workers : task[w] # Nil => task[w].msg \in db.posted
    /\ \A x \in hub.inbox : x[1] \in hub.live
    /\ faults \in 0..MaxFaults /\ excused \subseteq Agents

(* The marker is set last: once a message is marked, which hides it from every *)
(* recovery scan, each mentioned agent and asker outside the sweep set has an  *)
(* owed row, has acked, or was steered live.  The one way to lose it is a read *)
(* or a write of its own that failed and was swallowed; a crash, a lost        *)
(* publish or another agent's fault never is.                                  *)
MarkedIsBacked ==
    \A m \in db.routed : \A a \in (Mentioned[m] \union Asker[m]) \ Swept[m] :
       <<a, m>> \in db.owed \union db.acked \union steered \union dropped

(* The backlog of committed messages not yet routed drains: lost publishes,    *)
(* parked refs, reaped holds, failed reads and marks and crashes all fall to a *)
(* recovery scan.  A post held under a dead session waits for its author.      *)
Backlog == Unrouted \ con.stranded
EventuallyRouted == Backlog # {} ~> Backlog = {}

(* The owed row is a no-loss backstop: a mentioned agent acks its mention,     *)
(* whatever the Runner and the Server go through, unless since its last sweep  *)
(* its wake failed, it was stopped or its rows could not be read.              *)
(* A row recorded for an agent that has come live meanwhile does not wait for  *)
(* its next session.                                                           *)
OwedMentions == {x \in db.owed : x[1] \in Mentioned[x[2]] \ excused}
LiveOwed == {x \in db.owed : x[1] \in hub.live \ excused}
OwedDelivered == (OwedMentions # {} ~> OwedMentions = {}) /\ (LiveOwed # {} ~> LiveOwed = {})

(* A live subscriber gets every message of its channels: what the fan-out      *)
(* missed, the start sweep or the recovery pass sends, a dead author's held    *)
(* post included.                                                              *)
LiveBehind == UNION {Undelivered(a) : a \in hub.live}
LiveCaughtUp == LiveBehind # {} ~> LiveBehind = {}
=============================================================================
