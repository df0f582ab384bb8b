----------------------- MODULE DeliveryRoutingProofs -----------------------
(* TLAPS proofs about DeliveryRouting, for any messages, agents, mentions,     *)
(* sweep sets and askers, and any number of faults.                            *)
EXTENDS DeliveryRouting, TLAPS

(* The types of the rows, the consumer's memory, the hub and a routing pass.   *)
Pairs == Agents \X Msgs
Rows == [posted : SUBSET Msgs, queued : SUBSET Msgs, routed : SUBSET Msgs,
         owed : SUBSET Pairs, acked : SUBSET Pairs]
Bindings == [attached : BOOLEAN, live : SUBSET Agents, inbox : SUBSET Pairs]
Consumers ==
    [up : BOOLEAN, subscribed : BOOLEAN, scanning : SUBSET Msgs,
     at : {"select", "settles", "starts", "lost", "rewake", "recovery"}, notify : BOOLEAN,
     held : SUBSET Msgs, stranded : SUBSET Msgs, settles : SUBSET Msgs, starts : SUBSET Agents,
     lost : SUBSET (Agents \X {"gone", "errored", "deferred"}), rewake : BOOLEAN, recovery : BOOLEAN,
     waking : SUBSET Agents, strikes : SUBSET Agents, pending : SUBSET Agents]
Steps == {"resolve", "mentions", "record", "recheck", "wake", "askSteer", "subscribers", "fan"}
Passes == [msg : Msgs, fan : BOOLEAN, step : Steps, mentions : SUBSET Agents,
           agent : Agents \union {Nil}, asks : SUBSET Agents, subs : SUBSET Agents]

(* Every message has its sets of agents, and Nil is no pass.                   *)
Setting ==
    /\ Mentioned \in [Msgs -> SUBSET Agents] /\ Swept \in [Msgs -> SUBSET Agents]
    /\ Asker \in [Msgs -> SUBSET Agents] /\ Nil \notin Passes

(* With rows d, steers s and swallowed faults x, agent a needs no routing of m *)
(* any more.                                                                   *)
Backed(a, m, d, s, x) ==
    <<a, m>> \in d.owed \/ <<a, m>> \in d.acked \/ <<a, m>> \in s \/ <<a, m>> \in x \/ a \in Swept[m]

USE DEF history

(* A pass has backed whoever it has taken from its sets, but the agent whose   *)
(* row it is about to record.                                                  *)
PassOK(t, d, s, x) ==
    /\ t \in Passes
    /\ \A a \in Mentioned[t.msg] \ t.mentions :
          Backed(a, t.msg, d, s, x) \/ (t.step = "record" /\ a = t.agent)
    /\ \A a \in Asker[t.msg] \ t.asks : Backed(a, t.msg, d, s, x)
    /\ t.step \in {"record", "recheck", "wake", "askSteer"} => t.agent \in Agents

AllBacked(m, d, s, x) == \A a \in Mentioned[m] \union Asker[m] : Backed(a, m, d, s, x)

Typed ==
    /\ db \in Rows /\ hub \in Bindings /\ con \in Consumers /\ DOMAIN task = Workers
    /\ steered \subseteq Pairs /\ dropped \subseteq Pairs

RoutingInv ==
    /\ Typed
    /\ \A w \in Workers : task[w] # Nil => PassOK(task[w], db, steered, dropped)
    /\ \A m \in db.routed : AllBacked(m, db, steered, dropped)

(* What is backed stays so: a row is cleared only by an ack or by a fault, and *)
(* a steer or a swallowed fault is never forgotten.                            *)
Kept ==
    /\ \A p \in db.owed : p \in db'.owed \/ p \in db'.acked \/ p \in dropped'
    /\ db.acked \subseteq db'.acked /\ steered \subseteq steered' /\ dropped \subseteq dropped'

-----------------------------------------------------------------------------
LEMMA BackedStays ==
    ASSUME Kept, NEW a, NEW m, Backed(a, m, db, steered, dropped)
    PROVE  Backed(a, m, db', steered', dropped')
  BY DEF Kept, Backed

LEMMA Frame ==
    ASSUME RoutingInv, Typed', Kept,
           \A w \in Workers : \/ task'[w] = Nil \/ task'[w] = task[w]
                              \/ PassOK(task'[w], db', steered', dropped'),
           \A m \in db'.routed \ db.routed : AllBacked(m, db', steered', dropped')
    PROVE  RoutingInv'
  <1>1. ASSUME NEW w \in Workers, task'[w] # Nil PROVE PassOK(task'[w], db', steered', dropped')
    <2>1. CASE task'[w] = task[w]
      <3> DEFINE t == task[w]
      <3>1. PassOK(t, db, steered, dropped)
        BY <1>1, <2>1 DEF RoutingInv
      <3> HIDE DEF t
      <3>2. PassOK(t, db', steered', dropped')
        BY <3>1, BackedStays DEF PassOK
      <3> QED BY <2>1, <3>2 DEF t
    <2> QED BY <1>1, <2>1
  <1>2. ASSUME NEW m \in db'.routed PROVE AllBacked(m, db', steered', dropped')
    <2>1. CASE m \in db.routed
      BY <2>1, BackedStays DEF RoutingInv, AllBacked
    <2> QED BY <2>1
  <1> QED BY <1>1, <1>2 DEF RoutingInv

LEMMA DispatchTyped ==
    ASSUME NEW h \in Bindings, NEW ops \in SUBSET Pairs
    PROVE  Dispatched(h, ops) \in Bindings
  BY DEF Dispatched, Bindings

LEMMA WakeTyped ==
    ASSUME hub \in Bindings, NEW a \in Agents, Wake(a)
    PROVE  /\ hub' \in Bindings
           /\ \A c \in Consumers : Woken(c) \in Consumers
  <1>1. hub' \in Bindings
    BY DEF Wake, Bindings
  <1>2. hub'.live \subseteq Agents
    BY <1>1 DEF Bindings
  <1>3. ASSUME NEW c \in Consumers PROVE Woken(c) \in Consumers
    <2>1. c.starts \union (hub'.live \ hub.live) \in SUBSET Agents
      BY <1>2 DEF Consumers
    <2>2. ASSUME NEW S \in SUBSET Agents PROVE [c EXCEPT !.starts = S, !.notify = TRUE] \in Consumers
      BY DEF Consumers
    <2> QED BY <2>1, <2>2, Zenon DEF Woken
  <1> QED BY <1>1, <1>3

LEMMA PassBegins ==
    ASSUME Setting, NEW m \in Msgs, NEW fan \in BOOLEAN, NEW d, NEW s, NEW x
    PROVE  PassOK(Pass(m, fan), d, s, x)
  <1>1. Pass(m, fan) \in Passes
    BY DEF Pass, Passes, Steps, Setting
  <1>2. /\ Pass(m, fan).msg = m /\ Pass(m, fan).mentions = Mentioned[m]
        /\ Pass(m, fan).asks = Asker[m] \ Swept[m] /\ Pass(m, fan).step \in {"resolve", "mentions"}
    BY DEF Pass
  <1> QED BY <1>1, <1>2 DEF PassOK, Backed

LEMMA InitInv == ASSUME Setting, Init PROVE RoutingInv
  <1>1. db \in Rows /\ hub \in Bindings /\ con \in Consumers
    BY DEF Init, Rows, Bindings, Consumers, NewConsumer
  <1> QED BY <1>1 DEF Init, RoutingInv, Typed, NoTasks

-----------------------------------------------------------------------------
(* A step of the hub or of the consumer's queues touches no row and no pass.   *)
LEMMA MemoryStep ==
    ASSUME RoutingInv, con' \in Consumers, hub' \in Bindings, UNCHANGED <<db, task, steered, dropped>>
    PROVE  RoutingInv'
  <1>1. Typed' /\ Kept
    BY DEF RoutingInv, Typed, Kept
  <1> QED BY <1>1, Frame

LEMMA HubSteps ==
    ASSUME RoutingInv, NEW a \in Agents,
           \/ SessionStarted(a) \/ SessionStopped(a)
           \/ \E kind \in {"gone", "errored"} : SessionLost(a, kind)
    PROVE  RoutingInv'
  <1>1. hub \in Bindings /\ con \in Consumers
    BY DEF RoutingInv, Typed
  <1>2. Ended(hub, a) \in Bindings
    BY <1>1 DEF Ended, Bindings
  <1>3. CASE SessionStarted(a)
    <2>1. con' \in Consumers
      BY <1>1, <1>3 DEF SessionStarted, Consumers
    <2>2. hub' \in Bindings
      BY <1>1, <1>3 DEF SessionStarted, Bindings
    <2> QED BY <1>1, <1>3, <2>1, <2>2, MemoryStep DEF SessionStarted
  <1>4. CASE SessionStopped(a)
    BY <1>1, <1>2, <1>4, MemoryStep DEF SessionStopped
  <1>5. ASSUME NEW kind \in {"gone", "errored"}, SessionLost(a, kind) PROVE RoutingInv'
    <2>1. <<a, kind>> \in Agents \X {"gone", "errored", "deferred"}
      OBVIOUS
    <2>2. con' \in Consumers
      BY <1>1, <1>5, <2>1 DEF SessionLost, Consumers
    <2> QED BY <1>1, <1>2, <1>5, <2>2, MemoryStep DEF SessionLost
  <1> QED BY <1>3, <1>4, <1>5

(* What the sweeps send are pairs of an agent and a committed message.         *)
LEMMA SweptPairs ==
    ASSUME Typed, NEW a \in Agents
    PROVE  Undelivered(a) \subseteq Pairs /\ SweepSession(a) \subseteq Pairs /\ OwedTo(a) \subseteq Pairs
  <1>1. db.posted \subseteq Msgs /\ db.owed \subseteq Pairs
    BY DEF Typed, Rows
  <1> QED BY <1>1 DEF Undelivered, SweepSession, OwedTo, Pairs

LEMMA QueueSteps ==
    ASSUME RoutingInv,
           \/ LoopWake \/ DrainLostEnd \/ DrainOwedRewake \/ DrainRecovery
           \/ RequestRecovery \/ Subscribe \/ Restart
           \/ \E m \in Msgs : SettleEdge(m) \/ Strand(m) \/ Resumed(m)
    PROVE  RoutingInv'
  <1>1. Typed /\ hub \in Bindings /\ con \in Consumers /\ db \in Rows
    BY DEF RoutingInv, Typed
  <1>2. CASE LoopWake
    <2>1. con' \in Consumers
      BY <1>1, <1>2 DEF LoopWake, Consumers
    <2> QED BY <1>1, <1>2, <2>1, MemoryStep DEF LoopWake
  <1>4. CASE DrainLostEnd
    <2>1. con' \in Consumers
      BY <1>1, <1>4 DEF DrainLostEnd, Consumers
    <2> QED BY <1>1, <1>4, <2>1, MemoryStep DEF DrainLostEnd
  <1>5. CASE DrainOwedRewake
    <2> DEFINE idle == [con EXCEPT !.at = "recovery", !.rewake = FALSE]
               S == con.waking \union (IF con.rewake THEN OwedMentionAccounts ELSE {})
    <2>1. S \in SUBSET Agents
      BY <1>1 DEF Consumers, Rows, Pairs, OwedMentionAccounts
    <2>2. idle \in Consumers /\ idle.waking = con.waking
      BY <1>1 DEF Consumers
    <2>3. con' = idle \/ con' = [idle EXCEPT !.waking = S]
      BY <1>5, <2>2 DEF DrainOwedRewake
    <2> HIDE DEF S, idle
    <2>4. con' \in Consumers
      BY <2>1, <2>2, <2>3 DEF Consumers
    <2> QED BY <1>1, <1>5, <2>4, MemoryStep DEF DrainOwedRewake
  <1>6. CASE DrainRecovery
    <2>1. CASE ~con.recovery
      <3>1. con' \in Consumers
        BY <1>1, <1>6, <2>1 DEF DrainRecovery, Recover, Consumers
      <3> QED BY <1>1, <1>6, <2>1, <3>1, MemoryStep DEF DrainRecovery, Recover
    <2>2. CASE con.recovery
      <3>1. PICK failed \in SUBSET hub.live, read \in BOOLEAN :
              /\ con' = [con EXCEPT !.at = "select", !.recovery = FALSE, !.scanning = IF read THEN Unrouted ELSE {}]
              /\ hub' = Dispatched(hub, UNION {SweepSession(a) : a \in hub.live \ failed})
        BY <1>6, <2>2 DEF DrainRecovery, Recover
      <3> DEFINE S == IF read THEN Unrouted ELSE {}
                 ops == UNION {SweepSession(a) : a \in hub.live \ failed}
      <3>2. S \in SUBSET Msgs
        BY <1>1 DEF Unrouted, Rows
      <3>3. con' = [con EXCEPT !.at = "select", !.recovery = FALSE, !.scanning = S]
        BY <3>1
      <3> HIDE DEF S
      <3>4. con' \in Consumers
        BY <1>1, <3>2, <3>3 DEF Consumers
      <3>5. \A a \in hub.live : SweepSession(a) \subseteq Pairs
        BY <1>1, SweptPairs DEF Bindings
      <3>6. ops \in SUBSET Pairs
        BY <3>5
      <3>7. hub' = Dispatched(hub, ops)
        BY <3>1
      <3> HIDE DEF ops
      <3>8. hub' \in Bindings
        BY <1>1, <3>6, <3>7, DispatchTyped
      <3> QED BY <1>1, <1>6, <3>4, <3>8, MemoryStep DEF DrainRecovery
    <2> QED BY <2>1, <2>2
  <1>7. CASE RequestRecovery
    <2>1. con' \in Consumers
      BY <1>1, <1>7 DEF RequestRecovery, Consumers
    <2> QED BY <1>1, <1>7, <2>1, MemoryStep DEF RequestRecovery
  <1>8. CASE Subscribe
    <2>1. con' \in Consumers
      BY <1>1, <1>8 DEF Subscribe, Consumers
    <2> QED BY <1>1, <1>8, <2>1, MemoryStep DEF Subscribe
  <1>9. CASE Restart
    <2>1. Unrouted \subseteq Msgs
      BY <1>1 DEF Unrouted, Rows
    <2>2. con' \in Consumers
      <3>1. PICK S \in SUBSET Msgs : con' = NewConsumer(S)
        BY <1>9, <2>1 DEF Restart
      <3> QED BY <3>1 DEF NewConsumer, Consumers
    <2> QED BY <1>1, <1>9, <2>2, MemoryStep DEF Restart
  <1>10. ASSUME NEW m \in Msgs, SettleEdge(m) PROVE RoutingInv'
    <2> DEFINE c == [con EXCEPT !.settles = @ \union {m}]
    <2>1. c \in Consumers
      BY <1>1 DEF Consumers
    <2>2. con' = [c EXCEPT !.notify = TRUE]
      BY <1>1, <1>10 DEF SettleEdge, Consumers
    <2> HIDE DEF c
    <2>3. con' \in Consumers
      BY <2>1, <2>2 DEF Consumers
    <2> QED BY <1>1, <1>10, <2>3, MemoryStep DEF SettleEdge
  <1>11. ASSUME NEW m \in Msgs, Strand(m) \/ Resumed(m) PROVE RoutingInv'
    <2>1. PICK S \in SUBSET Msgs : con' = [con EXCEPT !.stranded = S]
      BY <1>1, <1>11 DEF Strand, Resumed, Consumers
    <2>2. con' \in Consumers
      BY <1>1, <2>1 DEF Consumers
    <2> QED BY <1>1, <1>11, <2>2, MemoryStep DEF Strand, Resumed
  <1> QED BY <1>2, <1>4, <1>5, <1>6, <1>7, <1>8, <1>9, <1>10, <1>11

LEMMA WakeSteps ==
    ASSUME RoutingInv, NEW a \in Agents,
           \/ Rewake(a) \/ WakeTimer(a) \/ StrikesExpire(a)
           \/ \E kind \in {"gone", "errored", "deferred"} : DrainLost(a, kind)
    PROVE  RoutingInv'
  <1>1. hub \in Bindings /\ con \in Consumers
    BY DEF RoutingInv, Typed
  <1>2. CASE Rewake(a)
    <2>1. [con EXCEPT !.waking = @ \ {a}] \in Consumers
      BY <1>1 DEF Consumers
    <2> QED BY <1>1, <1>2, <2>1, WakeTyped, MemoryStep DEF Rewake
  <1>3. CASE WakeTimer(a)
    <2>1. <<a, "deferred">> \in Agents \X {"gone", "errored", "deferred"}
      OBVIOUS
    <2>2. con' \in Consumers
      BY <1>1, <1>3, <2>1 DEF WakeTimer, Consumers
    <2> QED BY <1>1, <1>3, <2>2, MemoryStep DEF WakeTimer
  <1>4. CASE StrikesExpire(a)
    <2>1. con' \in Consumers
      BY <1>1, <1>4 DEF StrikesExpire, Consumers
    <2> QED BY <1>1, <1>4, <2>1, MemoryStep DEF StrikesExpire
  <1>5. ASSUME NEW kind \in {"gone", "errored", "deferred"}, DrainLost(a, kind) PROVE RoutingInv'
    <2> DEFINE left == con.lost \ {<<a, kind>>}
               pend == IF kind = "deferred" THEN con.pending \ {a} ELSE con.pending
               c == [con EXCEPT !.lost = left, !.pending = pend]
    <2>1. left \in SUBSET (Agents \X {"gone", "errored", "deferred"}) /\ pend \in SUBSET Agents
      BY <1>1 DEF Consumers
    <2>2. \/ con' = c /\ UNCHANGED hub
          \/ con' = [c EXCEPT !.pending = @ \union {a}] /\ UNCHANGED hub
          \/ Wake(a) /\ con' = Woken(c)
          \/ Wake(a) /\ con' = Woken([c EXCEPT !.strikes = @ \union {a}])
      BY <1>5 DEF DrainLost
    <2> HIDE DEF left, pend
    <2>3. c \in Consumers
      BY <1>1, <2>1 DEF Consumers
    <2> HIDE DEF c
    <2>4. [c EXCEPT !.pending = @ \union {a}] \in Consumers
      BY <2>3 DEF Consumers
    <2>5. [c EXCEPT !.strikes = @ \union {a}] \in Consumers
      BY <2>3 DEF Consumers
    <2>6. con' \in Consumers /\ hub' \in Bindings
      BY <1>1, <2>2, <2>3, <2>4, <2>5, WakeTyped
    <2> QED BY <1>5, <2>6, MemoryStep DEF DrainLost
  <1> QED BY <1>2, <1>3, <1>4, <1>5

-----------------------------------------------------------------------------
(* A row step marks no message and starts no pass.                             *)
LEMMA RowStep ==
    ASSUME RoutingInv, db' \in Rows, db'.routed = db.routed, con' \in Consumers, hub' \in Bindings,
           \A p \in db.owed : p \in db'.owed \/ p \in db'.acked \/ p \in dropped', db.acked \subseteq db'.acked,
           task' = NoTasks \/ UNCHANGED task, UNCHANGED steered,
           dropped \subseteq dropped', dropped' \subseteq Pairs
    PROVE  RoutingInv'
  <1>1. Typed' /\ Kept
    BY DEF RoutingInv, Typed, Kept, NoTasks
  <1>2. \A w \in Workers : task'[w] = Nil \/ task'[w] = task[w]
    BY DEF NoTasks
  <1> QED BY <1>1, <1>2, Frame

LEMMA RowSteps ==
    ASSUME RoutingInv, NEW m \in Msgs,
           Post(m) \/ Park(m) \/ CallbackHold(m) \/ \E a \in Agents : Ack(a, m)
    PROVE  RoutingInv'
  <1>1. db \in Rows /\ con \in Consumers /\ hub \in Bindings /\ dropped \subseteq Pairs
    BY DEF RoutingInv, Typed
  <1>2. CASE Post(m)
    <2>1. /\ db' \in Rows /\ db'.routed = db.routed /\ db'.owed = db.owed /\ db'.acked = db.acked
      <3>1. CASE db' = [db EXCEPT !.posted = @ \union {m}, !.queued = @ \union {m}]
        BY <1>1, <3>1 DEF Rows
      <3>2. CASE db' = [db EXCEPT !.posted = @ \union {m}]
        BY <1>1, <3>2 DEF Rows
      <3> QED BY <1>2, <3>1, <3>2 DEF Post
    <2> QED BY <1>1, <1>2, <2>1, RowStep DEF Post
  <1>3. CASE Park(m)
    <2>1. /\ db' \in Rows /\ db'.routed = db.routed /\ db'.owed = db.owed /\ db'.acked = db.acked
      BY <1>1, <1>3 DEF Park, Rows
    <2> QED BY <1>1, <1>3, <2>1, RowStep DEF Park
  <1>4. CASE CallbackHold(m)
    <2>1. /\ db' \in Rows /\ db'.routed = db.routed /\ db'.owed = db.owed /\ db'.acked = db.acked
      BY <1>1, <1>4 DEF CallbackHold, Rows
    <2>2. con' \in Consumers
      BY <1>1, <1>4 DEF CallbackHold, Consumers
    <2> QED BY <1>1, <1>4, <2>1, <2>2, RowStep DEF CallbackHold
  <1>5. ASSUME NEW a \in Agents, Ack(a, m) PROVE RoutingInv'
    <2> DEFINE p == <<a, m>>
    <2>1. p \in Pairs
      BY DEF Pairs
    <2>2. db' = [db EXCEPT !.acked = @ \union {p}, !.owed = @ \ {p}] /\ hub' = [hub EXCEPT !.inbox = @ \ {p}]
      BY <1>5 DEF Ack
    <2> HIDE DEF p
    <2>3. /\ db' \in Rows /\ db'.routed = db.routed /\ db'.owed = db.owed \ {p}
          /\ db'.acked = db.acked \union {p}
      BY <1>1, <2>1, <2>2 DEF Rows
    <2>4. hub' \in Bindings
      BY <1>1, <2>2 DEF Bindings
    <2> QED BY <1>1, <1>5, <2>3, <2>4, RowStep DEF Ack
  <1> QED BY <1>2, <1>3, <1>4, <1>5

(* The start sweep clears only the rows of messages it could not read.         *)
LEMMA StartsStep ==
    ASSUME RoutingInv, DrainStarts
    PROVE  RoutingInv'
  <1>1. Typed /\ hub \in Bindings /\ con \in Consumers /\ db \in Rows /\ dropped \subseteq Pairs
    BY DEF RoutingInv, Typed
  <1>2. UNCHANGED <<task, steered>>
    BY DEF DrainStarts
  <1>3. CASE con' = [con EXCEPT !.at = "lost"] /\ UNCHANGED <<db, hub, dropped>>
    <2>1. con' \in Consumers
      BY <1>1, <1>3 DEF Consumers
    <2> QED BY <1>1, <1>2, <1>3, <2>1, MemoryStep
  <1>4. ASSUME NEW a \in con.starts, NEW undelivered \in BOOLEAN, NEW owed \in BOOLEAN,
               NEW gone \in SUBSET (IF owed THEN OwedTo(a) ELSE {}), DrainStart(a, undelivered, owed, gone)
        PROVE  RoutingInv'
    <2> DEFINE ops == (IF undelivered THEN SweepSession(a) ELSE {}) \union (IF owed THEN OwedTo(a) \ gone ELSE {})
    <2>1. a \in Agents
      BY <1>1 DEF Consumers
    <2>2. SweepSession(a) \subseteq Pairs /\ OwedTo(a) \subseteq Pairs
      BY <1>1, <2>1, SweptPairs
    <2>3. ops \in SUBSET Pairs /\ gone \subseteq Pairs
      BY <2>2
    <2>4. hub' = Dispatched(hub, ops)
      BY <1>4 DEF DrainStart
    <2> HIDE DEF ops
    <2>5. hub' \in Bindings
      BY <1>1, <2>3, <2>4, DispatchTyped
    <2>6. con' \in Consumers
      BY <1>1, <1>4 DEF DrainStart, Consumers
    <2>7. db' = [db EXCEPT !.owed = @ \ gone] /\ dropped' = dropped \union gone
      BY <1>4 DEF DrainStart
    <2>8. /\ db' \in Rows /\ db'.routed = db.routed /\ db'.acked = db.acked
          /\ db'.owed = db.owed \ gone
      BY <1>1, <2>7 DEF Rows
    <2> QED BY <1>1, <1>2, <2>3, <2>5, <2>6, <2>7, <2>8, RowStep
  <1> QED BY <1>3, <1>4 DEF DrainStarts

(* A pass begins with everyone it must back in its sets.                       *)
LEMMA BeginSteps ==
    ASSUME Setting, RoutingInv, DrainSettles \/ \E m \in Msgs : CallbackRoute(m) \/ ScanNext(m)
    PROVE  RoutingInv'
  <1>1. con \in Consumers /\ hub \in Bindings /\ DOMAIN task = Workers
    BY DEF RoutingInv, Typed
  <1>2. ASSUME NEW m \in Msgs, NEW fan \in BOOLEAN, NEW w \in Workers, con' \in Consumers,
               task' = task \/ task' = [task EXCEPT ![w] = Pass(m, fan)],
               UNCHANGED <<db, hub, steered, dropped>>
        PROVE  RoutingInv'
    <2>1. Typed' /\ Kept
      BY <1>2 DEF RoutingInv, Typed, Kept
    <2>2. PassOK(Pass(m, fan), db, steered, dropped)
      BY PassBegins
    <2>3. \A v \in Workers : task'[v] = task[v] \/ task'[v] = Pass(m, fan)
      BY <1>1, <1>2
    <2>4. \A v \in Workers : task'[v] = task[v] \/ PassOK(task'[v], db', steered', dropped')
      BY <1>2, <2>2, <2>3
    <2> QED BY <1>2, <2>1, <2>4, Frame
  <1>3. ASSUME NEW m \in Msgs, CallbackRoute(m) PROVE RoutingInv'
    BY <1>1, <1>2, <1>3 DEF CallbackRoute, Workers
  <1>4. ASSUME NEW m \in Msgs, ScanNext(m) PROVE RoutingInv'
    <2>1. con' \in Consumers
      BY <1>1, <1>4 DEF ScanNext, Consumers
    <2> QED BY <1>2, <1>4, <2>1 DEF ScanNext, Workers
  <1>5. CASE DrainSettles
    <2>1. CASE con' = [con EXCEPT !.at = "starts"] /\ UNCHANGED task
      <3>1. con' \in Consumers
        BY <1>1, <2>1 DEF Consumers
      <3> QED BY <1>1, <1>5, <2>1, <3>1, MemoryStep DEF DrainSettles, RoutingInv, Typed
    <2>2. ASSUME NEW m \in con.settles, con' = [con EXCEPT !.settles = @ \ {m}, !.held = @ \ {m}],
                 task' = task \/ task' = [task EXCEPT !["loop"] = Pass(m, TRUE)]
          PROVE  RoutingInv'
      <3>1. con' \in Consumers /\ m \in Msgs
        BY <1>1, <2>2 DEF Consumers
      <3> QED BY <1>2, <1>5, <2>2, <3>1 DEF DrainSettles, Workers
    <2> QED BY Zenon, <1>5, <2>1, <2>2 DEF DrainSettles
  <1> QED BY <1>3, <1>4, <1>5

-----------------------------------------------------------------------------
(* One worker's pass goes on to pass n, marking no message.                    *)
LEMMA PassStep ==
    ASSUME RoutingInv, NEW w \in Workers, NEW n, n = Nil \/ PassOK(n, db', steered', dropped'),
           task' = [task EXCEPT ![w] = n], Typed', Kept, db'.routed = db.routed
    PROVE  RoutingInv'
  <1>1. \A v \in Workers : task'[v] = task[v] \/ task'[v] = n
    BY DEF RoutingInv, Typed
  <1> QED BY <1>1, Frame

(* The pass of a worker at a step, and the one it goes on to.                  *)
LEMMA AtPass ==
    ASSUME RoutingInv, NEW w \in Workers, NEW step, At(w, step)
    PROVE  task[w] \in Passes /\ PassOK(task[w], db, steered, dropped) /\ task[w].step = step
  BY DEF RoutingInv, At, PassOK

LEMMA Moved ==
    ASSUME NEW t, NEW step \in Steps, NEW d, NEW s, NEW x, PassOK(t, d, s, x),
           step \in {"recheck", "wake"} => t.agent \in Agents, step \in {"mentions", "recheck", "wake", "subscribers", "fan"},
           t.step = "record" => Backed(t.agent, t.msg, d, s, x)
    PROVE  PassOK([t EXCEPT !.step = step], d, s, x)
  <1> DEFINE n == [t EXCEPT !.step = step]
  <1>1. t \in Passes
    BY DEF PassOK
  <1>2. /\ n \in Passes /\ n.step = step /\ n.msg = t.msg /\ n.mentions = t.mentions
        /\ n.agent = t.agent /\ n.asks = t.asks
    BY <1>1 DEF Passes
  <1> HIDE DEF n
  <1>3. \A a \in Mentioned[n.msg] \ n.mentions : Backed(a, n.msg, d, s, x)
    BY <1>2 DEF PassOK
  <1>4. \A a \in Asker[n.msg] \ n.asks : Backed(a, n.msg, d, s, x)
    BY <1>2 DEF PassOK
  <1>5. n.step \in {"record", "recheck", "wake", "askSteer"} => n.agent \in Agents
    BY <1>2
  <1>6. PassOK(n, d, s, x)
    BY <1>2, <1>3, <1>4, <1>5 DEF PassOK
  <1> QED BY <1>6 DEF n

LEMMA RouteMentionStep ==
    ASSUME Setting, RoutingInv, NEW w \in Workers, NEW a \in Agents, RouteMention(w, a)
    PROVE  RoutingInv'
  <1> DEFINE t == task[w]
             left == [t EXCEPT !.mentions = @ \ {a}, !.agent = a]
             p == <<a, t.msg>>
             next == IF a \in Swept[t.msg] THEN "wake" ELSE "record"
  <1>1. t \in Passes /\ PassOK(t, db, steered, dropped) /\ t.step = "mentions" /\ a \in t.mentions
    BY AtPass DEF RouteMention, At
  <1>2. /\ left \in Passes /\ left.msg = t.msg /\ left.mentions = t.mentions \ {a} /\ left.agent = a
        /\ left.asks = t.asks /\ left.step = "mentions"
    BY <1>1 DEF Passes
  <1>3. p \in Pairs /\ t.msg \in Msgs
    BY <1>1 DEF Passes, Pairs
  <1>4. Typed
    BY DEF RoutingInv
  <1>5. UNCHANGED <<db, con, dropped>>
    BY DEF RouteMention
  <1>6. CASE a \in hub.live
    <2>1. hub' = Dispatched(hub, {p}) /\ steered' = steered \union {p} /\ task' = [task EXCEPT ![w] = left]
      BY <1>2, <1>6 DEF RouteMention
    <2> HIDE DEF left
    <2>2. hub' \in Bindings
      BY <1>3, <1>4, <2>1, DispatchTyped DEF Typed
    <2>3. Typed' /\ Kept
      BY <1>3, <1>4, <1>5, <2>1, <2>2 DEF Typed, Kept
    <2>4. Backed(a, left.msg, db', steered', dropped')
      BY <1>2, <2>1 DEF Backed
    <2>5. \A b \in Mentioned[left.msg] \ left.mentions : Backed(b, left.msg, db', steered', dropped')
      BY <1>1, <1>2, <2>3, <2>4, BackedStays DEF PassOK
    <2>6. \A b \in Asker[left.msg] \ left.asks : Backed(b, left.msg, db', steered', dropped')
      BY <1>1, <1>2, <2>3, BackedStays DEF PassOK
    <2>7. PassOK(left, db', steered', dropped')
      BY <1>2, <2>5, <2>6 DEF PassOK
    <2> QED BY <1>5, <2>1, <2>3, <2>7, PassStep
  <1>7. CASE a \notin hub.live
    <2> DEFINE n == [left EXCEPT !.step = next]
    <2>1. task' = [task EXCEPT ![w] = n] /\ UNCHANGED <<hub, steered>>
      BY <1>2, <1>7 DEF RouteMention
    <2>2. next \in Steps
      BY DEF Steps
    <2> HIDE DEF left, next
    <2>3. /\ n \in Passes /\ n.msg = t.msg /\ n.mentions = t.mentions \ {a} /\ n.agent = a
          /\ n.asks = t.asks /\ n.step = next
      BY <1>2, <2>2 DEF Passes
    <2>4. Typed' /\ Kept
      BY <1>4, <1>5, <2>1 DEF Typed, Kept
    <2> HIDE DEF n
    <2>5. Backed(a, n.msg, db, steered, dropped) \/ n.step = "record"
      BY <2>3 DEF Backed, next
    <2>6. PassOK(n, db, steered, dropped)
      BY <1>1, <2>3, <2>5 DEF PassOK
    <2> QED BY <1>5, <2>1, <2>4, <2>6, PassStep
  <1> QED BY <1>6, <1>7

LEMMA RecordStep ==
    ASSUME Setting, RoutingInv, NEW w \in Workers, Record(w)
    PROVE  RoutingInv'
  <1> DEFINE t == task[w]
             p == <<t.agent, t.msg>>
  <1>1. t \in Passes /\ PassOK(t, db, steered, dropped) /\ t.step = "record"
    BY AtPass DEF Record
  <1>2. t.agent \in Agents /\ p \in Pairs
    BY <1>1 DEF PassOK, Passes, Pairs
  <1>3. Typed /\ UNCHANGED <<con, hub, steered>>
    BY DEF RoutingInv, Record
  <1>4. CASE db' = [db EXCEPT !.owed = @ \union {p}] /\ Go(w, "recheck") /\ UNCHANGED dropped
    <2>1. db' \in Rows /\ db'.owed = db.owed \union {p} /\ db'.acked = db.acked /\ db'.routed = db.routed
      BY <1>2, <1>3, <1>4 DEF Typed, Rows
    <2>2. Typed' /\ Kept
      BY <1>3, <1>4, <2>1 DEF Typed, Kept, Go
    <2>3. PassOK(t, db', steered', dropped')
      BY <1>1, <2>2, BackedStays DEF PassOK
    <2>4. Backed(t.agent, t.msg, db', steered', dropped')
      BY <2>1 DEF Backed
    <2>5. PassOK([t EXCEPT !.step = "recheck"], db', steered', dropped')
      BY <1>2, <2>3, <2>4, Moved DEF Steps
    <2>6. task' = [task EXCEPT ![w] = [t EXCEPT !.step = "recheck"]]
      BY <1>4 DEF Go
    <2> QED BY <2>1, <2>2, <2>5, <2>6, PassStep
  <1>5. CASE dropped' = dropped \union {p} /\ Go(w, "wake") /\ UNCHANGED db
    <2>1. Typed' /\ Kept
      BY <1>2, <1>3, <1>5 DEF Typed, Kept, Go
    <2>2. PassOK(t, db', steered', dropped')
      BY <1>1, <2>1, BackedStays DEF PassOK
    <2>3. Backed(t.agent, t.msg, db', steered', dropped')
      BY <1>5 DEF Backed
    <2>4. PassOK([t EXCEPT !.step = "wake"], db', steered', dropped')
      BY <1>2, <2>2, <2>3, Moved DEF Steps
    <2>5. task' = [task EXCEPT ![w] = [t EXCEPT !.step = "wake"]]
      BY <1>5 DEF Go
    <2> QED BY <1>5, <2>1, <2>4, <2>5, PassStep
  <1> QED BY <1>4, <1>5 DEF Record, Op

(* The steps that only dispatch or wake leave every row as it is.              *)
LEMMA SendSteps ==
    ASSUME Setting, RoutingInv, NEW w \in Workers, Recheck(w) \/ WakeMentioned(w) \/ AskSteer(w)
    PROVE  RoutingInv'
  <1> DEFINE t == task[w]
  <1>1. t \in Passes /\ PassOK(t, db, steered, dropped) /\ t.step \in {"recheck", "wake", "askSteer"}
    <2>1. \E step \in {"recheck", "wake", "askSteer"} : At(w, step)
      BY DEF Recheck, WakeMentioned, AskSteer
    <2> QED BY <2>1, AtPass
  <1>2. t.agent \in Agents /\ Op(w) \in Pairs
    BY <1>1 DEF PassOK, Passes, Pairs, Op
  <1>3. Typed /\ UNCHANGED <<db, steered, dropped>>
    BY DEF RoutingInv, Recheck, WakeMentioned, AskSteer
  <1>4. PICK step \in {"wake", "mentions"} : task' = [task EXCEPT ![w] = [t EXCEPT !.step = step]]
    BY DEF Recheck, WakeMentioned, AskSteer, Go
  <1>5. con' \in Consumers /\ hub' \in Bindings
    <2>1. CASE WakeMentioned(w)
      BY <1>2, <1>3, <2>1, WakeTyped DEF WakeMentioned, Typed
    <2>2. CASE Recheck(w) \/ AskSteer(w)
      <3>1. hub' = Dispatched(hub, {Op(w)}) /\ UNCHANGED con /\ {Op(w)} \in SUBSET Pairs
        BY <1>2, <2>2 DEF Recheck, AskSteer
      <3> QED BY <1>3, <3>1, DispatchTyped DEF Typed
    <2> QED BY <2>1, <2>2
  <1>6. Typed' /\ Kept
    BY <1>3, <1>4, <1>5 DEF Typed, Kept
  <1>7. PassOK(t, db', steered', dropped')
    BY <1>1, <1>6, BackedStays DEF PassOK
  <1>8. PassOK([t EXCEPT !.step = step], db', steered', dropped')
    BY <1>1, <1>2, <1>7, Moved DEF Steps
  <1> QED BY <1>3, <1>4, <1>6, <1>8, PassStep

LEMMA AskRecordStep ==
    ASSUME Setting, RoutingInv, NEW w \in Workers, AskRecord(w)
    PROVE  RoutingInv'
  <1> DEFINE t == task[w]
  <1>1. t \in Passes /\ PassOK(t, db, steered, dropped) /\ t.step = "mentions"
    BY AtPass DEF AskRecord
  <1> DEFINE left(a) == [t EXCEPT !.asks = @ \ {a}, !.agent = a]
  <1>2. Typed /\ UNCHANGED <<con, hub, steered>>
    BY DEF RoutingInv, AskRecord
  <1>3. ASSUME NEW a \in t.asks, NEW step \in {"mentions", "askSteer"}, NEW n,
               /\ n \in Passes /\ n.step = step /\ n.msg = t.msg /\ n.mentions = t.mentions
               /\ n.agent = a /\ n.asks = t.asks \ {a},
               task' = [task EXCEPT ![w] = n], Typed', Kept, db'.routed = db.routed,
               <<a, t.msg>> \in db'.owed \/ <<a, t.msg>> \in dropped'
        PROVE  RoutingInv'
    <2>1. \A b \in Mentioned[n.msg] \ n.mentions : Backed(b, n.msg, db', steered', dropped')
      BY <1>1, <1>3, BackedStays DEF PassOK
    <2>2. \A b \in Asker[n.msg] \ n.asks : Backed(b, n.msg, db', steered', dropped')
      <3>1. Backed(a, n.msg, db', steered', dropped')
        BY <1>3 DEF Backed
      <3> QED BY <3>1, <1>1, <1>3, BackedStays DEF PassOK
    <2>3. a \in Agents
      BY <1>1 DEF Passes
    <2>4. PassOK(n, db', steered', dropped')
      BY <1>3, <2>1, <2>2, <2>3 DEF PassOK
    <2> QED BY <1>3, <2>4, PassStep
  <1>4. ASSUME NEW a \in t.asks
        PROVE  /\ a \in Agents /\ <<a, t.msg>> \in Pairs
               /\ left(a) \in Passes /\ left(a).step = "mentions" /\ left(a).msg = t.msg
               /\ left(a).mentions = t.mentions /\ left(a).agent = a /\ left(a).asks = t.asks \ {a}
    BY <1>1, <1>4 DEF Passes, Pairs
  <1>5. ASSUME NEW a \in t.asks, db' = [db EXCEPT !.owed = @ \union {<<a, t.msg>>}],
               task' = [task EXCEPT ![w] = [left(a) EXCEPT !.step = "askSteer"]], UNCHANGED dropped
        PROVE  RoutingInv'
    <2> DEFINE n == [left(a) EXCEPT !.step = "askSteer"]
               p == <<a, t.msg>>
    <2>1. p \in Pairs
      BY <1>4
    <2>2. /\ n \in Passes /\ n.step = "askSteer" /\ n.msg = t.msg /\ n.mentions = t.mentions
          /\ n.agent = a /\ n.asks = t.asks \ {a}
      <3>1. ASSUME NEW l \in Passes PROVE
              LET k == [l EXCEPT !.step = "askSteer"]
              IN  /\ k \in Passes /\ k.step = "askSteer" /\ k.msg = l.msg /\ k.mentions = l.mentions
                  /\ k.agent = l.agent /\ k.asks = l.asks
        BY DEF Passes, Steps
      <3>2. /\ left(a) \in Passes /\ left(a).msg = t.msg /\ left(a).mentions = t.mentions
            /\ left(a).agent = a /\ left(a).asks = t.asks \ {a}
        BY <1>4
      <3> HIDE DEF left
      <3> QED BY <3>1, <3>2
    <2>3. db' = [db EXCEPT !.owed = @ \union {p}] /\ task' = [task EXCEPT ![w] = n]
      BY <1>5
    <2> HIDE DEF n, p
    <2>4. db' \in Rows /\ db'.owed = db.owed \union {p} /\ db'.acked = db.acked /\ db'.routed = db.routed
      BY <1>2, <2>1, <2>3 DEF Typed, Rows
    <2>5. Typed' /\ Kept
      BY <1>2, <1>5, <2>3, <2>4 DEF Typed, Kept
    <2> QED BY <1>3, <2>2, <2>3, <2>4, <2>5 DEF p
  <1>6. ASSUME NEW a \in t.asks, dropped' = dropped \union {<<a, t.msg>>},
               task' = [task EXCEPT ![w] = left(a)], UNCHANGED db
        PROVE  RoutingInv'
    <2>1. Typed' /\ Kept
      BY <1>2, <1>4, <1>6 DEF Typed, Kept
    <2> HIDE DEF left
    <2> QED BY <1>3, <1>4, <1>6, <2>1
  <1> QED BY Zenon, <1>5, <1>6 DEF AskRecord

(* The marker is written when the pass has taken everyone from its sets.       *)
LEMMA MarkStep ==
    ASSUME Setting, RoutingInv, NEW w \in Workers, Mark(w)
    PROVE  RoutingInv'
  <1> DEFINE t == task[w]
             next == IF t.subs = {} THEN "fan" ELSE "subscribers"
             n == [t EXCEPT !.step = next]
  <1>1. /\ t \in Passes /\ PassOK(t, db, steered, dropped) /\ t.step = "mentions"
        /\ t.mentions = {} /\ t.asks = {}
    BY AtPass DEF Mark
  <1>2. Typed /\ UNCHANGED <<con, hub, steered, dropped>> /\ task' = [task EXCEPT ![w] = n]
    BY DEF RoutingInv, Mark, Go
  <1>3. db' = db \/ db' = [db EXCEPT !.routed = @ \union {t.msg}]
    BY DEF Mark
  <1>4. t.msg \in Msgs
    BY <1>1 DEF Passes
  <1>5. /\ db' \in Rows /\ db'.owed = db.owed /\ db'.acked = db.acked
        /\ db'.routed \subseteq db.routed \union {t.msg}
    BY <1>2, <1>3, <1>4 DEF Typed, Rows
  <1>6. Typed' /\ Kept
    BY <1>2, <1>5 DEF Typed, Kept
  <1>7. PassOK(t, db', steered', dropped')
    BY <1>1, <1>6, BackedStays DEF PassOK
  <1>8. PassOK(n, db', steered', dropped')
    <2>1. next \in {"fan", "subscribers"}
      OBVIOUS
    <2> HIDE DEF next
    <2> QED BY <1>1, <1>7, <2>1, Moved DEF Steps
  <1>9. AllBacked(t.msg, db', steered', dropped')
    BY <1>1, <1>7 DEF PassOK, AllBacked
  <1> HIDE DEF n
  <1>10. \A v \in Workers : task'[v] = task[v] \/ task'[v] = n
    BY <1>2 DEF Typed
  <1> QED BY <1>5, <1>6, <1>8, <1>9, <1>10, Frame

(* Whom a failed read drops is dropped for good; the subscribers back nobody.  *)
LEMMA ReadSteps ==
    ASSUME Setting, RoutingInv, NEW w \in Workers, ResolveMentioned(w) \/ SubscribedAgents(w)
    PROVE  RoutingInv'
  <1> DEFINE t == task[w]
  <1>1. t \in Passes /\ PassOK(t, db, steered, dropped) /\ t.step \in {"resolve", "subscribers"}
    <2>1. At(w, "resolve") \/ At(w, "subscribers")
      BY DEF ResolveMentioned, SubscribedAgents
    <2> QED BY <2>1, AtPass
  <1>2. Typed /\ UNCHANGED <<db, con, hub, steered>>
    BY DEF RoutingInv, ResolveMentioned, SubscribedAgents
  <1>3. ASSUME NEW step \in {"mentions", "fan"}, Go(w, step), UNCHANGED dropped PROVE RoutingInv'
    <2>1. PassOK([t EXCEPT !.step = step], db', steered', dropped')
      BY <1>1, <1>2, <1>3, Moved DEF Steps
    <2>2. task' = [task EXCEPT ![w] = [t EXCEPT !.step = step]]
      BY <1>3 DEF Go
    <2>3. Typed' /\ Kept
      BY <1>2, <1>3, <2>2 DEF Typed, Kept
    <2> QED BY <1>2, <2>1, <2>2, <2>3, PassStep
  <1>4. ASSUME task' = [task EXCEPT ![w] = [t EXCEPT !.step = "fan", !.subs = {}]], UNCHANGED dropped
        PROVE  RoutingInv'
    <2> DEFINE n == [t EXCEPT !.step = "fan", !.subs = {}]
    <2>1. /\ n \in Passes /\ n.msg = t.msg /\ n.mentions = t.mentions /\ n.asks = t.asks
          /\ n.step = "fan"
      BY <1>1 DEF Passes, Steps
    <2> HIDE DEF n
    <2>2. Typed' /\ Kept
      BY <1>2, <1>4 DEF Typed, Kept
    <2>3. PassOK(n, db', steered', dropped')
      BY <1>1, <1>2, <1>4, <2>1 DEF PassOK
    <2> QED BY <1>2, <1>4, <2>2, <2>3, PassStep DEF n
  <1>5. ASSUME NEW S, S = (IF t.fan THEN Swept[t.msg] ELSE {}),
               dropped' = dropped \union (Mentioned[t.msg] \X {t.msg}),
               task' = [task EXCEPT ![w] = [t EXCEPT !.step = "mentions", !.mentions = {}, !.subs = S]]
        PROVE  RoutingInv'
    <2> DEFINE n == [t EXCEPT !.step = "mentions", !.mentions = {}, !.subs = S]
    <2>1. t.msg \in Msgs
      BY <1>1 DEF Passes
    <2>2. S \in SUBSET Agents /\ Mentioned[t.msg] \subseteq Agents
      BY <1>5, <2>1 DEF Setting
    <2>3. /\ n \in Passes /\ n.msg = t.msg /\ n.mentions = {} /\ n.asks = t.asks
          /\ n.step = "mentions"
      BY <1>1, <2>2 DEF Passes, Steps
    <2> HIDE DEF n
    <2>4. dropped' \subseteq Pairs
      BY <1>2, <1>5, <2>1, <2>2 DEF Typed, Pairs
    <2>5. Typed' /\ Kept
      BY <1>2, <1>5, <2>4 DEF Typed, Kept
    <2>6. \A a \in Mentioned[n.msg] : Backed(a, n.msg, db', steered', dropped')
      BY <1>5, <2>3 DEF Backed
    <2>7. \A a \in Asker[n.msg] \ n.asks : Backed(a, n.msg, db', steered', dropped')
      BY <1>1, <2>3, <2>5, BackedStays DEF PassOK
    <2>8. PassOK(n, db', steered', dropped')
      BY <2>3, <2>6, <2>7 DEF PassOK
    <2> QED BY <1>2, <1>5, <2>5, <2>8, PassStep DEF n
  <1>6. CASE ResolveMentioned(w)
    BY Zenon, <1>3, <1>5, <1>6 DEF ResolveMentioned
  <1>7. CASE SubscribedAgents(w)
    BY Zenon, <1>3, <1>4, <1>7 DEF SubscribedAgents
  <1> QED BY <1>6, <1>7

LEMMA FanSteps ==
    ASSUME Setting, RoutingInv, NEW w \in Workers, Done(w) \/ \E a \in Agents : FanOut(w, a)
    PROVE  RoutingInv'
  <1> DEFINE t == task[w]
  <1>1. t \in Passes /\ PassOK(t, db, steered, dropped) /\ t.step = "fan"
    <2>1. At(w, "fan")
      BY DEF Done, FanOut
    <2> QED BY <2>1, AtPass
  <1>2. Typed
    BY DEF RoutingInv
  <1>3. CASE Done(w)
    <2>1. /\ db' \in Rows /\ db'.owed = db.owed /\ db'.acked = db.acked /\ db'.routed = db.routed
      BY <1>2, <1>3 DEF Done, Typed, Rows
    <2>2. Typed' /\ Kept
      BY <1>2, <1>3, <2>1 DEF Done, Typed, Kept
    <2> QED BY <1>3, <2>1, <2>2, PassStep DEF Done
  <1>4. ASSUME NEW a \in Agents, FanOut(w, a) PROVE RoutingInv'
    <2> DEFINE n == [t EXCEPT !.subs = @ \ {a}]
    <2>1. /\ n \in Passes /\ n.msg = t.msg /\ n.mentions = t.mentions /\ n.asks = t.asks
          /\ n.step = "fan"
      BY <1>1 DEF Passes
    <2>2. task' = [task EXCEPT ![w] = n] /\ UNCHANGED <<db, steered, dropped>>
      BY <1>4 DEF FanOut
    <2>3. con' \in Consumers /\ hub' \in Bindings
      <3>1. {<<a, t.msg>>} \in SUBSET Pairs
        BY <1>1 DEF Passes, Pairs
      <3>2. Dispatched(hub, {<<a, t.msg>>}) \in Bindings
        BY <1>2, <3>1, DispatchTyped DEF Typed
      <3>3. CASE a \in hub.live
        BY <1>2, <1>4, <3>2, <3>3 DEF FanOut, Typed
      <3>4. CASE a \notin hub.live
        BY <1>2, <1>4, <3>4, WakeTyped DEF FanOut, Typed
      <3> QED BY <3>3, <3>4
    <2> HIDE DEF n
    <2>4. Typed' /\ Kept
      BY <1>2, <2>2, <2>3 DEF Typed, Kept
    <2>5. PassOK(n, db', steered', dropped')
      BY <1>1, <2>1, <2>4, BackedStays DEF PassOK
    <2> QED BY <2>2, <2>4, <2>5, PassStep
  <1> QED BY <1>3, <1>4

-----------------------------------------------------------------------------
LEMMA NextInv == ASSUME Setting, RoutingInv, [Next]_routing PROVE RoutingInv'
  <1>1. CASE UNCHANGED routing
    BY <1>1, MemoryStep DEF routing, RoutingInv, Typed
  <1>2. CASE Loop
    BY <1>2, QueueSteps, StartsStep, BeginSteps, WakeSteps DEF Loop
  <1>3. CASE Deliver
    BY <1>3, RowSteps, BeginSteps DEF Deliver
  <1>4. ASSUME NEW w \in Workers, Step(w) PROVE RoutingInv'
    BY <1>4, RouteMentionStep, RecordStep, SendSteps, AskRecordStep, MarkStep, ReadSteps, FanSteps DEF Step
  <1>5. ASSUME NEW m \in Msgs, Post(m) \/ Park(m) \/ SettleEdge(m) \/ Strand(m) \/ Resumed(m) PROVE RoutingInv'
    BY <1>5, RowSteps, QueueSteps
  <1>6. ASSUME NEW a \in Agents,
               \/ Agent(a) \/ SessionStarted(a) \/ SessionStopped(a) \/ StrikesExpire(a)
               \/ \E kind \in {"gone", "errored"} : SessionLost(a, kind)
        PROVE  RoutingInv'
    BY <1>6, WakeSteps, RowSteps, HubSteps DEF Agent
  <1>7. CASE Crash \/ Disconnect \/ Attach \/ RequestRecovery
    <2>1. CASE RequestRecovery
      BY <2>1, QueueSteps
    <2>2. CASE Disconnect
      <3>1. hub' \in Bindings /\ con' \in Consumers
        BY <2>2 DEF Disconnect, RoutingInv, Typed, Bindings
      <3> QED BY <2>2, <3>1, MemoryStep DEF Disconnect
    <2>3. CASE Attach
      <3>1. hub' \in Bindings
        BY <2>3 DEF Attach, Bindings
      <3>2. con' \in Consumers
        BY <2>3 DEF Attach, RoutingInv, Typed, Consumers
      <3> QED BY <2>3, <3>1, <3>2, MemoryStep DEF Attach, RoutingInv, Typed
    <2>4. CASE Crash
      <3>1. con' \in Consumers
        BY <2>4 DEF Crash, NewConsumer, Consumers
      <3>2. hub' \in Bindings
        BY <2>4 DEF Crash, Bindings
      <3> QED BY <2>4, <3>1, <3>2, RowStep DEF Crash, RoutingInv, Typed
    <2> QED BY <1>7, <2>1, <2>2, <2>3, <2>4
  <1> QED BY <1>1, <1>2, <1>3, <1>4, <1>5, <1>6, <1>7 DEF Next

(* The inductive invariant: a pass has backed whoever it no longer lists.      *)
THEOREM RoutingInvariant == ASSUME Setting PROVE Spec => []RoutingInv
  <1>1. Init => RoutingInv
    BY InitInv
  <1>2. RoutingInv /\ [Next]_routing => RoutingInv'
    BY NextInv
  <1> QED BY <1>1, <1>2, PTL DEF Spec

(* The routed marker never hides a mention or an answer that nothing backs:    *)
(* wherever the Server stops, whatever publishes, marks or wakes fail and      *)
(* however callbacks, scans, acks and restarts interleave.  Only an agent      *)
(* whose own reads or row failed may go without, and such a fault drops it     *)
(* for that message alone.                                                     *)
THEOREM MarkersAreBacked == ASSUME Setting PROVE Spec => []MarkedIsBacked
  <1>1. RoutingInv => MarkedIsBacked
    BY DEF RoutingInv, AllBacked, Backed, MarkedIsBacked
  <1> QED BY <1>1, RoutingInvariant, PTL
=============================================================================
