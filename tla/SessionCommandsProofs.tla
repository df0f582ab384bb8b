------------------------ MODULE SessionCommandsProofs -----------------------
(* TLAPS proofs about SessionCommands, for any commands, delivers, signals and *)
(* callers, any queue capacity and any number of enrollments and retries.      *)
(*                                                                             *)
(* An enrollment's router, stream and dispatcher are touched only by its own   *)
(* steps, so the invariant is one predicate of the three, EnrollmentInv, and   *)
(* a fact about the callers.  A deliver's refusal is observed because the      *)
(* entry made for it leaves the router's refusals only into refused, whatever  *)
(* is in transit (Tracked); a command that came back ok was executed because a *)
(* result in transit names an execution that ended (Answered).                 *)
EXTENDS SessionCommands, TLAPS

-----------------------------------------------------------------------------
(* The pendingCalls of a router: OpenIffInflight, for one router.              *)
CallsInv(r) ==
    \A id \in Cmds :
       /\ \A k \in DOMAIN r.calls[id] : r.calls[id][k] = "open" => k = Len(r.calls[id])
       /\ id \in r.inflight <=> /\ r.calls[id] # <<>>
                                /\ r.calls[id][Len(r.calls[id])] = "open"
       /\ id \in r.inflight => r.att = "live"

(* Results: an id runs once, and a result on the way up or taken by a call is  *)
(* that of an execution that ended.                                            *)
Answered(r, l, d) ==
    /\ \A id \in Ids :
          /\ d.execs[id] = IF d.handled[id] = "no" THEN 0 ELSE 1
          /\ id \in Range(l.up) => d.handled[id] = "done"
    /\ \A id \in Cmds : "ok" \in Range(r.calls[id]) => d.handled[id] = "done"

(* Delivers: while the stream is whole, whatever is in transit or handled has  *)
(* its entry in refusals or was counted, and a result that is no longer on the *)
(* way up was counted.                                                         *)
Under(r, l, d, m) ==
    m \in Range(r.queue) \/ m \in Range(l.down) \/ d.spawned[m] > 0 \/ d.handled[m] # "no"
Tracked(r, l, d) ==
    ~l.broken =>
      \A m \in Delivers :
         /\ Under(r, l, d, m) => m \in r.refusals \/ m \in r.refused
         /\ d.handled[m] = "done" /\ m \notin Range(l.up) => m \in r.refused

EnrollmentInv(r, l, d) ==
    CallsInv(r) /\ Len(r.queue) <= QueueCap /\ Answered(r, l, d) /\ Tracked(r, l, d)

(* A caller waits on a call its router made.                                   *)
WaitersReal ==
    \A c \in Callers : caller[c].pc = "wait" =>
       LET w == caller[c].call IN
       w.e \in Enrollments /\ w.id \in Cmds /\ w.k \in 1..Len(rt[w.e].calls[w.id])

Typed ==
    /\ cur \in 0..MaxEnroll
    /\ rt \in [Enrollments -> Routers]
    /\ link \in [Enrollments -> Links]
    /\ dsp \in [Enrollments -> Dispatchers]
    /\ caller \in [Callers -> [pc : {"idle", "wait"}, call : WaitCalls, tries : 0..MaxTries]]
    /\ sentOps \subseteq Delivers

CommandsInv ==
    /\ Typed
    /\ \A e \in Enrollments : EnrollmentInv(rt[e], link[e], dsp[e])
    /\ WaitersReal

-----------------------------------------------------------------------------
(* Queues and streams: a frame enters at the back and leaves at the front.     *)
LEMMA AppendSet ==
    ASSUME NEW S, NEW s \in Seq(S), NEW x \in S
    PROVE  /\ Append(s, x) \in Seq(S) /\ Len(Append(s, x)) = Len(s) + 1
           /\ Range(Append(s, x)) = Range(s) \union {x}
  <1>1. Append(s, x) \in Seq(S) /\ Len(Append(s, x)) = Len(s) + 1
    OBVIOUS
  <1>2. Range(Append(s, x)) \subseteq Range(s) \union {x}
    BY DEF Range
  <1>3. ASSUME NEW i \in DOMAIN s PROVE s[i] \in Range(Append(s, x))
    <2>1. i \in DOMAIN Append(s, x) /\ Append(s, x)[i] = s[i]
      OBVIOUS
    <2> QED BY <2>1 DEF Range
  <1>4. x \in Range(Append(s, x))
    <2>1. Len(s) + 1 \in DOMAIN Append(s, x) /\ Append(s, x)[Len(s) + 1] = x
      OBVIOUS
    <2> QED BY <2>1 DEF Range
  <1> QED BY <1>1, <1>2, <1>3, <1>4 DEF Range

LEMMA TailSet ==
    ASSUME NEW S, NEW s \in Seq(S), s # <<>>
    PROVE  /\ Head(s) \in S /\ Tail(s) \in Seq(S) /\ Len(Tail(s)) <= Len(s)
           /\ Range(s) = {Head(s)} \union Range(Tail(s))
  <1>1. Head(s) \in S /\ Tail(s) \in Seq(S) /\ Len(Tail(s)) = Len(s) - 1
    OBVIOUS
  <1>2. \A i \in DOMAIN Tail(s) : i + 1 \in DOMAIN s /\ Tail(s)[i] = s[i + 1]
    OBVIOUS
  <1>3. \A i \in DOMAIN s : i # 1 => i - 1 \in DOMAIN Tail(s) /\ s[i] = Tail(s)[i - 1]
    OBVIOUS
  <1>4. 1 \in DOMAIN s /\ s[1] = Head(s)
    OBVIOUS
  <1>5. Range(s) \subseteq {Head(s)} \union Range(Tail(s))
    BY <1>3, <1>4 DEF Range
  <1>6. {Head(s)} \union Range(Tail(s)) \subseteq Range(s)
    BY <1>2, <1>4 DEF Range
  <1> QED BY <1>1, <1>5, <1>6

-----------------------------------------------------------------------------
(* Closing a call in flight (complete, a failed Send) keeps the calls in step  *)
(* with inflight and makes no ok but its own.                                  *)
LEMMA CloseCall ==
    ASSUME NEW r \in Routers, CallsInv(r), NEW id \in r.inflight, NEW o \in {"ok", "failed"}
    PROVE  /\ Closed(r, id, o) \in Routers /\ CallsInv(Closed(r, id, o))
           /\ Closed(r, id, o).queue = r.queue
           /\ Closed(r, id, o).refusals = r.refusals /\ Closed(r, id, o).refused = r.refused
           /\ \A j \in Cmds : Len(Closed(r, id, o).calls[j]) = Len(r.calls[j])
           /\ \A j \in Cmds : "ok" \in Range(Closed(r, id, o).calls[j])
                                => "ok" \in Range(r.calls[j]) \/ (j = id /\ o = "ok")
  <1> DEFINE q == r.calls[id]
             p == [q EXCEPT ![Len(q)] = o]
             n == Closed(r, id, o)
  <1>1. id \in Cmds /\ q \in Seq({"open", "ok", "failed"}) /\ q # <<>> /\ r.calls \in [Cmds -> Seq({"open", "ok", "failed"})]
    BY DEF Routers, CallsInv
  <1>2. /\ p \in Seq({"open", "ok", "failed"}) /\ Len(p) = Len(q) /\ DOMAIN p = DOMAIN q
        /\ \A k \in DOMAIN p : p[k] = IF k = Len(q) THEN o ELSE q[k]
        /\ p # <<>> /\ Len(q) \in DOMAIN q
    BY <1>1
  <1>3. n = [r EXCEPT !.inflight = r.inflight \ {id}, !.calls = [r.calls EXCEPT ![id] = p]]
    BY <1>1 DEF Closed, Routers
  <1> HIDE DEF p
  <1>4. /\ n \in Routers /\ n.queue = r.queue /\ n.refusals = r.refusals /\ n.refused = r.refused
        /\ n.att = r.att /\ n.inflight = r.inflight \ {id}
        /\ n.calls[id] = p /\ \A j \in Cmds \ {id} : n.calls[j] = r.calls[j]
    <2>1. n = [att |-> r.att, sending |-> r.sending, queue |-> r.queue, inflight |-> r.inflight \ {id},
               calls |-> [r.calls EXCEPT ![id] = p], refusals |-> r.refusals, refused |-> r.refused]
      BY <1>3 DEF Routers
    <2>2. [r.calls EXCEPT ![id] = p] \in [Cmds -> Seq({"open", "ok", "failed"})]
      BY <1>1, <1>2
    <2> QED BY <1>1, <2>1, <2>2 DEF Routers
  <1> HIDE DEF n
  <1>5. CallsInv(n)
    <2> SUFFICES ASSUME NEW j \in Cmds
                 PROVE  /\ \A k \in DOMAIN n.calls[j] : n.calls[j][k] = "open" => k = Len(n.calls[j])
                        /\ j \in n.inflight <=> n.calls[j] # <<>> /\ n.calls[j][Len(n.calls[j])] = "open"
                        /\ j \in n.inflight => n.att = "live"
      BY DEF CallsInv
    <2>1. CASE j = id
      BY <2>1, <1>1, <1>2, <1>4 DEF CallsInv
    <2>2. CASE j # id
      BY <2>2, <1>1, <1>4 DEF CallsInv
    <2> QED BY <2>1, <2>2
  <1>6. \A j \in Cmds : Len(n.calls[j]) = Len(r.calls[j])
    BY <1>2, <1>4
  <1>7. ASSUME NEW j \in Cmds, "ok" \in Range(n.calls[j])
        PROVE  "ok" \in Range(r.calls[j]) \/ (j = id /\ o = "ok")
    <2>1. CASE j # id
      BY <2>1, <1>4, <1>7
    <2>2. CASE j = id
      <3>1. PICK k \in DOMAIN p : p[k] = "ok"
        BY <2>2, <1>4, <1>7 DEF Range
      <3> QED BY <3>1, <2>2, <1>2 DEF Range
    <2> QED BY <2>1, <2>2
  <1> QED BY <1>4, <1>5, <1>6, <1>7 DEF n

(* detach fails every open call and leaves none in flight.                     *)
LEMMA DetachCalls ==
    ASSUME NEW r \in Routers, CallsInv(r)
    PROVE  /\ Detached(r) \in Routers /\ CallsInv(Detached(r))
           /\ Detached(r).queue = r.queue
           /\ Detached(r).refusals = r.refusals /\ Detached(r).refused = r.refused
           /\ \A j \in Cmds : Len(Detached(r).calls[j]) = Len(r.calls[j])
           /\ \A j \in Cmds : "ok" \in Range(Detached(r).calls[j]) => "ok" \in Range(r.calls[j])
  <1> DEFINE n == Detached(r)
             p(j) == [k \in DOMAIN r.calls[j] |-> IF r.calls[j][k] = "open" THEN "failed" ELSE r.calls[j][k]]
  <1>1. \A j \in Cmds : r.calls[j] \in Seq({"open", "ok", "failed"})
    BY DEF Routers
  <1>2. \A j \in Cmds : p(j) \in Seq({"open", "ok", "failed"}) /\ Len(p(j)) = Len(r.calls[j])
                          /\ DOMAIN p(j) = DOMAIN r.calls[j] /\ DOMAIN p(j) = 1..Len(p(j))
                          /\ \A k \in DOMAIN p(j) : p(j)[k] # "open" /\ (p(j)[k] = "ok" => r.calls[j][k] = "ok")
    BY <1>1
  <1>3. /\ n = [r EXCEPT !.att = "gone", !.inflight = {}, !.calls = [j \in Cmds |-> p(j)]]
    BY DEF Detached
  <1> HIDE DEF p
  <1>4. /\ n \in Routers /\ n.queue = r.queue /\ n.refusals = r.refusals /\ n.refused = r.refused
        /\ n.inflight = {} /\ \A j \in Cmds : n.calls[j] = p(j)
    <2>1. n = [att |-> "gone", sending |-> r.sending, queue |-> r.queue, inflight |-> {},
               calls |-> [j \in Cmds |-> p(j)], refusals |-> r.refusals, refused |-> r.refused]
      BY <1>3 DEF Routers
    <2>2. [j \in Cmds |-> p(j)] \in [Cmds -> Seq({"open", "ok", "failed"})]
      BY <1>2
    <2> QED BY <2>1, <2>2 DEF Routers
  <1> HIDE DEF n
  <1>5. CallsInv(n)
    <2> SUFFICES ASSUME NEW j \in Cmds
                 PROVE  /\ \A k \in DOMAIN p(j) : p(j)[k] = "open" => k = Len(p(j))
                        /\ j \in n.inflight <=> p(j) # <<>> /\ p(j)[Len(p(j))] = "open"
                        /\ j \in n.inflight => n.att = "live"
      BY <1>4 DEF CallsInv
    <2>1. p(j) \in Seq({"open", "ok", "failed"}) /\ \A k \in DOMAIN p(j) : p(j)[k] # "open"
      BY <1>2
    <2>2. p(j) # <<>> => Len(p(j)) \in DOMAIN p(j)
      BY <2>1
    <2> QED BY <2>1, <2>2, <1>4
  <1>6. ASSUME NEW j \in Cmds, "ok" \in Range(n.calls[j]) PROVE "ok" \in Range(r.calls[j])
    BY <1>6, <1>2, <1>4 DEF Range
  <1> QED BY <1>2, <1>4, <1>5, <1>6 DEF n

-----------------------------------------------------------------------------
(* A step that gives one enrollment a new router, stream and dispatcher, and   *)
(* drops no call, keeps the invariant when the new ones satisfy theirs.        *)
Moves(e, r, l, d) ==
    /\ rt' = [rt EXCEPT ![e] = r]
    /\ link' = [link EXCEPT ![e] = l]
    /\ dsp' = [dsp EXCEPT ![e] = d]

LEMMA OneEnrollment ==
    ASSUME CommandsInv, NEW e \in Enrollments,
           NEW r \in Routers, NEW l \in Links, NEW d \in Dispatchers,
           Moves(e, r, l, d), EnrollmentInv(r, l, d),
           \A j \in Cmds : Len(r.calls[j]) >= Len(rt[e].calls[j]),
           cur' = cur, sentOps' \subseteq Delivers,
           \/ caller' = caller
           \/ /\ caller' \in [Callers -> [pc : {"idle", "wait"}, call : WaitCalls, tries : 0..MaxTries]]
              /\ WaitersReal'
    PROVE  CommandsInv'
  <1>1. /\ rt' \in [Enrollments -> Routers] /\ link' \in [Enrollments -> Links]
        /\ dsp' \in [Enrollments -> Dispatchers]
        /\ rt'[e] = r /\ link'[e] = l /\ dsp'[e] = d
        /\ \A f \in Enrollments \ {e} : rt'[f] = rt[f] /\ link'[f] = link[f] /\ dsp'[f] = dsp[f]
    BY DEF CommandsInv, Typed, Moves
  <1>2. Typed'
    BY <1>1 DEF CommandsInv, Typed
  <1>3. \A f \in Enrollments : EnrollmentInv(rt'[f], link'[f], dsp'[f])
    BY <1>1 DEF CommandsInv
  <1>4. ASSUME caller' = caller, NEW c \in Callers, caller[c].pc = "wait"
        PROVE  LET w == caller[c].call IN
               w.e \in Enrollments /\ w.id \in Cmds /\ w.k \in 1..Len(rt'[w.e].calls[w.id])
    <2> DEFINE w == caller[c].call
    <2>1. w.e \in Enrollments /\ w.id \in Cmds /\ w.k \in 1..Len(rt[w.e].calls[w.id])
      BY <1>4 DEF CommandsInv, WaitersReal
    <2>2. Len(rt'[w.e].calls[w.id]) \in Nat /\ Len(rt[w.e].calls[w.id]) \in Nat
      <3>1. rt[w.e] \in Routers /\ rt'[w.e] \in Routers
        BY <1>1, <2>1 DEF CommandsInv, Typed
      <3> HIDE DEF w
      <3> QED BY <2>1, <3>1 DEF Routers
    <2> DEFINE a == Len(rt[w.e].calls[w.id])
               b == Len(rt'[w.e].calls[w.id])
    <2>3. w.e = e => b >= a
      BY <1>1, <2>1
    <2>4. w.e # e => b = a
      BY <1>1, <2>1
    <2>5. a \in Nat /\ b \in Nat /\ w.k \in 1..a
      BY <2>1, <2>2
    <2> HIDE DEF a, b, w
    <2>6. w.k \in 1..b
      BY <2>3, <2>4, <2>5
    <2> QED BY <2>1, <2>6 DEF a, b, w
  <1>5. WaitersReal'
    BY <1>4 DEF WaitersReal
  <1>6. (\A f \in Enrollments : EnrollmentInv(rt[f], link[f], dsp[f]))'
    BY <1>3 DEF EnrollmentInv, CallsInv, Answered, Tracked, Under
  <1> QED BY <1>2, <1>5, <1>6 DEF CommandsInv

(* What the invariant says of one enrollment.                                  *)
LEMMA AtEnrollment ==
    ASSUME CommandsInv, NEW e \in Enrollments
    PROVE  /\ rt[e] \in Routers /\ link[e] \in Links /\ dsp[e] \in Dispatchers
           /\ EnrollmentInv(rt[e], link[e], dsp[e])
           /\ rt = [rt EXCEPT ![e] = rt[e]]
           /\ link = [link EXCEPT ![e] = link[e]]
           /\ dsp = [dsp EXCEPT ![e] = dsp[e]]
  BY DEF CommandsInv, Typed

(* Enroll: the invariant is about every enrollment there will be.              *)
LEMMA EnrollStep ==
    ASSUME CommandsInv, Enroll PROVE CommandsInv'
  <1>1. Typed'
    BY BoundsNat DEF CommandsInv, Typed, Enroll
  <1> QED BY <1>1 DEF CommandsInv, Enroll, WaitersReal

LEMMA AttachStep ==
    ASSUME CommandsInv, Attach PROVE CommandsInv'
  <1> DEFINE r == [rt[cur] EXCEPT !.att = "live", !.sending = TRUE]
  <1>1. cur \in Enrollments
    BY BoundsNat DEF CommandsInv, Typed, Attach, Enrollments
  <1>2. /\ rt[cur] \in Routers /\ link[cur] \in Links /\ dsp[cur] \in Dispatchers
        /\ EnrollmentInv(rt[cur], link[cur], dsp[cur])
    BY <1>1, AtEnrollment
  <1>3. /\ r \in Routers /\ r.calls = rt[cur].calls /\ r.queue = rt[cur].queue
        /\ r.inflight = rt[cur].inflight /\ r.att = "live"
        /\ r.refusals = rt[cur].refusals /\ r.refused = rt[cur].refused
    BY <1>2 DEF Routers
  <1>4. Moves(cur, r, link[cur], dsp[cur])
    BY <1>1, AtEnrollment DEF Moves, Attach
  <1> HIDE DEF r
  <1>5. EnrollmentInv(r, link[cur], dsp[cur])
    BY <1>2, <1>3 DEF EnrollmentInv, CallsInv, Answered, Tracked, Under
  <1>6. \A j \in Cmds : Len(r.calls[j]) >= Len(rt[cur].calls[j])
    BY <1>2, <1>3 DEF Routers
  <1> QED BY <1>1, <1>2, <1>3, <1>4, <1>5, <1>6, OneEnrollment DEF Attach, CommandsInv, Typed

LEMMA DetachStep ==
    ASSUME CommandsInv, NEW e \in Enrollments, Detach(e) PROVE CommandsInv'
  <1> DEFINE r == Detached(rt[e])
  <1>2. /\ rt[e] \in Routers /\ link[e] \in Links /\ dsp[e] \in Dispatchers
        /\ EnrollmentInv(rt[e], link[e], dsp[e])
    BY AtEnrollment
  <1>3. /\ r \in Routers /\ CallsInv(r) /\ r.queue = rt[e].queue
        /\ r.refusals = rt[e].refusals /\ r.refused = rt[e].refused
        /\ \A j \in Cmds : Len(r.calls[j]) = Len(rt[e].calls[j])
        /\ \A j \in Cmds : "ok" \in Range(r.calls[j]) => "ok" \in Range(rt[e].calls[j])
    BY <1>2, DetachCalls DEF EnrollmentInv
  <1>4. Moves(e, r, link[e], dsp[e])
    BY AtEnrollment DEF Moves, Detach
  <1> HIDE DEF r
  <1>5. EnrollmentInv(r, link[e], dsp[e])
    BY <1>2, <1>3 DEF EnrollmentInv, Answered, Tracked, Under
  <1>6. \A j \in Cmds : Len(r.calls[j]) >= Len(rt[e].calls[j])
    BY <1>2, <1>3 DEF Routers
  <1> QED BY <1>2, <1>3, <1>4, <1>5, <1>6, OneEnrollment DEF Detach, CommandsInv, Typed

-----------------------------------------------------------------------------
(* The callers: nothing but a Dispatch changes a router.                       *)
LEMMA CallerStep ==
    ASSUME CommandsInv, NEW c \in Callers, UNCHANGED <<cur, rt, link, dsp, sentOps>>,
           NEW n \in [pc : {"idle", "wait"}, call : WaitCalls, tries : 0..MaxTries],
           caller' = [caller EXCEPT ![c] = n],
           n.pc = "wait" => \/ n.call = caller[c].call /\ caller[c].pc = "wait"
                            \/ /\ n.call.e \in Enrollments /\ n.call.id \in Cmds
                               /\ n.call.k \in 1..Len(rt[n.call.e].calls[n.call.id])
    PROVE  CommandsInv'
  <1>1. Typed'
    BY DEF CommandsInv, Typed
  <1>2. ASSUME NEW b \in Callers, caller'[b].pc = "wait"
        PROVE  LET w == caller'[b].call IN
               w.e \in Enrollments /\ w.id \in Cmds /\ w.k \in 1..Len(rt[w.e].calls[w.id])
    <2>1. CASE b = c
      <3>1. caller'[b] = n
        BY <2>1 DEF CommandsInv, Typed
      <3> QED BY <3>1, <1>2, <2>1 DEF CommandsInv, WaitersReal
    <2>2. CASE b # c
      <3>1. caller'[b] = caller[b]
        BY <2>2 DEF CommandsInv, Typed
      <3> QED BY <3>1, <1>2 DEF CommandsInv, WaitersReal
    <2> QED BY <2>1, <2>2
  <1>3. WaitersReal'
    BY <1>2 DEF WaitersReal
  <1> QED BY <1>1, <1>3 DEF CommandsInv

LEMMA DispatchJoinStep ==
    ASSUME CommandsInv, NEW c \in Callers, NEW id \in Cmds, DispatchJoin(c, id)
    PROVE  CommandsInv'
  <1> DEFINE k == Len(rt[cur].calls[id])
             n == [pc |-> "wait", call |-> [e |-> cur, id |-> id, k |-> k], tries |-> caller[c].tries + 1]
  <1>1. cur \in Enrollments
    BY BoundsNat DEF CommandsInv, Typed, DispatchJoin, Enrollments
  <1>2. rt[cur].calls[id] \in Seq({"open", "ok", "failed"}) /\ rt[cur].calls[id] # <<>>
    BY <1>1, AtEnrollment DEF EnrollmentInv, CallsInv, Routers, DispatchJoin, Joins
  <1>3. k \in Nat /\ k \in 1..Len(rt[cur].calls[id])
    BY <1>2
  <1>4. caller[c].tries + 1 \in 0..MaxTries
    BY BoundsNat DEF CommandsInv, Typed, DispatchJoin
  <1>5. caller' = [caller EXCEPT ![c] = n]
    BY DEF DispatchJoin, Waiting
  <1> HIDE DEF k
  <1>6. n \in [pc : {"idle", "wait"}, call : WaitCalls, tries : 0..MaxTries]
    BY <1>1, <1>3, <1>4 DEF WaitCalls
  <1>7. n.call.e = cur /\ n.call.id = id /\ n.call.k = k
    OBVIOUS
  <1>8. UNCHANGED <<cur, rt, link, dsp, sentOps>>
    BY DEF DispatchJoin
  <1> HIDE DEF n
  <1> QED BY <1>1, <1>3, <1>5, <1>6, <1>7, <1>8, CallerStep

LEMMA DispatchRefuseStep ==
    ASSUME CommandsInv, NEW c \in Callers, NEW id \in Cmds, DispatchRefuse(c, id)
    PROVE  CommandsInv'
  <1> DEFINE n == [caller[c] EXCEPT !.tries = @ + 1]
  <1>1. caller[c].tries + 1 \in 0..MaxTries
    BY BoundsNat DEF CommandsInv, Typed, DispatchRefuse
  <1>2. caller[c] \in [pc : {"idle", "wait"}, call : WaitCalls, tries : 0..MaxTries]
    BY DEF CommandsInv, Typed
  <1>3. n \in [pc : {"idle", "wait"}, call : WaitCalls, tries : 0..MaxTries] /\ n.pc = "idle"
    BY <1>1, <1>2 DEF DispatchRefuse
  <1>4. caller' = [caller EXCEPT ![c] = n] /\ UNCHANGED <<cur, rt, link, dsp, sentOps>>
    BY DEF DispatchRefuse
  <1> HIDE DEF n
  <1> QED BY <1>3, <1>4, CallerStep

LEMMA ReturnStep ==
    ASSUME CommandsInv, NEW c \in Callers, Return(c) \/ TimeOut(c)
    PROVE  CommandsInv'
  <1> DEFINE n == [caller[c] EXCEPT !.pc = "idle", !.call = NoCall]
  <1>1. caller[c] \in [pc : {"idle", "wait"}, call : WaitCalls, tries : 0..MaxTries]
    BY DEF CommandsInv, Typed
  <1>2. NoCall \in WaitCalls
    BY DEF NoCall, WaitCalls
  <1>3. n \in [pc : {"idle", "wait"}, call : WaitCalls, tries : 0..MaxTries] /\ n.pc = "idle"
    BY <1>1, <1>2
  <1>4. caller' = [caller EXCEPT ![c] = n] /\ UNCHANGED <<cur, rt, link, dsp, sentOps>>
    BY DEF Return, TimeOut
  <1> HIDE DEF n
  <1> QED BY <1>3, <1>4, CallerStep

(* A command registered and queued: its call is the newest and the only open   *)
(* one of its id.                                                              *)
LEMMA RegisterCall ==
    ASSUME NEW r \in Routers, CallsInv(r), r.att = "live", NEW id \in Cmds, id \notin r.inflight
    PROVE  LET n == Registered(r, id) IN
           /\ n \in Routers /\ CallsInv(n)
           /\ n.refusals = r.refusals /\ n.refused = r.refused
           /\ Len(n.queue) = Len(r.queue) + 1 /\ Range(n.queue) = Range(r.queue) \union {id}
           /\ \A j \in Cmds : Len(n.calls[j]) >= Len(r.calls[j])
           /\ Len(n.calls[id]) = Len(r.calls[id]) + 1
           /\ \A j \in Cmds : "ok" \in Range(n.calls[j]) => "ok" \in Range(r.calls[j])
  <1> DEFINE n == Registered(r, id)
             p == Append(r.calls[id], "open")
  <1>1. /\ r.calls \in [Cmds -> Seq({"open", "ok", "failed"})]
        /\ r.queue \in Seq(Frames) /\ id \in Frames
    BY DEF Routers, Frames, Ids
  <1>2. /\ Append(r.queue, id) \in Seq(Frames) /\ Len(Append(r.queue, id)) = Len(r.queue) + 1
        /\ Range(Append(r.queue, id)) = Range(r.queue) \union {id}
    BY <1>1, AppendSet
  <1>3. /\ p \in Seq({"open", "ok", "failed"}) /\ Len(p) = Len(r.calls[id]) + 1
        /\ Range(p) = Range(r.calls[id]) \union {"open"}
    BY <1>1, AppendSet
  <1>4. /\ \A k \in DOMAIN p : p[k] = IF k = Len(p) THEN "open" ELSE r.calls[id][k]
        /\ \A k \in DOMAIN p : k # Len(p) => k \in DOMAIN r.calls[id]
        /\ p # <<>> /\ Len(p) \in DOMAIN p
    <2>1. r.calls[id] \in Seq({"open", "ok", "failed"})
      BY <1>1
    <2> DEFINE q == r.calls[id]
    <2> HIDE DEF q
    <2>2. /\ \A k \in DOMAIN Append(q, "open") : Append(q, "open")[k] = IF k = Len(q) + 1 THEN "open" ELSE q[k]
          /\ \A k \in DOMAIN Append(q, "open") : k # Len(q) + 1 => k \in DOMAIN q
          /\ Append(q, "open") # <<>> /\ Len(q) + 1 \in DOMAIN Append(q, "open")
      BY <2>1 DEF q
    <2> QED BY <2>1, <2>2, <1>3 DEF q
  <1>5. \A k \in DOMAIN r.calls[id] : r.calls[id][k] # "open"
    BY <1>1 DEF CallsInv
  <1>6. n = [att |-> r.att, sending |-> r.sending, queue |-> Append(r.queue, id),
             inflight |-> r.inflight \union {id}, calls |-> [r.calls EXCEPT ![id] = p],
             refusals |-> r.refusals, refused |-> r.refused]
    <2>1. n = [r EXCEPT !.inflight = r.inflight \union {id}, !.queue = Append(r.queue, id),
                        !.calls = [r.calls EXCEPT ![id] = p]]
      BY <1>1 DEF Registered, Routers
    <2> HIDE DEF p, n
    <2> QED BY <2>1 DEF Routers
  <1> HIDE DEF p
  <1>7. [r.calls EXCEPT ![id] = p] \in [Cmds -> Seq({"open", "ok", "failed"})]
    BY <1>1, <1>3
  <1>8. /\ n \in Routers /\ n.queue = Append(r.queue, id) /\ n.att = "live"
        /\ n.refusals = r.refusals /\ n.refused = r.refused /\ n.inflight = r.inflight \union {id}
        /\ n.calls[id] = p /\ \A j \in Cmds \ {id} : n.calls[j] = r.calls[j]
    BY <1>1, <1>2, <1>6, <1>7 DEF Routers
  <1> HIDE DEF n
  <1>9. CallsInv(n)
    <2> SUFFICES ASSUME NEW j \in Cmds
                 PROVE  /\ \A k \in DOMAIN n.calls[j] : n.calls[j][k] = "open" => k = Len(n.calls[j])
                        /\ j \in n.inflight <=> n.calls[j] # <<>> /\ n.calls[j][Len(n.calls[j])] = "open"
                        /\ j \in n.inflight => n.att = "live"
      BY DEF CallsInv
    <2>1. CASE j = id
      BY <2>1, <1>4, <1>5, <1>8
    <2>2. CASE j # id
      BY <2>2, <1>8 DEF CallsInv
    <2> QED BY <2>1, <2>2
  <1>10. \A j \in Cmds : Len(n.calls[j]) >= Len(r.calls[j])
    <2> SUFFICES ASSUME NEW j \in Cmds PROVE Len(n.calls[j]) >= Len(r.calls[j])
      OBVIOUS
    <2>1. Len(r.calls[j]) \in Nat
      BY <1>1
    <2>2. j = id => Len(n.calls[j]) = Len(r.calls[j]) + 1
      BY <1>3, <1>8
    <2>3. j # id => Len(n.calls[j]) = Len(r.calls[j])
      BY <1>8
    <2> QED BY <2>1, <2>2, <2>3
  <1>11. \A j \in Cmds : "ok" \in Range(n.calls[j]) => "ok" \in Range(r.calls[j])
    BY <1>3, <1>8
  <1> QED BY <1>2, <1>3, <1>8, <1>9, <1>10, <1>11 DEF n

LEMMA DispatchStep ==
    ASSUME CommandsInv, NEW c \in Callers, NEW id \in Cmds, Dispatch(c, id)
    PROVE  CommandsInv'
  <1> DEFINE r == Registered(rt[cur], id)
             k == Len(rt[cur].calls[id]) + 1
             w == [e |-> cur, id |-> id, k |-> k]
  <1>1. cur \in Enrollments
    BY BoundsNat DEF CommandsInv, Typed, Dispatch, Enrollments
  <1>2. /\ rt[cur] \in Routers /\ link[cur] \in Links /\ dsp[cur] \in Dispatchers
        /\ EnrollmentInv(rt[cur], link[cur], dsp[cur])
    BY <1>1, AtEnrollment
  <1>3. /\ r \in Routers /\ CallsInv(r) /\ r.refusals = rt[cur].refusals /\ r.refused = rt[cur].refused
        /\ Len(r.queue) = Len(rt[cur].queue) + 1 /\ Range(r.queue) = Range(rt[cur].queue) \union {id}
        /\ \A j \in Cmds : Len(r.calls[j]) >= Len(rt[cur].calls[j])
        /\ Len(r.calls[id]) = k
        /\ \A j \in Cmds : "ok" \in Range(r.calls[j]) => "ok" \in Range(rt[cur].calls[j])
    BY <1>2, RegisterCall DEF EnrollmentInv, Dispatch, Joins
  <1>4. Moves(cur, r, link[cur], dsp[cur])
    BY <1>1, AtEnrollment DEF Moves, Dispatch
  <1>5. Len(rt[cur].queue) \in Nat /\ k \in Nat /\ k >= 1
    BY <1>2 DEF Routers
  <1>6. caller[c].tries + 1 \in 0..MaxTries
    BY BoundsNat DEF CommandsInv, Typed, Dispatch
  <1>7. caller' = [caller EXCEPT ![c] = [pc |-> "wait", call |-> w, tries |-> caller[c].tries + 1]]
    BY DEF Dispatch, Waiting
  <1> HIDE DEF r, k
  <1>8. EnrollmentInv(r, link[cur], dsp[cur])
    <2>1. Len(r.queue) <= QueueCap
      BY <1>2, <1>3, <1>5, BoundsNat DEF Dispatch, Full
    <2>2. id \notin Delivers
      BY FramesApart
    <2> QED BY <1>2, <1>3, <2>1, <2>2 DEF EnrollmentInv, Answered, Tracked, Under
  <1>9. /\ w \in WaitCalls /\ w.e = cur /\ w.id = id /\ w.k = k
    BY <1>1, <1>5 DEF WaitCalls
  <1> HIDE DEF w
  <1>10. /\ caller' \in [Callers -> [pc : {"idle", "wait"}, call : WaitCalls, tries : 0..MaxTries]]
         /\ caller'[c].call = w /\ \A b \in Callers \ {c} : caller'[b] = caller[b]
    BY <1>6, <1>7, <1>9 DEF CommandsInv, Typed
  <1>11. ASSUME NEW b \in Callers, caller'[b].pc = "wait"
         PROVE  LET v == caller'[b].call IN
                v.e \in Enrollments /\ v.id \in Cmds /\ v.k \in 1..Len(rt'[v.e].calls[v.id])
    <2> DEFINE v == caller'[b].call
    <2>1. rt'[cur] = r /\ \A f \in Enrollments \ {cur} : rt'[f] = rt[f]
      BY <1>1, <1>4 DEF Moves, CommandsInv, Typed
    <2>2. CASE b = c
      <3>1. v = w
        BY <1>10, <2>2
      <3>2. k \in 1..Len(rt'[cur].calls[id])
        BY <2>1, <1>3, <1>5
      <3> QED BY <3>1, <3>2, <1>1, <1>9
    <2>3. CASE b # c
      <3>1. v = caller[b].call /\ caller[b].pc = "wait"
        BY <1>10, <1>11, <2>3
      <3>2. v.e \in Enrollments /\ v.id \in Cmds /\ v.k \in 1..Len(rt[v.e].calls[v.id])
        BY <3>1 DEF CommandsInv, WaitersReal
      <3> DEFINE x == Len(rt[v.e].calls[v.id])
                 y == Len(rt'[v.e].calls[v.id])
      <3>3. x \in Nat /\ v.k \in 1..x
        <4>1. rt[v.e] \in Routers
          BY <3>2 DEF CommandsInv, Typed
        <4> HIDE DEF v
        <4> QED BY <3>2, <4>1 DEF Routers
      <3>4. v.e # cur => y = x
        BY <2>1, <3>2
      <3>5. v.e = cur => y >= x /\ y \in Nat
        BY <2>1, <3>2, <1>3 DEF Routers
      <3> HIDE DEF x, y, v
      <3>6. v.k \in 1..y
        BY <3>3, <3>4, <3>5
      <3> QED BY <3>2, <3>6 DEF x, y, v
    <2> QED BY <2>2, <2>3
  <1>12. WaitersReal'
    BY <1>11 DEF WaitersReal
  <1> QED BY <1>1, <1>2, <1>3, <1>4, <1>8, <1>10, <1>12, OneEnrollment DEF Dispatch, CommandsInv, Typed

LEMMA Send1Step ==
    ASSUME CommandsInv, NEW m \in Delivers, Send1(m) PROVE CommandsInv'
  <1> DEFINE r == Tracking(rt[cur], m)
  <1>1. cur \in Enrollments
    BY BoundsNat DEF CommandsInv, Typed, Send1, Enrollments
  <1>2. /\ rt[cur] \in Routers /\ link[cur] \in Links /\ dsp[cur] \in Dispatchers
        /\ EnrollmentInv(rt[cur], link[cur], dsp[cur])
    BY <1>1, AtEnrollment
  <1>3. m \in Frames /\ rt[cur].queue \in Seq(Frames)
    BY <1>2 DEF Frames, Ids, Routers
  <1>4. /\ Append(rt[cur].queue, m) \in Seq(Frames)
        /\ Len(Append(rt[cur].queue, m)) = Len(rt[cur].queue) + 1
        /\ Range(Append(rt[cur].queue, m)) = Range(rt[cur].queue) \union {m}
    BY <1>3, AppendSet
  <1>5. /\ r \in Routers /\ r.calls = rt[cur].calls /\ r.queue = Append(rt[cur].queue, m)
        /\ r.inflight = rt[cur].inflight /\ r.att = rt[cur].att
        /\ r.refusals = rt[cur].refusals \union {m} /\ r.refused = rt[cur].refused
    BY <1>2, <1>4 DEF Routers, Tracking
  <1>6. Moves(cur, r, link[cur], dsp[cur])
    BY <1>1, AtEnrollment DEF Moves, Send1
  <1> HIDE DEF r
  <1>7. EnrollmentInv(r, link[cur], dsp[cur])
    <2>1. Len(r.queue) <= QueueCap
      BY <1>3, <1>4, <1>5, BoundsNat DEF Send1, Full
    <2> QED BY <1>2, <1>4, <1>5, <2>1 DEF EnrollmentInv, CallsInv, Answered, Tracked, Under
  <1>8. \A j \in Cmds : Len(r.calls[j]) >= Len(rt[cur].calls[j])
    BY <1>2, <1>5 DEF Routers
  <1>9. sentOps' \subseteq Delivers
    BY DEF Send1, CommandsInv, Typed
  <1> QED BY <1>1, <1>2, <1>5, <1>6, <1>7, <1>8, <1>9, OneEnrollment DEF Send1

LEMMA PushStep ==
    ASSUME CommandsInv, NEW s \in Signals, Push(s) PROVE CommandsInv'
  <1> DEFINE r == [rt[cur] EXCEPT !.queue = Append(@, s)]
  <1>1. cur \in Enrollments
    BY BoundsNat DEF CommandsInv, Typed, Push, Enrollments
  <1>2. /\ rt[cur] \in Routers /\ link[cur] \in Links /\ dsp[cur] \in Dispatchers
        /\ EnrollmentInv(rt[cur], link[cur], dsp[cur])
    BY <1>1, AtEnrollment
  <1>3. s \in Frames /\ rt[cur].queue \in Seq(Frames) /\ s \notin Delivers
    BY <1>2, FramesApart DEF Frames, Routers
  <1>4. /\ Append(rt[cur].queue, s) \in Seq(Frames)
        /\ Len(Append(rt[cur].queue, s)) = Len(rt[cur].queue) + 1
        /\ Range(Append(rt[cur].queue, s)) = Range(rt[cur].queue) \union {s}
    BY <1>3, AppendSet
  <1>5. /\ r \in Routers /\ r.calls = rt[cur].calls /\ r.queue = Append(rt[cur].queue, s)
        /\ r.inflight = rt[cur].inflight /\ r.att = rt[cur].att
        /\ r.refusals = rt[cur].refusals /\ r.refused = rt[cur].refused
    BY <1>2, <1>4 DEF Routers
  <1>6. Moves(cur, r, link[cur], dsp[cur])
    BY <1>1, AtEnrollment DEF Moves, Push
  <1> HIDE DEF r
  <1>7. EnrollmentInv(r, link[cur], dsp[cur])
    <2>1. Len(r.queue) <= QueueCap
      BY <1>3, <1>4, <1>5, BoundsNat DEF Push, Full
    <2> QED BY <1>2, <1>3, <1>4, <1>5, <2>1 DEF EnrollmentInv, CallsInv, Answered, Tracked, Under
  <1>8. \A j \in Cmds : Len(r.calls[j]) >= Len(rt[cur].calls[j])
    BY <1>2, <1>5 DEF Routers
  <1> QED BY <1>1, <1>2, <1>5, <1>6, <1>7, <1>8, OneEnrollment DEF Push, CommandsInv, Typed

-----------------------------------------------------------------------------
(* The router's goroutines.                                                    *)
LEMMA SenderSendStep ==
    ASSUME CommandsInv, NEW e \in Enrollments, SenderSend(e) PROVE CommandsInv'
  <1> DEFINE q == rt[e].queue
             r == [rt[e] EXCEPT !.queue = Tail(@)]
             f == Head(q)
  <1>1. /\ rt[e] \in Routers /\ link[e] \in Links /\ dsp[e] \in Dispatchers
        /\ EnrollmentInv(rt[e], link[e], dsp[e])
    BY AtEnrollment
  <1>2. q \in Seq(Frames) /\ q # <<>>
    BY <1>1 DEF SenderSend, Routers
  <1>3. f \in Frames /\ Tail(q) \in Seq(Frames) /\ Len(Tail(q)) <= Len(q)
        /\ Range(q) = {f} \union Range(Tail(q))
    BY <1>2, TailSet
  <1>4. /\ r \in Routers /\ r.calls = rt[e].calls /\ r.queue = Tail(q)
        /\ r.inflight = rt[e].inflight /\ r.att = rt[e].att
        /\ r.refusals = rt[e].refusals /\ r.refused = rt[e].refused
    BY <1>1, <1>3 DEF Routers
  <1>5. Len(r.queue) <= QueueCap
    <2>1. Len(q) \in Nat /\ Len(Tail(q)) \in Nat /\ Len(q) <= QueueCap
      BY <1>1, <1>2, <1>3 DEF EnrollmentInv
    <2> QED BY <2>1, <1>3, <1>4, BoundsNat
  <1>6. CallsInv(r)
    BY <1>1, <1>4 DEF EnrollmentInv, CallsInv
  <1>7. CASE /\ link[e].broken
             /\ rt' = [rt EXCEPT ![e] = [FailFrame(r, f) EXCEPT !.sending = FALSE]]
             /\ UNCHANGED link
    <2> DEFINE g == FailFrame(r, f)
               n == [g EXCEPT !.sending = FALSE]
    <2>1. /\ g \in Routers /\ CallsInv(g) /\ g.queue = r.queue
          /\ \A j \in Cmds : Len(g.calls[j]) = Len(r.calls[j])
          /\ \A j \in Cmds : "ok" \in Range(g.calls[j]) => "ok" \in Range(r.calls[j])
      <3>1. CASE f \in Cmds /\ f \in r.inflight
        <4>1. g = Closed(r, f, "failed")
          BY <3>1 DEF FailFrame
        <4> HIDE DEF g, r, f
        <4> QED BY <4>1, <3>1, <1>4, <1>6, CloseCall
      <3>2. CASE ~(f \in Cmds /\ f \in r.inflight)
        <4>1. g = [r EXCEPT !.refusals = r.refusals \ {f}]
          BY <3>2 DEF FailFrame
        <4> HIDE DEF g, r, f
        <4>2. /\ g \in Routers /\ g.calls = r.calls /\ g.queue = r.queue
              /\ g.inflight = r.inflight /\ g.att = r.att
          BY <4>1, <1>4 DEF Routers
        <4> QED BY <4>2, <1>6 DEF CallsInv
      <3> QED BY <3>1, <3>2
    <2>2. rt' = [rt EXCEPT ![e] = n]
      BY <1>7
    <2> HIDE DEF g, r, f
    <2>3. /\ n \in Routers /\ n.calls = g.calls /\ n.queue = g.queue
          /\ n.inflight = g.inflight /\ n.att = g.att
      BY <2>1 DEF Routers
    <2> HIDE DEF n
    <2>4. EnrollmentInv(n, link[e], dsp[e])
      BY <1>1, <1>4, <1>5, <1>7, <2>1, <2>3 DEF EnrollmentInv, CallsInv, Answered, Tracked, Under
    <2>5. \A j \in Cmds : Len(n.calls[j]) >= Len(rt[e].calls[j])
      BY <1>1, <1>4, <2>1, <2>3 DEF Routers
    <2>6. Moves(e, n, link[e], dsp[e])
      BY <2>2, <1>7, AtEnrollment DEF Moves, SenderSend
    <2> QED BY <1>1, <2>3, <2>4, <2>5, <2>6, OneEnrollment DEF SenderSend, CommandsInv, Typed
  <1>8. CASE /\ rt' = [rt EXCEPT ![e] = r]
             /\ link' = IF link[e].broken THEN link ELSE [link EXCEPT ![e].down = Append(@, f)]
    <2> DEFINE l == IF link[e].broken THEN link[e] ELSE [link[e] EXCEPT !.down = Append(@, f)]
    <2>1. link[e].down \in Seq(Frames)
      BY <1>1 DEF Links
    <2>2. /\ Append(link[e].down, f) \in Seq(Frames)
          /\ Range(Append(link[e].down, f)) = Range(link[e].down) \union {f}
      BY <2>1, <1>3, AppendSet
    <2>3. /\ l \in Links /\ l.up = link[e].up /\ l.broken = link[e].broken
          /\ ~l.broken => Range(l.down) = Range(link[e].down) \union {f}
      BY <1>1, <2>2 DEF Links
    <2>4. Moves(e, r, l, dsp[e])
      BY <1>8, AtEnrollment DEF Moves, SenderSend
    <2> HIDE DEF l, r, f
    <2>5. EnrollmentInv(r, l, dsp[e])
      <3>1. Answered(r, l, dsp[e])
        BY <1>1, <1>4, <2>3 DEF EnrollmentInv, Answered
      <3>2. Tracked(r, l, dsp[e])
        BY <1>1, <1>3, <1>4, <2>3 DEF EnrollmentInv, Tracked, Under
      <3> QED BY <1>5, <1>6, <3>1, <3>2 DEF EnrollmentInv
    <2>6. \A j \in Cmds : Len(r.calls[j]) >= Len(rt[e].calls[j])
      BY <1>1, <1>4 DEF Routers
    <2> QED BY <1>1, <1>4, <2>3, <2>4, <2>5, <2>6, OneEnrollment DEF SenderSend, CommandsInv, Typed
  <1> QED BY <1>7, <1>8 DEF SenderSend

LEMMA BreakStep ==
    ASSUME CommandsInv, NEW e \in Enrollments, Break(e) PROVE CommandsInv'
  <1> DEFINE l == [broken |-> TRUE, down |-> <<>>, up |-> link[e].up]
  <1>1. /\ rt[e] \in Routers /\ link[e] \in Links /\ dsp[e] \in Dispatchers
        /\ EnrollmentInv(rt[e], link[e], dsp[e])
    BY AtEnrollment
  <1>2. l \in Links /\ l.broken /\ l.up = link[e].up
    BY <1>1 DEF Links
  <1>3. Moves(e, rt[e], l, dsp[e])
    BY AtEnrollment DEF Moves, Break
  <1> HIDE DEF l
  <1>4. EnrollmentInv(rt[e], l, dsp[e])
    BY <1>1, <1>2 DEF EnrollmentInv, Answered, Tracked, Under
  <1>5. \A j \in Cmds : Len(rt[e].calls[j]) >= Len(rt[e].calls[j])
    BY <1>1 DEF Routers
  <1> QED BY <1>1, <1>2, <1>3, <1>4, <1>5, OneEnrollment DEF Break, CommandsInv, Typed

LEMMA CompleteStep ==
    ASSUME CommandsInv, NEW e \in Enrollments, Complete(e) PROVE CommandsInv'
  <1> DEFINE id == Head(link[e].up)
             r == Completed(rt[e], id)
             l == [link[e] EXCEPT !.up = Tail(@)]
  <1>1. /\ rt[e] \in Routers /\ link[e] \in Links /\ dsp[e] \in Dispatchers
        /\ EnrollmentInv(rt[e], link[e], dsp[e])
    BY AtEnrollment
  <1>2. link[e].up \in Seq(Ids) /\ link[e].up # <<>>
    BY <1>1 DEF Complete, Links
  <1>3. /\ id \in Ids /\ Tail(link[e].up) \in Seq(Ids)
        /\ Range(link[e].up) = {id} \union Range(Tail(link[e].up))
    BY <1>2, TailSet
  <1>4. /\ l \in Links /\ l.up = Tail(link[e].up) /\ l.down = link[e].down
        /\ l.broken = link[e].broken
    BY <1>1, <1>3 DEF Links
  <1>5. Moves(e, r, l, dsp[e])
    BY AtEnrollment DEF Moves, Complete
  <1>6. dsp[e].handled[id] = "done"
    BY <1>1, <1>3 DEF EnrollmentInv, Answered
  <1> HIDE DEF l
  <1>7. CASE id \in rt[e].inflight
    <2>1. /\ r \in Routers /\ CallsInv(r) /\ r.queue = rt[e].queue
          /\ r.refusals = rt[e].refusals /\ r.refused = rt[e].refused
          /\ \A j \in Cmds : Len(r.calls[j]) = Len(rt[e].calls[j])
          /\ \A j \in Cmds : "ok" \in Range(r.calls[j]) => "ok" \in Range(rt[e].calls[j]) \/ j = id
      <3>1. r = Closed(rt[e], id, "ok")
        BY <1>7 DEF Completed
      <3> HIDE DEF r, id
      <3> QED BY <1>1, <1>7, <3>1, CloseCall DEF EnrollmentInv
    <2>2. id \in Cmds /\ id \notin Delivers
      BY <1>1, <1>7, FramesApart DEF Routers
    <2> HIDE DEF r, id
    <2>3. Answered(r, l, dsp[e])
      BY <1>1, <1>3, <1>4, <1>6, <2>1 DEF EnrollmentInv, Answered
    <2>4. Tracked(r, l, dsp[e])
      BY <1>1, <1>3, <1>4, <2>1, <2>2 DEF EnrollmentInv, Tracked, Under
    <2>5. EnrollmentInv(r, l, dsp[e])
      BY <1>1, <2>1, <2>3, <2>4 DEF EnrollmentInv
    <2>6. \A j \in Cmds : Len(r.calls[j]) >= Len(rt[e].calls[j])
      BY <1>1, <2>1 DEF Routers
    <2> QED BY <1>1, <1>4, <1>5, <2>1, <2>5, <2>6, OneEnrollment DEF Complete, CommandsInv, Typed
  <1>8. CASE id \notin rt[e].inflight
    <2>1. /\ r \in Routers /\ r.calls = rt[e].calls /\ r.queue = rt[e].queue
          /\ r.inflight = rt[e].inflight /\ r.att = rt[e].att
          /\ r.refusals = rt[e].refusals \ {id}
          /\ r.refused = rt[e].refused \union ({id} \intersect rt[e].refusals)
      BY <1>1, <1>8 DEF Completed, Routers
    <2> HIDE DEF r, id
    <2>2. CallsInv(r) /\ Len(r.queue) <= QueueCap
      BY <1>1, <2>1 DEF EnrollmentInv, CallsInv
    <2>3. Answered(r, l, dsp[e])
      BY <1>1, <1>3, <1>4, <2>1 DEF EnrollmentInv, Answered
    <2>4. Tracked(r, l, dsp[e])
      <3> SUFFICES ASSUME ~link[e].broken, NEW m \in Delivers
                   PROVE  /\ Under(r, l, dsp[e], m) => m \in r.refusals \/ m \in r.refused
                          /\ dsp[e].handled[m] = "done" /\ m \notin Range(l.up) => m \in r.refused
        BY <1>4 DEF Tracked
      <3>1. /\ Under(rt[e], link[e], dsp[e], m) => m \in rt[e].refusals \/ m \in rt[e].refused
            /\ dsp[e].handled[m] = "done" /\ m \notin Range(link[e].up) => m \in rt[e].refused
        BY <1>1 DEF EnrollmentInv, Tracked
      <3>2. Under(r, l, dsp[e], m) <=> Under(rt[e], link[e], dsp[e], m)
        BY <1>4, <2>1 DEF Under
      <3>3. m = id => Under(rt[e], link[e], dsp[e], m)
        BY <1>6 DEF Under
      <3>4. m # id => (m \in Range(l.up) <=> m \in Range(link[e].up))
        BY <1>3, <1>4
      <3> QED BY <2>1, <3>1, <3>2, <3>3, <3>4
    <2>5. EnrollmentInv(r, l, dsp[e])
      BY <2>2, <2>3, <2>4 DEF EnrollmentInv
    <2>6. \A j \in Cmds : Len(r.calls[j]) >= Len(rt[e].calls[j])
      BY <1>1, <2>1 DEF Routers
    <2> QED BY <1>1, <1>4, <1>5, <2>1, <2>5, <2>6, OneEnrollment DEF Complete, CommandsInv, Typed
  <1> QED BY <1>7, <1>8

-----------------------------------------------------------------------------
(* The Runner.  Its steps leave the router alone.                              *)
LEMMA RunnerStep ==
    ASSUME CommandsInv, NEW e \in Enrollments, NEW l \in Links, NEW d \in Dispatchers,
           Moves(e, rt[e], l, d), Answered(rt[e], l, d), Tracked(rt[e], l, d),
           UNCHANGED <<cur, caller, sentOps>>
    PROVE  CommandsInv'
  <1>1. rt[e] \in Routers /\ EnrollmentInv(rt[e], link[e], dsp[e])
    BY AtEnrollment
  <1>2. EnrollmentInv(rt[e], l, d)
    BY <1>1 DEF EnrollmentInv
  <1>3. \A j \in Cmds : Len(rt[e].calls[j]) >= Len(rt[e].calls[j])
    BY <1>1 DEF Routers
  <1> QED BY <1>1, <1>2, <1>3, OneEnrollment DEF CommandsInv, Typed

LEMMA ReceiveStep ==
    ASSUME CommandsInv, NEW e \in Enrollments, Receive(e) PROVE CommandsInv'
  <1> DEFINE f == Head(link[e].down)
             l == [link[e] EXCEPT !.down = Tail(@)]
             d == IF f \in Ids THEN [dsp[e] EXCEPT !.spawned[f] = @ + 1] ELSE dsp[e]
  <1>1. /\ rt[e] \in Routers /\ link[e] \in Links /\ dsp[e] \in Dispatchers
        /\ EnrollmentInv(rt[e], link[e], dsp[e])
    BY AtEnrollment
  <1>2. link[e].down \in Seq(Frames) /\ link[e].down # <<>>
    BY <1>1 DEF Receive, Links
  <1>3. /\ f \in Frames /\ Tail(link[e].down) \in Seq(Frames)
        /\ Range(link[e].down) = {f} \union Range(Tail(link[e].down))
    BY <1>2, TailSet
  <1>4. /\ l \in Links /\ l.up = link[e].up /\ l.down = Tail(link[e].down)
        /\ l.broken = link[e].broken
    BY <1>1, <1>3 DEF Links
  <1>5. Moves(e, rt[e], l, d)
    <2>1. link' = [link EXCEPT ![e] = l] /\ rt' = [rt EXCEPT ![e] = rt[e]]
      BY AtEnrollment DEF Receive
    <2>2. dsp' = [dsp EXCEPT ![e] = d]
      BY AtEnrollment DEF Receive
    <2> QED BY <2>1, <2>2 DEF Moves
  <1>6. /\ d \in Dispatchers /\ d.handled = dsp[e].handled /\ d.execs = dsp[e].execs
        /\ \A m \in Ids : m # f => d.spawned[m] = dsp[e].spawned[m]
    <2>1. CASE f \in Ids
      <3> DEFINE s == [dsp[e].spawned EXCEPT ![f] = @ + 1]
      <3>1. dsp[e].spawned \in [Ids -> Nat]
        BY <1>1 DEF Dispatchers
      <3>2. s \in [Ids -> Nat] /\ \A m \in Ids : m # f => s[m] = dsp[e].spawned[m]
        BY <2>1, <3>1
      <3>3. d = [spawned |-> s, handled |-> dsp[e].handled, execs |-> dsp[e].execs]
        BY <1>1, <2>1 DEF Dispatchers
      <3> HIDE DEF s, d
      <3> QED BY <1>1, <3>2, <3>3 DEF Dispatchers
    <2>2. CASE f \notin Ids
      BY <2>2, <1>1
    <2> QED BY <2>1, <2>2
  <1> HIDE DEF l, d, f
  <1>7. Answered(rt[e], l, d)
    BY <1>1, <1>4, <1>6 DEF EnrollmentInv, Answered
  <1>8. Tracked(rt[e], l, d)
    <2>1. Delivers \subseteq Ids
      BY DEF Ids
    <2>2. ASSUME NEW m \in Delivers, Under(rt[e], l, d, m) PROVE Under(rt[e], link[e], dsp[e], m)
      <3>1. CASE m = f
        BY <1>3, <3>1 DEF Under
      <3>2. CASE m # f
        <4>1. d.spawned[m] = dsp[e].spawned[m]
          BY <2>1, <3>2, <1>6
        <4> QED BY <2>2, <4>1, <1>3, <1>4, <1>6 DEF Under
      <3> QED BY <3>1, <3>2
    <2> QED BY <2>2, <1>1, <1>4, <1>6 DEF EnrollmentInv, Tracked
  <1> QED BY <1>4, <1>5, <1>6, <1>7, <1>8, RunnerStep DEF Receive

LEMMA HandleFirstStep ==
    ASSUME CommandsInv, NEW e \in Enrollments, NEW id \in Ids, HandleFirst(e, id)
    PROVE  CommandsInv'
  <1> DEFINE s == [dsp[e].spawned EXCEPT ![id] = @ - 1]
             h == [dsp[e].handled EXCEPT ![id] = "run"]
             x == [dsp[e].execs EXCEPT ![id] = @ + 1]
             d == [spawned |-> s, handled |-> h, execs |-> x]
  <1>1. /\ rt[e] \in Routers /\ link[e] \in Links /\ dsp[e] \in Dispatchers
        /\ EnrollmentInv(rt[e], link[e], dsp[e])
    BY AtEnrollment
  <1>2. /\ dsp[e].spawned \in [Ids -> Nat] /\ dsp[e].execs \in [Ids -> Nat]
        /\ dsp[e].handled \in [Ids -> {"no", "run", "done", "silent"}]
        /\ dsp[e].spawned[id] > 0 /\ dsp[e].handled[id] = "no" /\ dsp[e].execs[id] = 0
    BY <1>1 DEF Dispatchers, HandleFirst, First, EnrollmentInv, Answered
  <1>3. /\ s \in [Ids -> Nat] /\ h \in [Ids -> {"no", "run", "done", "silent"}] /\ x \in [Ids -> Nat]
        /\ h[id] = "run" /\ x[id] = 1
        /\ \A m \in Ids \ {id} : s[m] = dsp[e].spawned[m] /\ h[m] = dsp[e].handled[m] /\ x[m] = dsp[e].execs[m]
    BY <1>2
  <1>4. Moves(e, rt[e], link[e], d)
    <2>1. dsp' = [dsp EXCEPT ![e] = d]
      BY DEF HandleFirst, Started
    <2> QED BY <2>1, AtEnrollment DEF Moves, HandleFirst
  <1> HIDE DEF s, h, x
  <1>5. d \in Dispatchers /\ d.spawned = s /\ d.handled = h /\ d.execs = x
    BY <1>3 DEF Dispatchers
  <1> HIDE DEF d
  <1>6. Answered(rt[e], link[e], d)
    <2>1. id \notin Range(link[e].up) /\ (id \in Cmds => "ok" \notin Range(rt[e].calls[id]))
      BY <1>1, <1>2 DEF EnrollmentInv, Answered
    <2>2. ASSUME NEW m \in Ids
          PROVE  /\ x[m] = IF h[m] = "no" THEN 0 ELSE 1
                 /\ m \in Range(link[e].up) => h[m] = "done"
      BY <1>1, <1>3, <2>1 DEF EnrollmentInv, Answered
    <2>3. ASSUME NEW m \in Cmds, "ok" \in Range(rt[e].calls[m]) PROVE h[m] = "done"
      BY <1>1, <1>3, <2>1, <2>3 DEF EnrollmentInv, Answered, Ids
    <2> QED BY <1>5, <2>2, <2>3 DEF Answered
  <1>7. Tracked(rt[e], link[e], d)
    <2>1. ASSUME NEW m \in Delivers, Under(rt[e], link[e], d, m) PROVE Under(rt[e], link[e], dsp[e], m)
      <3>1. m \in Ids
        BY DEF Ids
      <3> QED BY <3>1, <2>1, <1>2, <1>3, <1>5 DEF Under
    <2>2. \A m \in Delivers : d.handled[m] = "done" => dsp[e].handled[m] = "done"
      BY <1>3, <1>5 DEF Ids
    <2> QED BY <2>1, <2>2, <1>1 DEF EnrollmentInv, Tracked
  <1> QED BY <1>1, <1>4, <1>5, <1>6, <1>7, RunnerStep DEF HandleFirst

(* A result sent on a whole stream; on a broken one it is lost.                *)
LEMMA ReplyUp ==
    ASSUME CommandsInv, NEW e \in Enrollments, NEW id \in Ids, Reply(e, id)
    PROVE  \E l \in Links :
              /\ link' = [link EXCEPT ![e] = l] /\ l.broken = link[e].broken /\ l.down = link[e].down
              /\ l.broken => l.up = link[e].up
              /\ ~l.broken => Range(l.up) = Range(link[e].up) \union {id}
  <1>1. link[e] \in Links /\ link = [link EXCEPT ![e] = link[e]] /\ link[e].up \in Seq(Ids)
    BY AtEnrollment DEF Links
  <1>2. CASE link[e].broken
    BY <1>1, <1>2 DEF Reply
  <1>3. CASE ~link[e].broken
    <2> DEFINE l == [link[e] EXCEPT !.up = Append(@, id)]
    <2>1. Append(link[e].up, id) \in Seq(Ids) /\ Range(Append(link[e].up, id)) = Range(link[e].up) \union {id}
      BY <1>1, AppendSet
    <2>2. /\ l \in Links /\ l.up = Append(link[e].up, id) /\ l.down = link[e].down
          /\ l.broken = link[e].broken
      BY <1>1, <2>1 DEF Links
    <2>3. link' = [link EXCEPT ![e] = l]
      BY <1>3 DEF Reply
    <2> HIDE DEF l
    <2> QED BY <1>3, <2>1, <2>2, <2>3
  <1> QED BY <1>2, <1>3

LEMMA FinishStep ==
    ASSUME CommandsInv, NEW e \in Enrollments, NEW id \in Ids, Finish(e, id)
    PROVE  CommandsInv'
  <1> DEFINE o(b) == IF b THEN "silent" ELSE "done"
             h(b) == [dsp[e].handled EXCEPT ![id] = o(b)]
             d(b) == [spawned |-> dsp[e].spawned, handled |-> h(b), execs |-> dsp[e].execs]
  <1>1. /\ rt[e] \in Routers /\ link[e] \in Links /\ dsp[e] \in Dispatchers
        /\ EnrollmentInv(rt[e], link[e], dsp[e])
    BY AtEnrollment
  <1>2. /\ dsp[e].spawned \in [Ids -> Nat] /\ dsp[e].execs \in [Ids -> Nat]
        /\ dsp[e].handled \in [Ids -> {"no", "run", "done", "silent"}]
        /\ dsp[e].handled[id] = "run" /\ dsp[e].execs[id] = 1
    BY <1>1 DEF Dispatchers, Finish, EnrollmentInv, Answered
  <1>3. PICK b \in BOOLEAN :
           /\ b => id \in Delivers
           /\ dsp' = [dsp EXCEPT ![e].handled[id] = IF b THEN "silent" ELSE "done"]
           /\ IF b THEN UNCHANGED link ELSE Reply(e, id)
    BY DEF Finish
  <1>4. /\ h(b) \in [Ids -> {"no", "run", "done", "silent"}] /\ h(b)[id] = o(b)
        /\ \A m \in Ids \ {id} : h(b)[m] = dsp[e].handled[m]
    BY <1>2
  <1>5. dsp' = [dsp EXCEPT ![e] = d(b)]
    <2>1. dsp' = [dsp EXCEPT ![e] = [dsp[e] EXCEPT !.handled = h(b)]]
      BY <1>3
    <2>2. [dsp[e] EXCEPT !.handled = h(b)] = d(b)
      <3> HIDE DEF h
      <3> QED BY <1>1 DEF Dispatchers
    <2> QED BY <2>1, <2>2
  <1> HIDE DEF h
  <1>6. d(b) \in Dispatchers /\ d(b).spawned = dsp[e].spawned /\ d(b).handled = h(b) /\ d(b).execs = dsp[e].execs
    BY <1>2, <1>4 DEF Dispatchers
  <1> HIDE DEF d
  <1>7. PICK l \in Links :
           /\ link' = [link EXCEPT ![e] = l] /\ l.broken = link[e].broken /\ l.down = link[e].down
           /\ Range(l.up) \subseteq Range(link[e].up) \union (IF b THEN {} ELSE {id})
           /\ Range(link[e].up) \subseteq Range(l.up)
           /\ ~b /\ ~l.broken => id \in Range(l.up)
    <2>1. CASE b
      BY <2>1, <1>3, AtEnrollment
    <2>2. CASE ~b
      BY <2>2, <1>3, ReplyUp
    <2> QED BY <2>1, <2>2
  <1>8. Moves(e, rt[e], l, d(b))
    BY <1>5, <1>7, AtEnrollment DEF Moves, Finish
  <1>9. Answered(rt[e], l, d(b))
    <2>1. id \notin Range(link[e].up) /\ (id \in Cmds => "ok" \notin Range(rt[e].calls[id]))
      BY <1>1, <1>2 DEF EnrollmentInv, Answered
    <2>2. ASSUME NEW m \in Ids
          PROVE  /\ dsp[e].execs[m] = IF h(b)[m] = "no" THEN 0 ELSE 1
                 /\ m \in Range(l.up) => h(b)[m] = "done"
      <3>1. CASE m = id
        BY <3>1, <1>2, <1>4, <1>7, <2>1
      <3>2. CASE m # id
        BY <3>2, <1>1, <1>4, <1>7 DEF EnrollmentInv, Answered
      <3> QED BY <3>1, <3>2
    <2>3. ASSUME NEW m \in Cmds, "ok" \in Range(rt[e].calls[m]) PROVE h(b)[m] = "done"
      BY <1>1, <1>4, <2>1, <2>3 DEF EnrollmentInv, Answered, Ids
    <2> QED BY <1>6, <2>2, <2>3 DEF Answered
  <1>10. Tracked(rt[e], l, d(b))
    <2>1. ASSUME NEW m \in Delivers, Under(rt[e], l, d(b), m) PROVE Under(rt[e], link[e], dsp[e], m)
      <3>1. m \in Ids
        BY DEF Ids
      <3> QED BY <3>1, <2>1, <1>2, <1>4, <1>6, <1>7 DEF Under
    <2>2. ASSUME ~l.broken, NEW m \in Delivers, d(b).handled[m] = "done", m \notin Range(l.up)
          PROVE  m \in rt[e].refused
      <3>1. m \in Ids
        BY DEF Ids
      <3>2. m # id
        BY <2>2, <1>4, <1>6, <1>7
      <3> QED BY <3>1, <3>2, <2>2, <1>1, <1>4, <1>6, <1>7 DEF EnrollmentInv, Tracked
    <2> QED BY <2>1, <2>2, <1>1, <1>7 DEF EnrollmentInv, Tracked
  <1> QED BY <1>1, <1>6, <1>8, <1>9, <1>10, RunnerStep DEF Finish

LEMMA HandleJoinStep ==
    ASSUME CommandsInv, NEW e \in Enrollments, NEW id \in Ids, HandleJoin(e, id)
    PROVE  CommandsInv'
  <1> DEFINE s == [dsp[e].spawned EXCEPT ![id] = @ - 1]
             d == [spawned |-> s, handled |-> dsp[e].handled, execs |-> dsp[e].execs]
             b == dsp[e].handled[id] = "done"
  <1>1. /\ rt[e] \in Routers /\ link[e] \in Links /\ dsp[e] \in Dispatchers
        /\ EnrollmentInv(rt[e], link[e], dsp[e])
    BY AtEnrollment
  <1>2. dsp[e].spawned \in [Ids -> Nat] /\ dsp[e].spawned[id] > 0
    BY <1>1 DEF Dispatchers, HandleJoin
  <1>3. s \in [Ids -> Nat] /\ \A m \in Ids : s[m] > 0 => dsp[e].spawned[m] > 0
    BY <1>2
  <1>4. dsp' = [dsp EXCEPT ![e] = d]
    <2>1. dsp' = [dsp EXCEPT ![e] = [dsp[e] EXCEPT !.spawned = s]]
      BY DEF HandleJoin
    <2>2. [dsp[e] EXCEPT !.spawned = s] = d
      <3> HIDE DEF s
      <3> QED BY <1>1 DEF Dispatchers
    <2> QED BY <2>1, <2>2
  <1> HIDE DEF s
  <1>5. d \in Dispatchers /\ d.spawned = s /\ d.handled = dsp[e].handled /\ d.execs = dsp[e].execs
    BY <1>1, <1>3 DEF Dispatchers
  <1> HIDE DEF d
  <1>6. PICK l \in Links :
           /\ link' = [link EXCEPT ![e] = l] /\ l.broken = link[e].broken /\ l.down = link[e].down
           /\ Range(l.up) \subseteq Range(link[e].up) \union (IF b THEN {id} ELSE {})
           /\ Range(link[e].up) \subseteq Range(l.up)
    <2>1. CASE ~b
      BY <2>1, AtEnrollment DEF HandleJoin
    <2>2. CASE b
      BY <2>2, ReplyUp DEF HandleJoin
    <2> QED BY <2>1, <2>2
  <1>7. Moves(e, rt[e], l, d)
    BY <1>4, <1>6, AtEnrollment DEF Moves, HandleJoin
  <1>8. Answered(rt[e], l, d)
    BY <1>1, <1>5, <1>6 DEF EnrollmentInv, Answered
  <1>9. Tracked(rt[e], l, d)
    <2>1. ASSUME NEW m \in Delivers, Under(rt[e], l, d, m) PROVE Under(rt[e], link[e], dsp[e], m)
      <3>1. m \in Ids
        BY DEF Ids
      <3> QED BY <3>1, <2>1, <1>3, <1>5, <1>6 DEF Under
    <2> QED BY <2>1, <1>1, <1>5, <1>6 DEF EnrollmentInv, Tracked
  <1> QED BY <1>5, <1>7, <1>8, <1>9, RunnerStep DEF HandleJoin

-----------------------------------------------------------------------------
LEMMA InitInv ==
    Init => CommandsInv
  <1> SUFFICES ASSUME Init PROVE CommandsInv
    OBVIOUS
  <1> USE DEF Init
  <1>1. NewRouter \in Routers /\ NewLink \in Links /\ NewDispatcher \in Dispatchers
    <2>1. NewRouter \in Routers
      BY DEF NewRouter, Routers
    <2>2. NewLink \in Links
      BY DEF NewLink, Links
    <2>3. NewDispatcher \in Dispatchers
      BY DEF NewDispatcher, Dispatchers
    <2> QED BY <2>1, <2>2, <2>3
  <1>2. Typed
    <2>1. \A c \in Callers : caller[c] \in [pc : {"idle", "wait"}, call : WaitCalls, tries : 0..MaxTries]
      BY BoundsNat DEF NoCall, WaitCalls
    <2> QED BY <1>1, <2>1, BoundsNat DEF Typed
  <1>3. EnrollmentInv(NewRouter, NewLink, NewDispatcher)
    <2>1. Range(<<>>) = {}
      BY DEF Range
    <2>2. CallsInv(NewRouter) /\ Len(NewRouter.queue) <= QueueCap
      BY BoundsNat DEF CallsInv, NewRouter
    <2>3. Answered(NewRouter, NewLink, NewDispatcher)
      BY <2>1 DEF Answered, NewRouter, NewLink, NewDispatcher, Ids
    <2>4. Tracked(NewRouter, NewLink, NewDispatcher)
      BY <2>1 DEF Tracked, Under, NewRouter, NewLink, NewDispatcher, Ids
    <2> QED BY <2>2, <2>3, <2>4 DEF EnrollmentInv
  <1>4. WaitersReal
    BY DEF WaitersReal
  <1> QED BY <1>2, <1>3, <1>4 DEF CommandsInv

LEMMA NextInv ==
    CommandsInv /\ [Next]_vars => CommandsInv'
  <1> SUFFICES ASSUME CommandsInv, [Next]_vars PROVE CommandsInv'
    OBVIOUS
  <1>1. CASE Enroll \/ Attach
    BY <1>1, EnrollStep, AttachStep
  <1>2. CASE \E c \in Callers :
               \/ \E id \in Cmds : DispatchJoin(c, id) \/ DispatchRefuse(c, id) \/ Dispatch(c, id)
               \/ Return(c) \/ TimeOut(c)
    BY <1>2, DispatchJoinStep, DispatchRefuseStep, DispatchStep, ReturnStep
  <1>3. CASE \E d \in Delivers : Send1(d)
    BY <1>3, Send1Step
  <1>4. CASE \E s \in Signals : Push(s)
    BY <1>4, PushStep
  <1>5. CASE \E e \in Enrollments : Router(e) \/ Runner(e) \/ Break(e)
    <2>1. PICK e \in Enrollments : Router(e) \/ Runner(e) \/ Break(e)
      BY <1>5
    <2>2. CASE Router(e)
      BY <2>2, SenderSendStep, CompleteStep, DetachStep DEF Router
    <2>3. CASE Runner(e)
      BY <2>3, ReceiveStep, HandleFirstStep, FinishStep, HandleJoinStep DEF Runner
    <2>4. CASE Break(e)
      BY <2>4, BreakStep
    <2> QED BY <2>1, <2>2, <2>3, <2>4
  <1>6. CASE UNCHANGED vars
    BY <1>6 DEF vars, CommandsInv, Typed, WaitersReal
  <1> QED BY <1>1, <1>2, <1>3, <1>4, <1>5, <1>6 DEF Next

(* The routers, streams, dispatchers and callers satisfy CommandsInv always.   *)
THEOREM CommandsInvariant == Spec => []CommandsInv
  <1>1. CommandsInv /\ [Next]_vars => CommandsInv'
    BY NextInv
  <1> QED BY <1>1, InitInv, PTL DEF Spec

(* The state is typed, and no outbound queue outgrows sendQueueCap             *)
(* (router.go, dispatch, send1 and push).                                      *)
THEOREM CommandsTyped == Spec => []TypeOK
  <1>1. CommandsInv => TypeOK
    BY DEF CommandsInv, Typed, TypeOK, EnrollmentInv
  <1> QED BY <1>1, CommandsInvariant, PTL

(* dispatch, complete, detach and a failed Send keep the open calls and the    *)
(* in-flight ids the same, and a deliver's refusal that was read is counted.   *)
THEOREM EveryCallAccounted == Spec => []CallsAccounted
  <1>1. CommandsInv => CallsAccounted
    <2> SUFFICES ASSUME CommandsInv PROVE CallsAccounted
      OBVIOUS
    <2>1. OpenIffInflight
      BY DEF CommandsInv, EnrollmentInv, CallsInv, OpenIffInflight
    <2>2. RefusalObserved
      BY DEF CommandsInv, EnrollmentInv, Tracked, RefusalObserved
    <2> QED BY <2>1, <2>2 DEF CallsAccounted
  <1> QED BY <1>1, CommandsInvariant, PTL

(* The dispatcher runs a request id once per process, and whatever came back   *)
(* ok to a call was run (dispatch.go, handle; router.go, complete).            *)
THEOREM RunsOnce == Spec => []ExecutedOnce
  <1>1. CommandsInv => ExecutedOnce
    <2> SUFFICES ASSUME CommandsInv, NEW e \in Enrollments
                 PROVE  /\ \A id \in Ids : dsp[e].execs[id] <= 1
                        /\ \A id \in Cmds : "ok" \in Range(rt[e].calls[id]) => dsp[e].execs[id] = 1
      BY DEF ExecutedOnce
    <2>1. \A id \in Ids : dsp[e].execs[id] = IF dsp[e].handled[id] = "no" THEN 0 ELSE 1
      BY DEF CommandsInv, EnrollmentInv, Answered
    <2>2. \A id \in Ids : dsp[e].execs[id] <= 1
      BY <2>1
    <2>3. ASSUME NEW id \in Cmds, "ok" \in Range(rt[e].calls[id]) PROVE dsp[e].execs[id] = 1
      BY <2>1, <2>3 DEF CommandsInv, EnrollmentInv, Answered, Ids
    <2> QED BY <2>2, <2>3
  <1> QED BY <1>1, CommandsInvariant, PTL

(* A caller that still waits has a call nobody answered, and then its id is in *)
(* flight on a router whose stream is attached: detach will fail the call, if  *)
(* no result closes it first (waitCall).                                       *)
Answerable ==
    \A c \in Callers : caller[c].pc = "wait" /\ Outcome(c) = "open" =>
       LET w == caller[c].call IN
       /\ w.id \in rt[w.e].inflight /\ rt[w.e].att = "live"
       /\ w.k = Len(rt[w.e].calls[w.id])

(* Nobody waits on a call that nothing will close (waitCall, detach).          *)
THEOREM NobodyForgotten == Spec => []Answerable
  <1>1. CommandsInv => Answerable
    <2> SUFFICES ASSUME CommandsInv, NEW c \in Callers, caller[c].pc = "wait", Outcome(c) = "open"
                 PROVE  LET w == caller[c].call IN
                        /\ w.id \in rt[w.e].inflight /\ rt[w.e].att = "live"
                        /\ w.k = Len(rt[w.e].calls[w.id])
      BY DEF Answerable
    <2> DEFINE w == caller[c].call
               q == rt[w.e].calls[w.id]
    <2>1. w.e \in Enrollments /\ w.id \in Cmds /\ w.k \in 1..Len(q) /\ q[w.k] = "open"
      BY DEF CommandsInv, WaitersReal, Outcome
    <2>2. q \in Seq({"open", "ok", "failed"}) /\ CallsInv(rt[w.e])
      BY <2>1, AtEnrollment DEF EnrollmentInv, Routers
    <2> HIDE DEF w, q
    <2>3. w.k \in DOMAIN q /\ q # <<>>
      BY <2>1, <2>2
    <2> USE DEF q
    <2>4. w.k = Len(q)
      BY <2>1, <2>2, <2>3 DEF CallsInv
    <2> QED BY <2>1, <2>2, <2>3, <2>4 DEF CallsInv, w
  <1> QED BY <1>1, CommandsInvariant, PTL
=============================================================================
