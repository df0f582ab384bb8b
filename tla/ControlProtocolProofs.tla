------------------------ MODULE ControlProtocolProofs ------------------------
(* The control path is exactly-once for every number of ops, processes and     *)
(* faults, and a reloaded process refuses nothing: proofs of ControlProtocol's *)
(* invariants.                                                                 *)
EXTENDS ControlProtocol, LaneSessionProofs

(* Zenon is the prover unless a leaf names another.                            *)
USE Zenon

Frames == [cursor : 0..MaxSeq, above : SUBSET (1..MaxSeq)]
HandlerRecord ==
    [step : {"none", "opened", "reading"}, epoch : Nat, frames : Seq(Frames)]
AgentRecord ==
    [proc : 0..MaxProc, up : BOOLEAN, ended : BOOLEAN, reloaded : BOOLEAN,
     barrier : BOOLEAN, ready : BOOLEAN, cursor : 0..MaxSeq, above : SUBSET (1..MaxSeq),
     queued : SUBSET (1..MaxSeq), buffer : Seq(Retained), busy : Retained \union {Nil},
     done : BOOLEAN, turn : SUBSET Retained, spine : Seq(Frames), sending : Seq(Frames)]

TypeInv ==
    /\ host \in [step : {"idle", "launched", "bound", "stopped", "restarted", "stopping"},
                 state : {"none", "ready", "errored"}]
    /\ SessionInv(rail) /\ epoch \in Nat /\ drn \in DrainerRecord /\ agent \in AgentRecord
    /\ hnd \in [Procs -> HandlerRecord]
    /\ sent \subseteq LiveOps /\ did \subseteq Procs \X LiveOps /\ refused \subseteq Procs \X LiveOps
    /\ rejects \in Nat /\ late \in BOOLEAN

(* The agent has decoded nothing and has nothing to publish.                   *)
Fresh(a) ==
    /\ a.cursor = 0 /\ a.above = {} /\ a.queued = {} /\ a.buffer = << >> /\ a.busy = Nil
    /\ ~a.done /\ a.turn = {} /\ a.spine = << >> /\ a.sending = << >>

(* A process that is down holds nothing; a process sees one epoch only.        *)
LifeInv ==
    /\ IF agent.up THEN agent.proc \in Procs ELSE Fresh(agent) /\ drn = Idle
    /\ IF Bound THEN ~rail.retired /\ rail.epoch = epoch /\ epoch > 0 ELSE sent = {}
    /\ drn.pc = "check" => drn.batch # {}
    /\ \A p \in Procs : hnd[p].step = "reading" => hnd[p].epoch <= epoch
    /\ \A x \in did \union refused : x[1] <= agent.proc

(* The steps of the host's calls: which of them find the process down and the  *)
(* session unbound.                                                            *)
CallInv ==
    /\ host.step = "launched" => ~Bound /\ drn = Idle /\ Fresh(agent) /\ ~agent.reloaded
    /\ host.step \in {"stopped", "restarted"} => ~agent.up /\ agent.proc < MaxProc
    /\ host.step = "idle" /\ host.state \in {"none", "errored"} => ~agent.up /\ ~Bound
    /\ host.step \in {"bound", "restarted"} => Bound
    /\ host.step = "bound" => host.state = "ready"
    /\ host.step = "stopping" => ~Bound

(* Every copy of an op: retained, collected by the drainer, held by the agent. *)
(* A number names one op and a live op has one number.                         *)
Copies == rail.ops \union drn.batch \union Pending
UniqueInv ==
    /\ \A x, y \in Copies : x.seq = y.seq => x = y
    /\ \A x, y \in Copies : x.op = y.op /\ x.op \in LiveOps => x = y
    /\ Bound => \A x \in Copies : x.seq <= rail.nextSeq /\ (x.op \in LiveOps => x.op \in sent)

(* The agent's cursor and queues against the lane: what it applied it handled, *)
(* what it queued it holds, what it holds is queued once.                      *)
HandledHere(op) == <<agent.proc, op>> \in did \union refused
AgentInv ==
    /\ Bound => /\ agent.cursor <= rail.nextSeq
                /\ \A n \in agent.above \union agent.queued : n <= rail.nextSeq
    /\ \A r \in rail.ops : r.op \in LiveOps /\ IsApplied(agent, r.seq) => HandledHere(r.op)
    /\ \A r \in rail.ops : r.seq \in agent.queued => r \in Pending \/ RejectedPrompt(r.op)
    /\ \A r \in Pending : r.seq \in agent.queued
    /\ agent.up => \A r \in rail.ops \union drn.batch : HandledHere(r.op) => Seen(agent, r.seq)

(* A sequence without repetition.                                              *)
Distinct(s) == \A i, j \in DOMAIN s : s[i] = s[j] => i = j

(* The prompts held for the turn, the buffer and the op its loop applies.      *)
LoopInv ==
    /\ \A r \in agent.turn : r.op \in TurnEnd
    /\ \A r \in Elems(agent.buffer) : r.op \in Pulled \union ReplayOps
    /\ agent.busy # Nil => agent.busy \notin Elems(agent.buffer)
                           /\ agent.busy.op \in Pulled \union ReplayOps
    /\ Distinct(agent.buffer)
    /\ agent.done => /\ agent.busy # Nil /\ (agent.busy.op \in ReplayOps => agent.ready)
                     /\ (agent.busy.op \in Pulled => HandledHere(agent.busy.op))

(* An ack on its way to the session's current epoch covers handled ops only.   *)
AckOK(f) ==
    /\ f.cursor <= rail.nextSeq /\ \A n \in f.above : n <= rail.nextSeq
    /\ \A r \in rail.ops :
         r.op \in LiveOps /\ (r.seq <= f.cursor \/ r.seq \in f.above) => Handled(r.op)
Reaching(p) ==
    \/ hnd[p].step = "opened"
    \/ hnd[p].step = "reading" /\ hnd[p].epoch = rail.epoch
AcksInv ==
    Bound => /\ \A f \in Elems(agent.spine) \union Elems(agent.sending) : AckOK(f)
             /\ ~late => \A p \in Procs : Reaching(p) =>
                           \A f \in Elems(hnd[p].frames) : AckOK(f)

(* Until a reloaded process has decoded replay_complete, it is the lane's      *)
(* first op and nothing can have acked it; until it has applied it, it is the  *)
(* next op the control loop applies.                                           *)
First == [seq |-> 1, op |-> ReplayComplete]
ReplayFirst ==
    /\ rail.cursor = 0 /\ First \in rail.ops
    /\ \A p \in Procs : ~Reaching(p)
Opening(a) ==
    \/ a.busy # Nil /\ a.busy.op \in ReplayOps
    \/ a.busy = Nil /\ a.buffer # << >> /\ Head(a.buffer).op \in ReplayOps
ReloadInv ==
    ~late =>
    /\ host.step = "restarted" => ReplayFirst
    /\ agent.up /\ agent.reloaded /\ ~agent.barrier =>
         /\ Fresh(agent)
         /\ Bound => ReplayFirst /\ drn.sent = 0 /\ drn.above = {}
                     /\ (drn.batch # {} => First \in drn.batch)
    /\ agent.up /\ agent.reloaded /\ agent.barrier /\ ~agent.ready => Opening(agent)

ProtocolInv ==
    /\ TypeInv /\ LifeInv /\ CallInv /\ UniqueInv /\ AgentInv /\ LoopInv /\ AcksInv /\ ReloadInv
    /\ RetainedUntilHandled /\ ReloadRefusesNothing

-----------------------------------------------------------------------------
(* What the operators of the model yield.                                      *)

(* The elements of the sequences the agent and the handlers build.             *)
LEMMA ElemsSpec ==
    ASSUME NEW S, NEW s \in Seq(S), NEW t \in Seq(S), NEW e \in S
    PROVE  /\ Elems(s) \subseteq S
           /\ Append(s, e) \in Seq(S) /\ Elems(Append(s, e)) = Elems(s) \union {e}
           /\ s \o t \in Seq(S) /\ Elems(s \o t) = Elems(s) \union Elems(t)
           /\ s # << >> => /\ Head(s) \in Elems(s) /\ Head(s) \in S /\ Tail(s) \in Seq(S)
                           /\ Elems(s) = {Head(s)} \union Elems(Tail(s))
<1>1. Elems(s) \subseteq S
  BY SMT DEF Elems
<1>2. Append(s, e) \in Seq(S) /\ Elems(Append(s, e)) = Elems(s) \union {e}
  <2> /\ Append(s, e) \in Seq(S) /\ Len(Append(s, e)) = Len(s) + 1 /\ Len(s) \in Nat
      /\ DOMAIN s = 1..Len(s) /\ DOMAIN Append(s, e) = 1..(Len(s) + 1)
      /\ \A i \in 1..Len(s) : Append(s, e)[i] = s[i]
      /\ Append(s, e)[Len(s) + 1] = e
    BY SMT
  <2>1. \A i \in 1..(Len(s) + 1) : i \in 1..Len(s) \/ i = Len(s) + 1
    BY SMT
  <2>2. Len(s) + 1 \in 1..(Len(s) + 1) /\ 1..Len(s) \subseteq 1..(Len(s) + 1)
    BY SMT
  <2> QED BY <2>1, <2>2 DEF Elems
<1>3. s \o t \in Seq(S) /\ Elems(s \o t) = Elems(s) \union Elems(t)
  <2> /\ s \o t \in Seq(S) /\ Len(s) \in Nat /\ Len(t) \in Nat
      /\ DOMAIN s = 1..Len(s) /\ DOMAIN t = 1..Len(t) /\ DOMAIN (s \o t) = 1..(Len(s) + Len(t))
      /\ \A i \in 1..Len(s) : (s \o t)[i] = s[i]
      /\ \A i \in 1..Len(t) : (s \o t)[Len(s) + i] = t[i]
    BY SMT
  <2>1. \A i \in 1..(Len(s) + Len(t)) :
          i \in 1..Len(s) \/ (i - Len(s) \in 1..Len(t) /\ i = Len(s) + (i - Len(s)))
    BY SMT
  <2> /\ 1..Len(s) \subseteq 1..(Len(s) + Len(t))
      /\ \A i \in 1..Len(t) : Len(s) + i \in 1..(Len(s) + Len(t))
    BY SMT
  <2>2. ASSUME NEW x \in Elems(s \o t) PROVE x \in Elems(s) \union Elems(t)
    <3> PICK i \in 1..(Len(s) + Len(t)) : x = (s \o t)[i]
      BY DEF Elems
    <3>1. CASE i \in 1..Len(s)
      BY <3>1 DEF Elems
    <3>2. CASE i - Len(s) \in 1..Len(t) /\ i = Len(s) + (i - Len(s))
      <4>1. x = t[i - Len(s)]
        BY <3>2
      <4> QED BY <3>2, <4>1 DEF Elems
    <3> QED BY <2>1, <3>1, <3>2
  <2>3. Elems(s) \subseteq Elems(s \o t)
    BY DEF Elems
  <2>4. Elems(t) \subseteq Elems(s \o t)
    BY DEF Elems
  <2> QED BY <2>2, <2>3, <2>4
<1>4. ASSUME s # << >>
      PROVE  /\ Head(s) \in Elems(s) /\ Head(s) \in S /\ Tail(s) \in Seq(S)
             /\ Elems(s) = {Head(s)} \union Elems(Tail(s))
  <2> /\ Len(s) \in Nat /\ 1 \in 1..Len(s) /\ DOMAIN s = 1..Len(s) /\ Head(s) = s[1]
      /\ Head(s) \in S /\ Tail(s) \in Seq(S) /\ DOMAIN Tail(s) = 1..(Len(s) - 1)
      /\ \A i \in 1..(Len(s) - 1) : Tail(s)[i] = s[i + 1]
    BY SMT, <1>4
  <2> /\ \A i \in 1..Len(s) : i = 1 \/ (i - 1 \in 1..(Len(s) - 1) /\ i = (i - 1) + 1)
      /\ \A i \in 1..(Len(s) - 1) : i + 1 \in 1..Len(s)
    BY SMT
  <2>1. ASSUME NEW x \in Elems(s) PROVE x \in {Head(s)} \union Elems(Tail(s))
    <3> PICK i \in 1..Len(s) : x = s[i]
      BY DEF Elems
    <3>1. CASE i = 1
      BY <3>1
    <3>2. CASE i - 1 \in 1..(Len(s) - 1) /\ i = (i - 1) + 1
      <4>1. x = Tail(s)[i - 1]
        BY <3>2
      <4> QED BY <3>2, <4>1 DEF Elems
    <3> QED BY <3>1, <3>2
  <2>2. Head(s) \in Elems(s)
    BY DEF Elems
  <2>3. ASSUME NEW x \in Elems(Tail(s)) PROVE x \in Elems(s)
    <3>1. PICK i \in 1..(Len(s) - 1) : x = Tail(s)[i]
      BY <2>3 DEF Elems
    <3>2. x = s[i + 1] /\ i + 1 \in 1..Len(s)
      BY <3>1
    <3> QED BY <3>2 DEF Elems
  <2> QED BY <2>1, <2>2, <2>3
<1> QED BY <1>1, <1>2, <1>3, <1>4

(* Appending leaves the head of a sequence that has one.                       *)
LEMMA HeadAppend ==
    ASSUME NEW S, NEW s \in Seq(S), NEW e \in S, NEW t, t = Append(s, e)
    PROVE  t # << >> /\ Head(t) = IF s = << >> THEN e ELSE Head(s)
BY SMT

(* Sequence numbers start at 1.                                                *)
LEMMA SeqPositive == \A n \in 1..MaxSeq : ~(n <= 0)
BY SMT, SessionAssumption

(* The empty sequence has no elements.                                         *)
LEMMA ElemsEmpty == Elems(<< >>) = {} /\ Distinct(<< >>) /\ \A S : << >> \in Seq(S)
BY SMT DEF Elems, Distinct

(* Taking the head off a sequence without repetition, and appending to it.     *)
LEMMA TailDistinct ==
    ASSUME NEW S, NEW s \in Seq(S), s # << >>, Distinct(s)
    PROVE  Distinct(Tail(s)) /\ Head(s) \notin Elems(Tail(s))
<1>1. /\ DOMAIN s = 1..Len(s) /\ Len(s) \in Nat /\ 1 \in 1..Len(s) /\ Head(s) = s[1]
      /\ DOMAIN Tail(s) = 1..(Len(s) - 1)
      /\ \A i \in 1..(Len(s) - 1) : Tail(s)[i] = s[i + 1]
  BY SMT
<1> DEFINE t == Tail(s)
           n == Len(s) - 1
<1>2. \A i \in 1..n : i + 1 \in 1..Len(s) /\ i + 1 # 1
  BY SMT, <1>1
<1>3. \A i, j \in 1..n : i + 1 = j + 1 => i = j
  BY SMT
<1>4. /\ DOMAIN t = 1..n /\ \A i \in 1..n : t[i] = s[i + 1]
  BY <1>1
<1> HIDE DEF t, n
<1>5. \A i, j \in 1..n : t[i] = t[j] => i + 1 = j + 1
  <2> SUFFICES ASSUME NEW i \in 1..n, NEW j \in 1..n, t[i] = t[j] PROVE i + 1 = j + 1
    OBVIOUS
  <2>1. i + 1 \in DOMAIN s /\ j + 1 \in DOMAIN s /\ s[i + 1] = s[j + 1]
    BY <1>1, <1>2, <1>4
  <2> QED BY <2>1 DEF Distinct
<1>6. Distinct(t)
  BY SMT, <1>3, <1>4, <1>5 DEF Distinct
<1>7. \A i \in 1..n : t[i] # s[1]
  BY <1>1, <1>2, <1>4 DEF Distinct
<1>8. Head(s) \notin Elems(t)
  BY <1>1, <1>4, <1>7 DEF Elems
<1> QED BY <1>6, <1>8 DEF t

LEMMA AppendDistinct ==
    ASSUME NEW S, NEW s \in Seq(S), NEW e \in S, Distinct(s), e \notin Elems(s)
    PROVE  Distinct(Append(s, e))
<1> DEFINE n == Len(s)
           t == Append(s, e)
<1>1. /\ DOMAIN s = 1..n /\ DOMAIN t = 1..(n + 1) /\ t[n + 1] = e
      /\ \A i \in 1..n : t[i] = s[i]
  BY SMT
<1>2. \A i \in 1..(n + 1) : i \in 1..n \/ i = n + 1
  BY SMT
<1> HIDE DEF n, t
<1>3. Distinct(t)
  BY <1>1, <1>2 DEF Distinct, Elems
<1> QED BY <1>3 DEF t

(* There is one op that opens the lane.                                        *)
LEMMA ReplaySpec ==
    /\ ReplayOps = {ReplayComplete} /\ ReplayComplete \in Ops /\ ReplayComplete \notin LiveOps
    /\ \A op \in Ops : op \in LiveOps \/ op = ReplayComplete
<1>1. PICK op \in ReplayOps : ReplayOps = {op}
  BY ProtocolAssumption
<1>2. ReplayComplete = op
  BY SMT, <1>1 DEF ReplayComplete
<1> QED BY <1>1, <1>2, SessionAssumption DEF Ops

(* An unmapped session: retired, empty, of no epoch.                           *)
LEMMA UnboundSpec ==
    /\ SessionInv(Unbound) /\ Unbound.retired /\ Unbound.ops = {} /\ Unbound.nextSeq = 0
    /\ Unbound.cursor = 0
<1> DEFINE s == NewSession(0)
<1> /\ s \in SessionRecord /\ SessionInv(s) /\ s.nextSeq = 0 /\ s.cursor = 0
  BY SMT, NewSessionInv
<1>1. SessionInv(Unbound)
  BY TombstonedInv DEF Unbound
<1>2. /\ Unbound.retired /\ Unbound.ops = {} /\ Unbound.nextSeq = s.nextSeq
      /\ Unbound.cursor = s.cursor
  BY DEF Unbound, Tombstoned, SessionRecord
<1> QED BY <1>1, <1>2

(* A drainer that serves nobody has collected nothing.                         *)
LEMMA IdleFields == Idle.pc = "idle" /\ Idle.batch = {} /\ Idle.sent = 0 /\ Idle.above = {}
BY SMT DEF Idle

(* An object that is not retired is a mapped one.                              *)
LEMMA MappedSpec ==
    ASSUME NEW s, ~s.retired
    PROVE  s # Unbound
BY UnboundSpec

(* A process just launched, by Start or by Reload, and one that is gone.       *)
LEMMA NewAgentSpec ==
    ASSUME NEW p \in 0..MaxProc
    PROVE  LET a == NewAgent(p) IN
           /\ a \in AgentRecord /\ Fresh(a) /\ a.proc = p /\ ~a.barrier /\ ~a.ready
           /\ a.up /\ ~a.reloaded
<1> DEFINE a == NewAgent(p)
<1>1. 0 \in 0..MaxSeq
  BY SMT, SessionAssumption
<1>2. << >> \in Seq(Retained) /\ << >> \in Seq(Frames)
  BY ElemsEmpty
<1>3. a \in AgentRecord
  BY <1>1, <1>2 DEF NewAgent, AgentRecord
<1> QED BY <1>3 DEF NewAgent, Fresh

LEMMA ReloadedSpec ==
    ASSUME NEW p \in 0..MaxProc
    PROVE  LET a == [NewAgent(p) EXCEPT !.reloaded = TRUE] IN
           /\ a \in AgentRecord /\ Fresh(a) /\ a.proc = p /\ ~a.barrier /\ ~a.ready
           /\ a.up /\ a.reloaded
<1>1. /\ NewAgent(p) \in AgentRecord /\ Fresh(NewAgent(p)) /\ NewAgent(p).proc = p
      /\ ~NewAgent(p).barrier /\ ~NewAgent(p).ready /\ NewAgent(p).up
  BY NewAgentSpec
<1> QED BY <1>1 DEF AgentRecord, Fresh

LEMMA GoneSpec ==
    ASSUME NEW p \in 0..MaxProc
    PROVE  LET a == [NewAgent(p) EXCEPT !.up = FALSE] IN
           a \in AgentRecord /\ Fresh(a) /\ a.proc = p /\ ~a.up /\ ~a.reloaded
<1>1. /\ NewAgent(p) \in AgentRecord /\ Fresh(NewAgent(p)) /\ NewAgent(p).proc = p
      /\ ~NewAgent(p).reloaded
  BY NewAgentSpec
<1> QED BY <1>1 DEF AgentRecord, Fresh

(* The fields the ack cursor leaves alone.                                     *)
SameWork(a, b) ==
    /\ b.proc = a.proc /\ b.up = a.up /\ b.ended = a.ended /\ b.reloaded = a.reloaded
    /\ b.barrier = a.barrier /\ b.ready = a.ready /\ b.queued = a.queued /\ b.buffer = a.buffer
    /\ b.busy = a.busy /\ b.done = a.done /\ b.turn = a.turn /\ b.sending = a.sending
AckOf(a) == [cursor |-> a.cursor, above |-> a.above]

(* A cumulative ack is queued behind the others.                               *)
LEMMA AckingSpec ==
    ASSUME NEW a \in AgentRecord
    PROVE  LET b == Acking(a) IN
           /\ b \in AgentRecord /\ SameWork(a, b) /\ b.cursor = a.cursor /\ b.above = a.above
           /\ b.spine = Append(a.spine, AckOf(a)) /\ AckOf(a) \in Frames
<1>1. a.spine \in Seq(Frames) /\ a.cursor \in 0..MaxSeq /\ a.above \in SUBSET (1..MaxSeq)
  BY DEF AgentRecord
<1>2. AckOf(a) \in Frames
  BY <1>1 DEF AckOf, Frames
<1>3. Append(a.spine, AckOf(a)) \in Seq(Frames)
  BY <1>1, <1>2, ElemsSpec
<1>4. Acking(a) = [a EXCEPT !.spine = Append(a.spine, AckOf(a))]
  BY DEF Acking, AckOf
<1>5. Acking(a) \in AgentRecord
  BY <1>3, <1>4 DEF AgentRecord
<1> QED BY <1>2, <1>4, <1>5 DEF AgentRecord, SameWork

(* AckCursor.markApplied: exactly the given numbers become applied, and the    *)
(* ack queued is the cursor that results.                                      *)
LEMMA MarkSpec ==
    ASSUME NEW a \in AgentRecord, NEW S \in SUBSET (1..MaxSeq)
    PROVE  LET b == MarkApplied(a, S) IN
           /\ b \in AgentRecord /\ SameWork(a, b)
           /\ b.spine = Append(a.spine, AckOf(b)) /\ AckOf(b) \in Frames
           /\ b.cursor \in {a.cursor} \union a.above \union S
           /\ b.above \subseteq a.above \union S
           /\ \A n \in 1..MaxSeq : IsApplied(b, n) <=> IsApplied(a, n) \/ n \in S
<1> DEFINE new == a.above \union {n \in S : n > a.cursor}
           c == AbsorbContiguous(a.cursor, new)
           m == [a EXCEPT !.cursor = c, !.above = AboveFrom(c, new)]
           b == MarkApplied(a, S)
<1> a.cursor \in 0..MaxSeq /\ a.above \in SUBSET (1..MaxSeq)
  BY DEF AgentRecord
<1>1. new \in SUBSET (1..MaxSeq)
  OBVIOUS
<1>2. b = Acking(m)
  BY DEF MarkApplied
<1> HIDE DEF new, b
<1> /\ c \in {a.cursor} \union new /\ c \in 0..MaxSeq /\ c >= a.cursor
    /\ \A i \in (a.cursor + 1)..c : i \in new
  BY <1>1, AbsorbContiguousSpec
<1> HIDE DEF c
<1>3. AboveFrom(c, new) \in SUBSET (1..MaxSeq) /\ AboveFrom(c, new) \subseteq new
  BY <1>1 DEF AboveFrom
<1> /\ m \in AgentRecord /\ SameWork(a, m) /\ m.cursor = c /\ m.above = AboveFrom(c, new)
    /\ m.spine = a.spine
  BY <1>3 DEF AgentRecord, SameWork
<1> HIDE DEF m
<1> /\ b \in AgentRecord /\ SameWork(m, b) /\ b.cursor = m.cursor /\ b.above = m.above
    /\ b.spine = Append(m.spine, AckOf(m)) /\ AckOf(m) \in Frames
  BY <1>2, AckingSpec
<1>4. AckOf(b) = AckOf(m)
  BY DEF AckOf
<1>5. new \subseteq a.above \union S
  BY DEF new
<1>6. ASSUME NEW n \in 1..MaxSeq
      PROVE  n <= c \/ n \in AboveFrom(c, new) <=> n <= a.cursor \/ n \in a.above \/ n \in S
  <2>1. n \in new <=> n \in a.above \/ (n \in S /\ n > a.cursor)
    BY DEF new
  <2>2. n \in AboveFrom(c, new) <=> n \in new /\ n > c
    BY DEF AboveFrom
  <2>3. n <= c /\ n > a.cursor => n \in new
    BY SMT
  <2> QED BY SMT, <2>1, <2>2, <2>3
<1>7. \A n \in 1..MaxSeq : IsApplied(b, n) <=> IsApplied(a, n) \/ n \in S
  BY <1>6 DEF IsApplied
<1>8. SameWork(a, b)
  BY DEF SameWork
<1> QED BY <1>3, <1>4, <1>5, <1>7, <1>8 DEF b

(* An op put in the buffer for the control loop, and one put in the turn-end   *)
(* queue: what changes and what does not.                                      *)
SameCursor(a, b) ==
    /\ b.proc = a.proc /\ b.up = a.up /\ b.ended = a.ended /\ b.reloaded = a.reloaded
    /\ b.ready = a.ready /\ b.cursor = a.cursor /\ b.above = a.above
    /\ b.busy = a.busy /\ b.done = a.done /\ b.spine = a.spine /\ b.sending = a.sending
Buffered(a, b, r) ==
    /\ SameCursor(a, b) /\ b.barrier = (a.barrier \/ r.op \in ReplayOps) /\ b.turn = a.turn
    /\ b.queued = a.queued \union {r.seq} /\ b.buffer = Append(a.buffer, r)
Parked(a, b, r) ==
    /\ SameCursor(a, b) /\ b.barrier = a.barrier /\ b.turn = a.turn \union {r}
    /\ b.queued = a.queued \union {r.seq} /\ b.buffer = a.buffer

(* dispatch: a known op is acked again or dropped; a new one is buffered,      *)
(* parked until the turn ends, or applied or refused at once.                  *)
LEMMA DispatchedSpec ==
    ASSUME NEW a \in AgentRecord, NEW r \in Retained
    PROVE  LET b == Dispatched(a, r) IN
           /\ b \in AgentRecord
           /\ \/ Seen(a, r.seq) /\ (b = a \/ b = Acking(a))
              \/ /\ ~Seen(a, r.seq) /\ r.op \in Pulled \union ReplayOps
                 /\ Buffered(a, b, r)
              \/ ~Seen(a, r.seq) /\ r.op \in TurnEnd /\ a.barrier /\ Parked(a, b, r)
              \/ /\ ~Seen(a, r.seq) /\ (r.op \in Immediate \/ (r.op \in TurnEnd /\ ~a.barrier))
                 /\ b = MarkApplied(a, {r.seq})
<1> DEFINE b == Dispatched(a, r)
           q == a.queued \union {r.seq}
           buf == Append(a.buffer, r)
           tu == a.turn \union {r}
<1> r.seq \in 1..MaxSeq /\ r.op \in Ops
  BY DEF Retained
<1> /\ a.queued \in SUBSET (1..MaxSeq) /\ a.buffer \in Seq(Retained)
    /\ a.turn \in SUBSET Retained /\ a.barrier \in BOOLEAN
  BY DEF AgentRecord
<1> q \in SUBSET (1..MaxSeq) /\ tu \in SUBSET Retained
  OBVIOUS
<1>1. buf \in Seq(Retained)
  BY ElemsSpec
<1>2. r.op \in Pulled \/ r.op \in ReplayOps \/ r.op \in TurnEnd \/ r.op \in Immediate
  BY ProtocolAssumption DEF Ops
<1> /\ r.op \in Pulled => r.op \notin ReplayOps /\ r.op \notin TurnEnd /\ r.op \notin Immediate
    /\ r.op \in ReplayOps => r.op \notin TurnEnd /\ r.op \notin Immediate
    /\ r.op \in TurnEnd => r.op \notin Immediate
  BY ProtocolAssumption, SessionAssumption
<1> HIDE DEF q, buf, tu
<1>3. CASE Seen(a, r.seq)
  <2> b = a \/ b = Acking(a)
    BY <1>3 DEF Seen, Dispatched
  <2>1. b \in AgentRecord
    BY AckingSpec
  <2> QED BY <1>3, <2>1
<1>4. CASE ~Seen(a, r.seq)
  <2> b = Taken(a, r)
    BY <1>4 DEF Seen, Dispatched
  <2>1. CASE r.op \in Pulled
    <3> b = [a EXCEPT !.queued = q, !.buffer = buf]
      BY SMT, <2>1 DEF Taken, Queued, q, buf
    <3>1. b \in AgentRecord
      BY <1>1 DEF AgentRecord
    <3>2. /\ SameCursor(a, b) /\ b.barrier = a.barrier /\ b.turn = a.turn
          /\ b.queued = q /\ b.buffer = buf
      BY DEF AgentRecord, SameCursor
    <3>3. a.barrier = (a.barrier \/ r.op \in ReplayOps)
      BY SMT, <2>1
    <3> QED BY <1>4, <2>1, <3>1, <3>2, <3>3 DEF Buffered, q, buf
  <2>2. CASE r.op \in ReplayOps
    <3> b = [a EXCEPT !.queued = q, !.buffer = buf, !.barrier = TRUE]
      BY SMT, <2>2 DEF Taken, Queued, q, buf
    <3>1. b \in AgentRecord
      BY <1>1 DEF AgentRecord
    <3>2. /\ SameCursor(a, b) /\ b.barrier = TRUE /\ b.turn = a.turn
          /\ b.queued = q /\ b.buffer = buf
      BY DEF AgentRecord, SameCursor
    <3>3. TRUE = (a.barrier \/ r.op \in ReplayOps)
      BY SMT, <2>2
    <3> QED BY <1>4, <2>2, <3>1, <3>2, <3>3 DEF Buffered, q, buf
  <2>3. CASE r.op \in TurnEnd /\ a.barrier
    <3> b = [a EXCEPT !.queued = q, !.turn = tu]
      BY SMT, <2>3 DEF Taken, q, tu
    <3>1. b \in AgentRecord
      BY DEF AgentRecord
    <3>2. /\ SameCursor(a, b) /\ b.barrier = a.barrier /\ b.turn = tu
          /\ b.queued = q /\ b.buffer = a.buffer
      BY DEF AgentRecord, SameCursor
    <3> QED BY <1>4, <2>3, <3>1, <3>2 DEF Parked, q, tu
  <2>4. CASE r.op \in Immediate \/ (r.op \in TurnEnd /\ ~a.barrier)
    <3> b = MarkApplied(a, {r.seq})
      BY SMT, <2>4 DEF Taken
    <3>1. {r.seq} \in SUBSET (1..MaxSeq)
      OBVIOUS
    <3>2. b \in AgentRecord
      BY SMT, <3>1, MarkSpec
    <3> QED BY <1>4, <2>4, <3>2
  <2> QED BY <1>2, <2>1, <2>2, <2>3, <2>4
<1> QED BY <1>3, <1>4

(* The agent's parts of Pending and Copies.                                    *)
LEMMA PendingSpec ==
    ASSUME TypeInv
    PROVE  /\ Pending \subseteq Retained /\ Copies \subseteq Retained
           /\ agent.turn \subseteq Pending /\ Elems(agent.buffer) \subseteq Pending
           /\ agent.busy # Nil => agent.busy \in Pending
           /\ rail.ops \subseteq Copies /\ drn.batch \subseteq Copies /\ Pending \subseteq Copies
           /\ \A r \in Retained : r.seq \in 1..MaxSeq /\ r.op \in Ops
<1>1. agent \in AgentRecord /\ drn \in DrainerRecord /\ rail \in SessionRecord
  BY DEF TypeInv, SessionInv
<1>2. /\ agent.turn \subseteq Retained /\ agent.buffer \in Seq(Retained)
      /\ agent.busy \in Retained \union {Nil}
  BY <1>1 DEF AgentRecord
<1>3. rail.ops \subseteq Retained /\ drn.batch \subseteq Retained
  BY <1>1 DEF SessionRecord, DrainerRecord
<1>4. Elems(agent.buffer) \subseteq Retained
  BY SMT, <1>2 DEF Elems
<1>5. \A r \in Retained : r.seq \in 1..MaxSeq /\ r.op \in Ops
  BY DEF Retained
<1> QED BY <1>2, <1>3, <1>4, <1>5 DEF Pending, Copies

(* A fresh process holds no op.                                                *)
LEMMA FreshPending ==
    ASSUME Fresh(agent) PROVE Pending = {}
BY ElemsEmpty DEF Fresh, Pending

-----------------------------------------------------------------------------
(* What a step that leaves most of the state alone keeps.                      *)

LEMMA UniqueShrink ==
    ASSUME UniqueInv, Copies' \subseteq Copies,
           Bound' => Bound /\ rail'.nextSeq = rail.nextSeq /\ sent' = sent
    PROVE  UniqueInv'
BY DEF UniqueInv

(* The agent fields its part of the invariant is about.                        *)
SameAgent(a, b) ==
    /\ b.proc = a.proc /\ b.cursor = a.cursor /\ b.above = a.above /\ b.queued = a.queued
    /\ b.turn = a.turn /\ b.buffer = a.buffer /\ b.busy = a.busy /\ b.done = a.done
    /\ b.ready = a.ready

(* The lane may drop ops and the drainer collect them: the agent's part holds. *)
LEMMA AgentKept ==
    ASSUME AgentInv, LoopInv, SameAgent(agent, agent'), agent'.up => agent.up,
           UNCHANGED <<did, refused, rejects>>,
           rail'.ops \subseteq rail.ops, drn'.batch \subseteq rail.ops \union drn.batch,
           Bound' => Bound /\ rail'.nextSeq = rail.nextSeq
    PROVE  AgentInv' /\ LoopInv' /\ Pending' = Pending
<1> Pending' = Pending
  BY DEF SameAgent, Pending, Elems
<1>1. LoopInv'
  <2>1. Elems(agent'.buffer) = Elems(agent.buffer) /\ Elems(agent.buffer)' = Elems(agent'.buffer)
    BY DEF SameAgent, Elems
  <2>2. \A op : HandledHere(op)' <=> HandledHere(op)
    BY DEF SameAgent, HandledHere
  <2> QED BY <2>1, <2>2 DEF LoopInv, SameAgent
<1>2. AgentInv'
  <2> /\ \A n : IsApplied(agent', n) <=> IsApplied(agent, n)
      /\ \A n : Seen(agent', n) <=> Seen(agent, n)
    BY DEF SameAgent, IsApplied, Seen
  <2> \A op : (HandledHere(op)' <=> HandledHere(op)) /\ (RejectedPrompt(op)' <=> RejectedPrompt(op))
    BY DEF SameAgent, HandledHere, RejectedPrompt
  <2>1. Bound' => /\ agent'.cursor <= rail'.nextSeq
                  /\ \A n \in agent'.above \union agent'.queued : n <= rail'.nextSeq
    BY DEF AgentInv, SameAgent
  <2>2. \A r \in rail'.ops : r.op \in LiveOps /\ IsApplied(agent', r.seq) => HandledHere(r.op)'
    BY DEF AgentInv
  <2>3. \A r \in rail'.ops : r.seq \in agent'.queued => r \in Pending' \/ RejectedPrompt(r.op)'
    BY DEF AgentInv, SameAgent
  <2>4. \A r \in Pending' : r.seq \in agent'.queued
    BY DEF AgentInv, SameAgent
  <2>5. agent'.up => \A r \in rail'.ops \union drn'.batch : HandledHere(r.op)' => Seen(agent', r.seq)
    BY DEF AgentInv
  <2> QED BY <2>1, <2>2, <2>3, <2>4, <2>5 DEF AgentInv
<1> QED BY <1>1, <1>2

(* A process that holds nothing and has handled nothing.                       *)
LEMMA AgentFresh ==
    ASSUME TypeInv', Fresh(agent)',
           \/ ~agent'.up
           \/ rail'.ops \union drn'.batch = {}
           \/ \A x \in did' \union refused' : x[1] # agent'.proc
    PROVE  AgentInv' /\ LoopInv' /\ Pending' = {}
<1> /\ agent'.cursor = 0 /\ agent'.above = {} /\ agent'.queued = {} /\ agent'.buffer = << >>
    /\ agent'.busy = Nil /\ ~agent'.done /\ agent'.turn = {}
  BY DEF Fresh
<1>1. Elems(agent.buffer)' = {}
  BY ElemsEmpty DEF Elems
<1>2. Pending' = {}
  BY <1>1 DEF Pending
<1>3. SessionInv(rail') /\ rail'.ops \subseteq Retained /\ rail'.nextSeq \in Nat
  BY SMT DEF TypeInv, SessionInv, SessionRecord
<1>4. \A r \in rail'.ops : ~IsApplied(agent', r.seq)
  BY SMT, <1>3 DEF IsApplied, Retained
<1>5. agent'.up => \A r \in rail'.ops \union drn'.batch : HandledHere(r.op)' => Seen(agent', r.seq)
  BY DEF HandledHere
<1>6. Distinct(agent'.buffer)
  BY ElemsEmpty
<1>7. LoopInv'
  BY <1>1, <1>6 DEF LoopInv
<1>8. 0 <= rail'.nextSeq
  BY SMT, <1>3
<1>9. AgentInv'
  BY <1>2, <1>4, <1>5, <1>8 DEF AgentInv
<1> QED BY <1>2, <1>7, <1>9

(* An ack that was right stays right while ops are appended and acked.         *)
LEMMA AckOKKept ==
    ASSUME NEW f \in Frames, TypeInv, TypeInv', AckOK(f),
           did \union refused \subseteq did' \union refused',
           rail'.nextSeq >= rail.nextSeq,
           \A r \in rail'.ops : r \in rail.ops \/ r.seq > rail.nextSeq
    PROVE  AckOK(f)'
<1>1. rail.nextSeq \in Nat /\ rail'.nextSeq \in Nat /\ rail'.ops \subseteq Retained
  BY SMT DEF TypeInv, SessionInv, SessionRecord
<1>2. f.cursor \in 0..MaxSeq /\ f.above \in SUBSET (1..MaxSeq)
  BY DEF Frames
<1>3. f.cursor <= rail'.nextSeq /\ \A n \in f.above : n <= rail'.nextSeq
  BY SMT, <1>1, <1>2 DEF AckOK
<1>4. ASSUME NEW r \in rail'.ops, r.seq > rail.nextSeq
      PROVE  ~(r.seq <= f.cursor \/ r.seq \in f.above)
  BY SMT, <1>1, <1>2, <1>4 DEF AckOK, Retained
<1>5. \A op : Handled(op) => Handled(op)'
  BY DEF Handled
<1> QED BY <1>3, <1>4, <1>5 DEF AckOK

(* The acks queued, in flight and held by a handler.                           *)
LEMMA FramesType ==
    ASSUME TypeInv
    PROVE  /\ Elems(agent.spine) \subseteq Frames /\ Elems(agent.sending) \subseteq Frames
           /\ \A p \in Procs : Elems(hnd[p].frames) \subseteq Frames
           /\ agent.spine \in Seq(Frames) /\ agent.sending \in Seq(Frames)
           /\ \A p \in Procs : hnd[p] \in HandlerRecord /\ hnd[p].frames \in Seq(Frames)
<1>1. agent \in AgentRecord /\ hnd \in [Procs -> HandlerRecord]
  BY DEF TypeInv
<1>2. agent.spine \in Seq(Frames) /\ agent.sending \in Seq(Frames)
  BY <1>1 DEF AgentRecord
<1>3. \A p \in Procs : hnd[p] \in HandlerRecord /\ hnd[p].frames \in Seq(Frames)
  BY <1>1 DEF HandlerRecord
<1>4. \A s \in Seq(Frames) : Elems(s) \subseteq Frames
  BY SMT DEF Elems
<1> QED BY <1>2, <1>3, <1>4

(* Acks stay right when only right ones are added and only the current         *)
(* process's reach a handler.                                                  *)
LEMMA AcksKept ==
    ASSUME TypeInv, TypeInv', AcksInv, late' = late,
           did \union refused \subseteq did' \union refused',
           Bound' => /\ Bound /\ rail'.nextSeq >= rail.nextSeq
                     /\ \A r \in rail'.ops : r \in rail.ops \/ r.seq > rail.nextSeq,
           \A f \in Elems(agent'.spine) \union Elems(agent'.sending) :
              f \in Elems(agent.spine) \union Elems(agent.sending) \/ (Bound' => AckOK(f)'),
           \A p \in Procs : \A f \in Elems(hnd'[p].frames) :
              Reaching(p)' => (Reaching(p) /\ f \in Elems(hnd[p].frames)) \/ f \in Elems(agent.spine)
    PROVE  AcksInv'
<1> SUFFICES ASSUME Bound'
             PROVE  /\ \A f \in Elems(agent'.spine) \union Elems(agent'.sending) : AckOK(f)'
                    /\ ~late' => \A p \in Procs : Reaching(p)' =>
                                   \A f \in Elems(hnd'[p].frames) : AckOK(f)'
  BY DEF AcksInv, Elems
<1>1. /\ Bound /\ rail'.nextSeq >= rail.nextSeq
      /\ \A r \in rail'.ops : r \in rail.ops \/ r.seq > rail.nextSeq
  OBVIOUS
<1>2. \A f \in Frames : AckOK(f) => AckOK(f)'
  BY <1>1, AckOKKept
<1>3. /\ \A f \in Elems(agent.spine) \union Elems(agent.sending) : AckOK(f)
      /\ ~late => \A p \in Procs : Reaching(p) => \A f \in Elems(hnd[p].frames) : AckOK(f)
  BY <1>1 DEF AcksInv
<1>4. /\ Elems(agent.spine) \subseteq Frames /\ Elems(agent.sending) \subseteq Frames
      /\ \A p \in Procs : Elems(hnd[p].frames) \subseteq Frames
  BY FramesType
<1> QED BY <1>2, <1>3, <1>4

(* The ack an agent queues is right: what it applied it handled.               *)
LEMMA AckOfAgent ==
    ASSUME AgentInv', Bound', agent'.proc \in Procs
    PROVE  AckOK(AckOf(agent))'
<1>1. AckOf(agent').cursor = agent'.cursor /\ AckOf(agent').above = agent'.above
  BY DEF AckOf
<1>2. \A op : HandledHere(op)' => Handled(op)'
  BY DEF HandledHere, Handled
<1> QED BY <1>1, <1>2 DEF AckOK, AgentInv, IsApplied

LEMMA RetainedKept ==
    ASSUME RetainedUntilHandled, late' = late, sent' \subseteq sent,
           did \union refused \subseteq did' \union refused',
           \A r \in rail.ops : r.op \in sent' => \E x \in rail'.ops : x.op = r.op
    PROVE  RetainedUntilHandled'
<1>1. \A op : Handled(op) => Handled(op)'
  BY DEF Handled
<1> QED BY <1>1 DEF RetainedUntilHandled

LEMMA RefusesKept ==
    ASSUME ReloadRefusesNothing, late' = late, refused' = refused, agent'.proc = agent.proc,
           agent'.reloaded => agent.reloaded
    PROVE  ReloadRefusesNothing'
BY DEF ReloadRefusesNothing

-----------------------------------------------------------------------------
(* The steps that end a process: Crash, Exit, and those of Reload and Stop.    *)
HostRecord ==
    [step : {"idle", "launched", "bound", "stopped", "restarted", "stopping"},
     state : {"none", "ready", "errored"}]

LEMMA KillStep ==
    ASSUME ProtocolInv, Kill, host' \in HostRecord, host'.step # "restarted",
           UNCHANGED <<rail, epoch, hnd, sent, did, refused, rejects, late>>, CallInv'
    PROVE  ProtocolInv'
<1> /\ TypeInv /\ LifeInv /\ CallInv /\ UniqueInv /\ AgentInv /\ LoopInv /\ AcksInv
    /\ ReloadInv /\ RetainedUntilHandled /\ ReloadRefusesNothing
  BY DEF ProtocolInv
<1>1. agent \in AgentRecord /\ agent.proc \in 0..MaxProc
  BY DEF TypeInv, AgentRecord
<1> agent' = [NewAgent(agent.proc) EXCEPT !.up = FALSE] /\ drn' = Idle
  BY DEF Kill
<1> /\ agent' \in AgentRecord /\ Fresh(agent') /\ agent'.proc = agent.proc /\ ~agent'.up
    /\ ~agent'.reloaded
  BY <1>1, GoneSpec
<1> Bound' = Bound /\ drn' \in DrainerRecord /\ drn'.pc = "idle" /\ drn'.batch = {}
  BY IdleType DEF Bound, Idle
<1> TypeInv'
  BY DEF TypeInv, HostRecord
<1>2. LifeInv'
  BY DEF LifeInv
<1>3. AgentInv' /\ LoopInv' /\ Pending' = {}
  BY AgentFresh
<1>4. UniqueInv'
  <2>1. Copies' \subseteq Copies
    BY <1>3 DEF Copies
  <2> QED BY <2>1, UniqueShrink
<1>5. AcksInv'
  <2>1. agent'.spine = << >> /\ agent'.sending = << >>
    BY DEF Fresh
  <2>2. Elems(agent'.spine) = {} /\ Elems(agent'.sending) = {}
    BY <2>1, ElemsEmpty
  <2>3. \A p \in Procs : (Reaching(p)' <=> Reaching(p)) /\ hnd'[p].frames = hnd[p].frames
    BY DEF Reaching
  <2>4. rail'.nextSeq >= rail.nextSeq
    BY SMT DEF TypeInv, SessionInv, SessionRecord
  <2> QED BY <2>2, <2>3, <2>4, AcksKept
<1>6. ReloadInv'
  BY DEF ReloadInv
<1>7. RetainedUntilHandled'
  BY RetainedKept
<1>8. ReloadRefusesNothing'
  BY DEF ReloadRefusesNothing
<1> QED BY <1>2, <1>3, <1>4, <1>5, <1>6, <1>7, <1>8 DEF ProtocolInv

LEMMA CrashStep == ProtocolInv /\ (Crash \/ Exit) => ProtocolInv'
<1> SUFFICES ASSUME ProtocolInv, Crash \/ Exit PROVE ProtocolInv'
  OBVIOUS
<1> TypeInv /\ CallInv
  BY DEF ProtocolInv
<1> /\ agent.up /\ Kill
    /\ UNCHANGED <<host, rail, epoch, hnd, sent, did, refused, rejects, late>>
  BY DEF Crash, Exit
<1>1. host.step \notin {"stopped", "restarted"} /\ host \in HostRecord
  BY DEF CallInv, TypeInv, HostRecord
<1>2. agent.proc \in 0..MaxProc
  BY DEF TypeInv, AgentRecord
<1>3. drn' = Idle /\ Fresh(agent') /\ ~agent'.up /\ ~agent'.reloaded
  BY <1>2, GoneSpec DEF Kill
<1>4. Bound' = Bound
  BY DEF Bound
<1>5. CallInv'
  BY <1>1, <1>3, <1>4 DEF CallInv
<1> QED BY <1>1, <1>5, KillStep

LEMMA StopStep == ProtocolInv /\ (ReloadStop \/ StopKill) => ProtocolInv'
<1> SUFFICES ASSUME ProtocolInv, ReloadStop \/ StopKill PROVE ProtocolInv'
  OBVIOUS
<1>1. TypeInv /\ CallInv
  BY DEF ProtocolInv
<1> Kill /\ UNCHANGED <<rail, epoch, hnd, sent, did, refused, rejects, late>>
  BY DEF ReloadStop, StopKill
<1> agent.proc \in 0..MaxProc /\ host.state \in {"none", "ready", "errored"}
    /\ host \in HostRecord
  BY <1>1 DEF TypeInv, AgentRecord, HostRecord
<1>2. agent'.proc = agent.proc /\ ~agent'.up
  BY GoneSpec DEF Kill
<1>3. Bound' = Bound
  BY DEF Bound
<1>4. \/ host'.step = "stopped" /\ agent.proc < MaxProc
      \/ host'.step = "idle" /\ ~Bound
  BY <1>1 DEF ReloadStop, StopKill, CallInv, HostRecord
<1>5. host' \in HostRecord
  BY DEF ReloadStop, StopKill, HostRecord
<1>6. CallInv'
  BY SMT, <1>2, <1>3, <1>4 DEF CallInv
<1>7. host'.step # "restarted"
  BY SMT, <1>4
<1> QED BY <1>5, <1>6, <1>7, KillStep

-----------------------------------------------------------------------------
(* The steps that unmap the session: markErrored and Stop.                     *)
LEMMA RetireStep == ProtocolInv /\ (ReloadFail \/ MarkErrored \/ StopRetire) => ProtocolInv'
<1> SUFFICES ASSUME ProtocolInv, ReloadFail \/ MarkErrored \/ StopRetire PROVE ProtocolInv'
  OBVIOUS
<1> /\ TypeInv /\ LifeInv /\ CallInv /\ UniqueInv /\ AgentInv /\ LoopInv /\ AcksInv
    /\ ReloadInv /\ RetainedUntilHandled /\ ReloadRefusesNothing
  BY DEF ProtocolInv
<1> /\ rail' = Unbound /\ sent' = {}
    /\ UNCHANGED <<epoch, drn, agent, hnd, did, refused, rejects, late>>
  BY DEF ReloadFail, MarkErrored, StopRetire, Retire
<1>1. host \in HostRecord
  BY DEF TypeInv, HostRecord
<1> /\ host' \in HostRecord
    /\ (host'.step = "idle" /\ ~agent.up) \/ host'.step = "stopping"
  <2>1. CASE ReloadFail
    <3>1. ~agent.up
      BY <2>1 DEF ReloadFail, CallInv
    <3> QED BY <2>1, <3>1 DEF ReloadFail, HostRecord
  <2>2. CASE MarkErrored
    <3>1. host' = [step |-> "idle", state |-> "errored"]
      BY SMT, <2>2 DEF MarkErrored
    <3> QED BY <2>2, <3>1 DEF MarkErrored, HostRecord
  <2>3. CASE StopRetire
    BY <2>3 DEF StopRetire, HostRecord
  <2> QED BY <2>1, <2>2, <2>3
<1> ~Bound' /\ SessionInv(rail') /\ rail'.ops = {}
  BY UnboundSpec DEF Bound
<1>2. TypeInv'
  BY DEF TypeInv, HostRecord
<1>3. LifeInv'
  BY DEF LifeInv
<1>4. CallInv'
  BY SMT DEF CallInv
<1>5. SameAgent(agent, agent')
  BY DEF SameAgent
<1>6. AgentInv' /\ LoopInv' /\ Pending' = Pending
  BY <1>5, AgentKept
<1>7. UniqueInv'
  <2>1. Copies' \subseteq Copies
    BY <1>6 DEF Copies
  <2> QED BY <2>1, UniqueShrink
<1>8. AcksInv'
  BY DEF AcksInv
<1>9. ReloadInv'
  <2>1. host'.step # "restarted"
    BY SMT
  <2> QED BY <2>1 DEF ReloadInv
<1>10. RetainedUntilHandled'
  BY DEF RetainedUntilHandled
<1>11. ReloadRefusesNothing'
  BY RefusesKept
<1> QED BY <1>2, <1>3, <1>4, <1>6, <1>7, <1>8, <1>9, <1>10, <1>11 DEF ProtocolInv

-----------------------------------------------------------------------------
(* A process is launched: by Start before the session is bound, by Reload on   *)
(* the lane it has just restarted.                                             *)
LEMMA LaunchStep == ProtocolInv /\ (StartLaunch \/ ReloadLaunch) => ProtocolInv'
<1> SUFFICES ASSUME ProtocolInv, StartLaunch \/ ReloadLaunch PROVE ProtocolInv'
  OBVIOUS
<1> /\ TypeInv /\ LifeInv /\ CallInv /\ UniqueInv /\ AgentInv /\ LoopInv /\ AcksInv
    /\ ReloadInv /\ RetainedUntilHandled /\ ReloadRefusesNothing
  BY DEF ProtocolInv
<1> UNCHANGED <<rail, epoch, drn, hnd, sent, did, refused, rejects, late>>
  BY DEF StartLaunch, ReloadLaunch
<1>1. ~agent.up /\ agent.proc < MaxProc
  BY DEF StartLaunch, ReloadLaunch, CallInv
<1>2. drn = Idle /\ drn.pc = "idle" /\ drn.batch = {} /\ drn.sent = 0 /\ drn.above = {}
  BY <1>1, IdleFields DEF LifeInv
<1> agent.proc \in 0..MaxProc /\ host \in HostRecord
  BY DEF TypeInv, AgentRecord, HostRecord
<1> /\ agent.proc + 1 \in 0..MaxProc /\ agent.proc + 1 \in Procs
    /\ \A i \in Procs : i <= agent.proc => i <= agent.proc + 1 /\ i # agent.proc + 1
  BY SMT, <1>1, ProtocolAssumption DEF Procs
<1> /\ agent' \in AgentRecord /\ Fresh(agent') /\ agent'.proc = agent.proc + 1 /\ agent'.up
    /\ ~agent'.barrier
    /\ \/ ~agent'.reloaded /\ ~Bound /\ host'.step = "launched"
       \/ agent'.reloaded /\ Bound /\ host'.step = "idle" /\ host'.state = "ready"
          /\ host.step = "restarted"
    /\ host' \in HostRecord
  <2>1. CASE StartLaunch
    <3>1. agent' = NewAgent(agent.proc + 1) /\ ~Bound
      BY <2>1 DEF StartLaunch, CallInv
    <3>2. host' \in HostRecord /\ host'.step = "launched"
      BY <2>1 DEF StartLaunch, HostRecord
    <3> QED BY <3>1, <3>2, NewAgentSpec
  <2>2. CASE ReloadLaunch
    <3>1. agent' = [NewAgent(agent.proc + 1) EXCEPT !.reloaded = TRUE] /\ Bound
      BY <2>2 DEF ReloadLaunch, CallInv
    <3>2. host' \in HostRecord /\ host'.step = "idle" /\ host'.state = "ready"
      BY <2>2 DEF ReloadLaunch, HostRecord
    <3>3. host.step = "restarted"
      BY <2>2 DEF ReloadLaunch
    <3> QED BY <3>1, <3>2, <3>3, ReloadedSpec
  <2> QED BY <2>1, <2>2
<1> Bound' = Bound
  BY DEF Bound
<1> TypeInv'
  BY DEF TypeInv, HostRecord
<1> \A x \in did' \union refused' : x[1] <= agent'.proc /\ x[1] # agent'.proc
  <2>1. \A x \in did \union refused : x[1] \in Procs /\ x[1] <= agent.proc
    BY SMT DEF TypeInv, LifeInv
  <2> QED BY <2>1
<1>3. LifeInv'
  BY DEF LifeInv
<1>4. CallInv'
  BY SMT, <1>2 DEF CallInv
<1>5. AgentInv' /\ LoopInv' /\ Pending' = {}
  BY AgentFresh
<1>6. UniqueInv'
  <2>1. Copies' \subseteq Copies
    BY <1>5 DEF Copies
  <2> QED BY <2>1, UniqueShrink
<1>7. AcksInv'
  <2>1. Elems(agent'.spine) = {} /\ Elems(agent'.sending) = {}
    BY ElemsEmpty DEF Fresh
  <2>2. \A p \in Procs : (Reaching(p)' <=> Reaching(p)) /\ hnd'[p].frames = hnd[p].frames
    BY DEF Reaching
  <2>3. rail'.nextSeq >= rail.nextSeq
    BY SMT DEF TypeInv, SessionInv, SessionRecord
  <2> QED BY <2>1, <2>2, <2>3, AcksKept
<1>8. ReloadInv'
  <2>1. ReplayFirst' <=> ReplayFirst
    BY DEF ReplayFirst, Reaching
  <2>2. host'.step # "restarted"
    BY SMT
  <2>3. agent'.reloaded /\ ~late => ReplayFirst
    BY DEF ReloadInv
  <2> QED BY <1>2, <2>1, <2>2, <2>3 DEF ReloadInv
<1>9. RetainedUntilHandled'
  BY RetainedKept
<1>10. ReloadRefusesNothing'
  BY DEF ReloadRefusesNothing
<1> QED BY <1>3, <1>4, <1>5, <1>6, <1>7, <1>8, <1>9, <1>10 DEF ProtocolInv

-----------------------------------------------------------------------------
(* A handler that read its epoch before a new one began is fenced off.         *)
LEMMA NoneReaching ==
    ASSUME TypeInv, LifeInv, NewEpoch, hnd' = hnd, rail'.epoch \in Nat, rail'.epoch > epoch
    PROVE  (late => late') /\ (~late' => \A p \in Procs : ~Reaching(p)')
<1>1. \A p \in Procs : hnd[p].epoch \in Nat /\ epoch \in Nat
  BY FramesType DEF TypeInv, HandlerRecord
<1>2. \A p \in Procs : hnd[p].step = "reading" => hnd[p].epoch # rail'.epoch
  BY SMT, <1>1 DEF LifeInv
<1>3. /\ late => late'
      /\ ~late' => \A p \in Procs : hnd[p].step # "opened"
  BY DEF NewEpoch, TypeInv
<1> QED BY <1>2, <1>3 DEF Reaching

(* Start binds the session its fresh process will subscribe to.                *)
LEMMA BindStep == ProtocolInv /\ StartBind => ProtocolInv'
<1> SUFFICES ASSUME ProtocolInv, StartBind PROVE ProtocolInv'
  OBVIOUS
<1> /\ TypeInv /\ LifeInv /\ CallInv /\ UniqueInv /\ AgentInv /\ LoopInv /\ AcksInv
    /\ ReloadInv /\ RetainedUntilHandled /\ ReloadRefusesNothing
  BY DEF ProtocolInv
<1> /\ UNCHANGED <<drn, agent, hnd, sent, did, refused, rejects>> /\ epoch' = epoch + 1
    /\ rail' = NewSession(epoch + 1) /\ NewEpoch /\ host.step = "launched"
    /\ host' \in HostRecord /\ host'.step = "bound" /\ host'.state = "ready"
  BY DEF StartBind, HostRecord
<1> ~Bound /\ drn = Idle /\ drn.batch = {} /\ Fresh(agent) /\ ~agent.reloaded /\ sent = {}
  BY IdleFields DEF CallInv, LifeInv
<1> epoch \in Nat /\ epoch + 1 \in Nat /\ epoch + 1 > epoch /\ epoch + 1 > 0
    /\ \A i \in Nat : i <= epoch => i <= epoch + 1
  BY SMT DEF TypeInv
<1> /\ SessionInv(rail') /\ rail'.epoch = epoch + 1 /\ rail'.ops = {} /\ ~rail'.retired
    /\ Bound'
  BY NewSessionInv, MappedSpec DEF Bound
<1>1. (late => late') /\ (~late' => \A p \in Procs : ~Reaching(p)')
  BY NoneReaching
<1>2. late' \in BOOLEAN
  BY SMT DEF NewEpoch
<1>3. TypeInv'
  BY <1>2 DEF TypeInv, HostRecord
<1>4. LifeInv'
  <2>1. \A p \in Procs : hnd[p].epoch \in Nat
    BY FramesType DEF HandlerRecord
  <2> QED BY <2>1 DEF LifeInv
<1>5. CallInv'
  BY SMT DEF CallInv
<1> Fresh(agent') /\ rail'.ops \union drn'.batch = {}
  OBVIOUS
<1>6. AgentInv' /\ LoopInv' /\ Pending' = {}
  BY <1>3, AgentFresh
<1>7. UniqueInv'
  <2>1. Copies' = {}
    BY <1>6 DEF Copies
  <2> QED BY <2>1 DEF UniqueInv
<1>8. AcksInv'
  <2>1. Elems(agent.spine)' = {} /\ Elems(agent.sending)' = {}
    BY SMT, ElemsEmpty DEF Fresh, Elems
  <2> QED BY <1>1, <2>1 DEF AcksInv
<1>9. ReloadInv'
  <2>1. host'.step # "restarted"
    BY SMT
  <2> QED BY <2>1 DEF ReloadInv
<1>10. RetainedUntilHandled'
  BY DEF RetainedUntilHandled
<1>11. ReloadRefusesNothing'
  BY DEF ReloadRefusesNothing
<1> QED BY <1>3, <1>4, <1>5, <1>6, <1>7, <1>8, <1>9, <1>10, <1>11 DEF ProtocolInv

(* Reload restarts the lane: replay_complete first, the unacked ops after it,  *)
(* under an epoch no handler has read.                                         *)
LEMMA RestartStep == ProtocolInv /\ ReloadRestart => ProtocolInv'
<1> SUFFICES ASSUME ProtocolInv, ReloadRestart PROVE ProtocolInv'
  OBVIOUS
<1> /\ TypeInv /\ LifeInv /\ CallInv /\ UniqueInv /\ AgentInv /\ LoopInv /\ AcksInv
    /\ ReloadInv /\ RetainedUntilHandled /\ ReloadRefusesNothing
  BY DEF ProtocolInv
<1> DEFINE s == Rebound
           e == RestartEpoch
<1>1. host \in HostRecord
  BY DEF TypeInv, HostRecord
<1> /\ UNCHANGED <<drn, agent, hnd, sent, did, refused, rejects>> /\ epoch' = e /\ NewEpoch
    /\ Cardinality(Kept(s)) < MaxSeq /\ rail' = Restarted(s, ReplayComplete, e)
    /\ host.step = "stopped" /\ host' \in HostRecord /\ host'.step = "restarted"
  BY <1>1 DEF ReloadRestart, HostRecord
<1> ~agent.up /\ agent.proc < MaxProc /\ Fresh(agent) /\ drn = Idle /\ drn.batch = {}
  BY IdleFields DEF CallInv, LifeInv
<1> epoch \in Nat /\ e \in Nat /\ e > epoch /\ e > 0
  BY SMT DEF TypeInv, RestartEpoch
<1> /\ SessionInv(s) /\ ~s.retired
    /\ Bound => s = rail
    /\ ~Bound => s.ops = {} /\ sent = {}
  <2>1. CASE Bound
    BY <2>1 DEF Rebound, TypeInv, LifeInv
  <2>2. CASE ~Bound
    <3>1. epoch + 1 \in Nat
      BY SMT
    <3>2. s = NewSession(epoch + 1) /\ sent = {}
      BY <2>2 DEF Rebound, LifeInv
    <3> QED BY <2>2, <3>1, <3>2, NewSessionInv
  <2> QED BY <2>1, <2>2
<1> HIDE DEF s, e
<1>2. \A r, q \in s.ops : r.op = q.op /\ r.op \in LiveOps => r = q
  <2>1. Bound => s.ops \subseteq Copies
    BY DEF Copies
  <2> QED BY <2>1 DEF UniqueInv
<1>3. ReplayComplete \in ReplayOps
  BY ReplaySpec
<1>4. SessionInv(rail')
  BY <1>3, RestartedInv
<1> /\ rail'.cursor = 0 /\ rail'.retired = s.retired /\ rail'.epoch = e
    /\ First \in rail'.ops
    /\ \A x \in rail'.ops : x.op \in LiveOps => \E r \in s.ops : r.op = x.op
    /\ \A x, y \in rail'.ops : x.op = y.op /\ x.op \in LiveOps => x = y
    /\ \A r \in s.ops : r.op \in LiveOps => \E x \in rail'.ops : x.op = r.op
  BY SMT, <1>2, <1>3, RestartedFields DEF First
<1>5. ~rail'.retired /\ Bound'
  BY MappedSpec DEF Bound
<1> (late => late') /\ (~late' => \A p \in Procs : ~Reaching(p)')
  BY NoneReaching
<1>6. late' \in BOOLEAN
  BY SMT DEF NewEpoch
<1>7. TypeInv'
  BY <1>4, <1>6 DEF TypeInv, HostRecord
<1>8. LifeInv'
  <2>1. \A p \in Procs : hnd[p].step = "reading" => hnd[p].epoch <= e
    <3>1. \A p \in Procs : hnd[p].epoch \in Nat
      BY FramesType DEF HandlerRecord
    <3> QED BY SMT, <3>1 DEF LifeInv
  <2> QED BY <1>5, <2>1 DEF LifeInv
<1>9. CallInv'
  BY SMT, <1>5 DEF CallInv
<1> Fresh(agent') /\ ~agent'.up /\ drn'.batch = {}
  OBVIOUS
<1>10. AgentInv' /\ LoopInv' /\ Pending' = {}
  BY <1>7, AgentFresh
<1>11. UniqueInv'
  <2>1. Copies' = rail'.ops
    BY <1>10 DEF Copies
  <2>2. /\ \A x, y \in rail'.ops : x.seq = y.seq => x = y
        /\ \A x \in rail'.ops : x.seq <= rail'.nextSeq
    BY <1>4 DEF SessionInv
  <2>3. \A x \in rail'.ops : x.op \in LiveOps => x.op \in sent'
    <3>1. Bound => \A r \in s.ops : r \in Copies
      BY DEF Copies
    <3> QED BY <3>1 DEF UniqueInv
  <2> QED BY <2>1, <2>2, <2>3 DEF UniqueInv
<1>12. AcksInv'
  <2>1. Elems(agent.spine)' = {} /\ Elems(agent.sending)' = {}
    BY SMT, ElemsEmpty DEF Fresh, Elems
  <2> QED BY <2>1 DEF AcksInv
<1>13. ReloadInv'
  BY DEF ReloadInv, ReplayFirst
<1>14. RetainedUntilHandled'
  <2> SUFFICES ASSUME ~late', NEW op \in sent'
               PROVE  Handled(op)' \/ \E r \in rail'.ops : r.op = op
    BY DEF RetainedUntilHandled
  <2> op \in sent /\ op \in LiveOps /\ Bound
    BY DEF TypeInv
  <2>1. Handled(op) \/ \E r \in rail.ops : r.op = op
    BY DEF RetainedUntilHandled
  <2>2. Handled(op) => Handled(op)'
    BY DEF Handled
  <2> QED BY SMT, <2>1, <2>2
<1>15. ReloadRefusesNothing'
  BY DEF ReloadRefusesNothing
<1> QED BY <1>7, <1>8, <1>9, <1>10, <1>11, <1>12, <1>13, <1>14, <1>15 DEF ProtocolInv

-----------------------------------------------------------------------------
(* An op is appended: replay_complete by Start, a live op by Deliver, which    *)
(* sends it once.                                                              *)
LEMMA AppendStep ==
    ASSUME ProtocolInv, Bound, NEW op \in Ops, rail.nextSeq < MaxSeq,
           rail' = Appended(rail, op),
           \/ op \in ReplayOps /\ sent' = sent
           \/ /\ op \in LiveOps /\ sent' = sent \union {op} /\ op \notin sent
              /\ \A x \in did \union refused : x[2] # op,
           UNCHANGED <<epoch, drn, agent, hnd, did, refused, rejects, late>>,
           host' \in HostRecord, host'.step = "restarted" => host.step = "restarted",
           Bound' => CallInv'
    PROVE  ProtocolInv'
<1> DEFINE new == [seq |-> rail.nextSeq + 1, op |-> op]
<1> /\ TypeInv /\ LifeInv /\ CallInv /\ UniqueInv /\ AgentInv /\ LoopInv /\ AcksInv
    /\ ReloadInv /\ RetainedUntilHandled /\ ReloadRefusesNothing
  BY DEF ProtocolInv
<1> /\ SessionInv(rail) /\ rail \in SessionRecord /\ rail.nextSeq \in Nat /\ ~rail.retired
    /\ rail.epoch = epoch /\ rail.ops \subseteq Retained
  BY SMT DEF TypeInv, SessionInv, SessionRecord, LifeInv
<1> /\ rail'.ops = rail.ops \union {new} /\ rail'.nextSeq = rail.nextSeq + 1
    /\ rail'.cursor = rail.cursor /\ rail'.retired = rail.retired /\ rail'.epoch = rail.epoch
  BY AppendedFields
<1>1. SessionInv(rail')
  BY AppendedInv
<1>2. Bound' /\ CallInv'
  BY MappedSpec DEF Bound
<1> new.seq = rail.nextSeq + 1 /\ new.op = op
  OBVIOUS
<1> HIDE DEF new
<1>3. op \in LiveOps => op \notin sent /\ \A x \in did \union refused : x[2] # op
  BY SessionAssumption
<1> sent \subseteq sent' /\ sent' \subseteq sent \union {op} /\ sent' \subseteq LiveOps
    /\ (op \in LiveOps => op \in sent')
  BY SessionAssumption DEF TypeInv
<1>4. TypeInv'
  BY <1>1 DEF TypeInv, HostRecord
<1>5. LifeInv'
  BY <1>2 DEF LifeInv
<1> Pending' = Pending /\ Copies' = Copies \union {new}
  <2>1. Pending' = Pending
    BY SMT DEF Pending, Elems
  <2> QED BY <2>1 DEF Copies
<1> /\ Copies \subseteq Retained
    /\ \A x \in Copies : x.seq <= rail.nextSeq /\ (x.op \in LiveOps => x.op \in sent)
  BY PendingSpec DEF UniqueInv
<1>6. \A x \in Copies : x.seq # new.seq /\ x.seq <= rail'.nextSeq
  BY SMT DEF Retained
<1>7. new.seq <= rail'.nextSeq
  BY SMT
<1>8. UniqueInv'
  <2>1. \A x \in Copies : x.op \in LiveOps => x.op # new.op
    BY <1>3
  <2>2. \A x, y \in Copies' : x.seq = y.seq => x = y
    BY <1>6 DEF UniqueInv
  <2>3. \A x, y \in Copies' : x.op = y.op /\ x.op \in LiveOps => x = y
    BY <2>1 DEF UniqueInv
  <2>4. \A x \in Copies' : x.seq <= rail'.nextSeq /\ (x.op \in LiveOps => x.op \in sent')
    BY <1>6, <1>7
  <2> QED BY <2>2, <2>3, <2>4 DEF UniqueInv
<1>9. AgentInv'
  <2>1. agent \in AgentRecord
    BY DEF TypeInv
  <2>2. agent.cursor \in 0..MaxSeq /\ agent.above \subseteq 1..MaxSeq /\ agent.queued \subseteq 1..MaxSeq
    BY <2>1 DEF AgentRecord
  <2>3. /\ agent.cursor <= rail.nextSeq
        /\ \A n \in agent.above \union agent.queued : n <= rail.nextSeq
    BY DEF AgentInv
  <2> /\ agent.cursor <= rail'.nextSeq /\ ~(new.seq <= agent.cursor)
      /\ \A n \in agent.above \union agent.queued : n <= rail'.nextSeq /\ n # new.seq
    BY SMT, <2>2, <2>3
  <2>4. ~HandledHere(op)
    <3>1. op \notin LiveOps => \A x \in did \union refused : x[2] # op
      BY SMT DEF TypeInv
    <3> QED BY SMT, <1>3, <3>1 DEF HandledHere
  <2>5. ~IsApplied(agent, new.seq) /\ new.seq \notin agent.queued
    BY DEF IsApplied
  <2>6. /\ \A x : HandledHere(x)' <=> HandledHere(x)
        /\ \A x : RejectedPrompt(x)' <=> RejectedPrompt(x)
    BY DEF HandledHere, RejectedPrompt
  <2> QED BY <2>4, <2>5, <2>6 DEF AgentInv
<1>10. LoopInv'
  BY SMT DEF LoopInv, Elems, HandledHere
<1>11. AcksInv'
  <2>1. \A p \in Procs : (Reaching(p)' <=> Reaching(p)) /\ hnd'[p].frames = hnd[p].frames
    BY DEF Reaching
  <2> rail'.nextSeq >= rail.nextSeq /\ new.seq > rail.nextSeq
    BY SMT
  <2>2. \A r \in rail'.ops : r \in rail.ops \/ r.seq > rail.nextSeq
    OBVIOUS
  <2>3. agent'.spine = agent.spine /\ agent'.sending = agent.sending
    OBVIOUS
  <2> QED BY <1>4, <2>1, <2>2, <2>3, AcksKept
<1>12. ReloadInv'
  <2>1. ReplayFirst => ReplayFirst'
    BY DEF ReplayFirst, Reaching
  <2> QED BY <2>1 DEF ReloadInv
<1>13. RetainedUntilHandled'
  <2>1. \A x : Handled(x) => Handled(x)'
    BY DEF Handled
  <2> QED BY <2>1 DEF RetainedUntilHandled
<1>14. ReloadRefusesNothing'
  BY RefusesKept
<1> QED BY <1>2, <1>4, <1>5, <1>8, <1>9, <1>10, <1>11, <1>12, <1>13, <1>14 DEF ProtocolInv

LEMMA SendStep ==
    ASSUME ProtocolInv, StartReplayComplete \/ \E op \in LiveOps : Deliver(op)
    PROVE  ProtocolInv'
<1> TypeInv /\ CallInv /\ host \in HostRecord
  BY DEF ProtocolInv, TypeInv, HostRecord
<1>1. CASE StartReplayComplete
  <2> /\ Bound /\ rail.nextSeq < MaxSeq /\ rail' = Appended(rail, ReplayComplete)
      /\ UNCHANGED <<epoch, drn, agent, hnd, sent, did, refused, rejects, late>>
    BY <1>1 DEF StartReplayComplete, CallInv
  <2> host' \in HostRecord /\ host'.step = "idle" /\ host'.state = host.state
    BY <1>1 DEF StartReplayComplete, HostRecord
  <2>1. ReplayComplete \in ReplayOps /\ ReplayComplete \in Ops
    BY ReplaySpec
  <2>2. host.step = "bound" => host.state = "ready"
    BY DEF CallInv
  <2>3. host.step = "bound"
    BY <1>1 DEF StartReplayComplete
  <2>4. Bound' => CallInv'
    BY SMT, <2>2, <2>3 DEF CallInv
  <2>5. host'.step # "restarted"
    BY SMT
  <2> QED BY <2>1, <2>4, <2>5, AppendStep
<1>2. CASE \E op \in LiveOps : Deliver(op)
  <2>1. PICK op \in LiveOps : Deliver(op)
    BY <1>2
  <2> /\ Bound /\ rail.nextSeq < MaxSeq /\ rail' = Appended(rail, op) /\ sent' = sent \union {op}
      /\ op \notin sent /\ \A x \in did \union refused : x[2] # op
      /\ UNCHANGED <<host, epoch, drn, agent, hnd, did, refused, rejects, late>>
    BY <2>1 DEF Deliver
  <2>2. op \in Ops
    BY DEF Ops
  <2>3. Bound' => CallInv'
    BY DEF CallInv
  <2> QED BY <2>2, <2>3, AppendStep
<1> QED BY <1>1, <1>2

-----------------------------------------------------------------------------
(* The Control stream opens, collects, parks and ends; the lane's ops and the  *)
(* agent's queues are untouched.                                               *)
LEMMA StreamStep ==
    ASSUME ProtocolInv, agent.up, host.step # "launched",
           UNCHANGED <<host, epoch, hnd, sent, did, refused, rejects, late>>,
           \/ rail' = rail
           \/ /\ Bound /\ SessionInv(rail') /\ rail'.ops = rail.ops /\ rail'.nextSeq = rail.nextSeq
              /\ rail'.cursor = rail.cursor /\ rail'.retired = rail.retired
              /\ rail'.epoch = rail.epoch,
           agent' = agent \/ agent' = [agent EXCEPT !.ended = TRUE],
           drn' \in DrainerRecord, drn'.batch \subseteq rail.ops \union drn.batch,
           drn'.pc = "check" => drn'.batch # {},
           ReplayFirst /\ drn.sent = 0 /\ drn.above = {} /\ (drn.batch # {} => First \in drn.batch)
             => drn'.sent = 0 /\ drn'.above = {} /\ (drn'.batch # {} => First \in drn'.batch)
    PROVE  ProtocolInv'
<1> /\ TypeInv /\ LifeInv /\ CallInv /\ UniqueInv /\ AgentInv /\ LoopInv /\ AcksInv
    /\ ReloadInv /\ RetainedUntilHandled /\ ReloadRefusesNothing
  BY DEF ProtocolInv
<1> agent \in AgentRecord /\ SessionInv(rail)
  BY DEF TypeInv
<1> /\ Bound' <=> Bound
    /\ SessionInv(rail') /\ rail'.ops = rail.ops /\ rail'.nextSeq = rail.nextSeq
    /\ rail'.cursor = rail.cursor /\ rail'.retired = rail.retired /\ rail'.epoch = rail.epoch
  <2>1. CASE rail' = rail
    BY <2>1 DEF Bound
  <2>2. CASE /\ Bound /\ SessionInv(rail') /\ rail'.ops = rail.ops
             /\ rail'.nextSeq = rail.nextSeq /\ rail'.cursor = rail.cursor
             /\ rail'.retired = rail.retired /\ rail'.epoch = rail.epoch
    <3>1. ~rail'.retired
      BY <2>2 DEF LifeInv
    <3> QED BY <2>2, <3>1, MappedSpec DEF Bound
  <2> QED BY <2>1, <2>2
<1> /\ agent' \in AgentRecord /\ SameAgent(agent, agent') /\ agent'.up
    /\ agent'.reloaded = agent.reloaded /\ agent'.barrier = agent.barrier
    /\ agent'.spine = agent.spine /\ agent'.sending = agent.sending
  <2>1. CASE agent' = agent
    BY <2>1 DEF SameAgent
  <2>2. CASE agent' = [agent EXCEPT !.ended = TRUE]
    BY <2>2 DEF AgentRecord, SameAgent
  <2> QED BY <2>1, <2>2
<1>1. TypeInv'
  BY DEF TypeInv
<1>2. LifeInv'
  BY DEF LifeInv, SameAgent
<1>3. CallInv'
  BY DEF CallInv
<1>4. AgentInv' /\ LoopInv' /\ Pending' = Pending
  BY AgentKept
<1>5. UniqueInv'
  <2>1. Copies' \subseteq Copies
    BY <1>4 DEF Copies
  <2> QED BY <2>1, UniqueShrink
<1>6. \A p \in Procs : (Reaching(p)' <=> Reaching(p)) /\ hnd'[p].frames = hnd[p].frames
  BY DEF Reaching
<1>7. AcksInv'
  <2>1. rail'.nextSeq >= rail.nextSeq
    BY SMT DEF SessionInv, SessionRecord
  <2> QED BY <1>1, <1>6, <2>1, AcksKept
<1>8. ReloadInv'
  <2> ReplayFirst' <=> ReplayFirst
    BY <1>6 DEF ReplayFirst
  <2>1. Fresh(agent)' <=> Fresh(agent)
    BY DEF Fresh, SameAgent
  <2>2. Opening(agent)' <=> Opening(agent)
    BY DEF SameAgent, Opening
  <2>3. (~late' /\ host'.step = "restarted") => ReplayFirst'
    BY DEF ReloadInv
  <2>4. ASSUME ~late', agent'.up, agent'.reloaded, ~agent'.barrier
        PROVE  /\ Fresh(agent)'
               /\ Bound' => ReplayFirst' /\ drn'.sent = 0 /\ drn'.above = {}
                            /\ (drn'.batch # {} => First \in drn'.batch)
    <3>1. /\ Fresh(agent)
          /\ Bound => ReplayFirst /\ drn.sent = 0 /\ drn.above = {}
                      /\ (drn.batch # {} => First \in drn.batch)
      BY <2>4 DEF ReloadInv
    <3> QED BY <2>1, <3>1
  <2>5. ASSUME ~late', agent'.up, agent'.reloaded, agent'.barrier, ~agent'.ready
        PROVE  Opening(agent)'
    BY <2>2, <2>5 DEF ReloadInv, SameAgent
  <2> QED BY <2>3, <2>4, <2>5 DEF ReloadInv
<1>9. RetainedUntilHandled'
  BY RetainedKept
<1>10. ReloadRefusesNothing'
  BY RefusesKept DEF SameAgent
<1> QED BY <1>1, <1>2, <1>3, <1>4, <1>5, <1>7, <1>8, <1>9, <1>10 DEF ProtocolInv

(* A subscription is served only to a running process of a bound session.      *)
LEMMA ServedUp ==
    ASSUME LifeInv, CallInv, drn.pc # "idle"
    PROVE  agent.up /\ host.step # "launched"
BY IdleFields DEF LifeInv, CallInv

LEMMA ConnectStep == ProtocolInv /\ Connect => ProtocolInv'
<1> SUFFICES ASSUME ProtocolInv, Connect PROVE ProtocolInv'
  OBVIOUS
<1>1. TypeInv /\ LifeInv /\ CallInv
  BY DEF ProtocolInv
<1> /\ agent.up /\ Bound /\ rail' = Claimed(rail, "agent") /\ drn' = Subscribed("session", rail)
    /\ UNCHANGED <<host, epoch, agent, hnd, sent, did, refused, rejects, late>>
  BY DEF Connect
<1> /\ SessionInv(rail) /\ rail \in SessionRecord /\ ~rail.retired
    /\ "session" \in Objects /\ "agent" \in Drainers /\ host.step # "launched"
  BY <1>1, ProtocolAssumption DEF TypeInv, SessionInv, LifeInv, CallInv
<1>2. SessionInv(rail') /\ drn' \in DrainerRecord
  BY SubscribedInv
<1>3. /\ rail'.ops = rail.ops /\ rail'.nextSeq = rail.nextSeq /\ rail'.cursor = rail.cursor
      /\ rail'.retired = rail.retired /\ rail'.epoch = rail.epoch
  BY ClaimedFields
<1>4. drn'.pc = "top" /\ drn'.sent = rail.cursor /\ drn'.above = {} /\ drn'.batch = {}
  BY SMT DEF Subscribed, Idle
<1>5. ReplayFirst => drn'.sent = 0
  BY <1>4 DEF ReplayFirst
<1> QED BY <1>2, <1>3, <1>4, <1>5, StreamStep

LEMMA EndStep == ProtocolInv /\ (DrainEnd \/ Drop) => ProtocolInv'
<1> SUFFICES ASSUME ProtocolInv, DrainEnd \/ Drop PROVE ProtocolInv'
  OBVIOUS
<1>1. TypeInv /\ LifeInv /\ CallInv
  BY DEF ProtocolInv
<1> /\ drn.pc # "idle" /\ drn' = Idle
    /\ UNCHANGED <<host, epoch, hnd, sent, did, refused, rejects, late>>
    /\ agent' = agent \/ agent' = [agent EXCEPT !.ended = TRUE]
    /\ rail' = rail \/ (Bound /\ rail' = [rail EXCEPT !.live = FALSE])
  BY DEF DrainEnd, Drop, Displaced
<1>2. SessionInv(rail) /\ rail \in SessionRecord
  BY <1>1 DEF TypeInv, SessionInv
<1>3. \/ rail' = rail
      \/ /\ Bound /\ SessionInv(rail') /\ rail'.ops = rail.ops /\ rail'.nextSeq = rail.nextSeq
         /\ rail'.cursor = rail.cursor /\ rail'.retired = rail.retired /\ rail'.epoch = rail.epoch
  BY <1>2, ClaimedFields, TombstonedInv
<1>4. drn' \in DrainerRecord /\ drn'.pc = "idle" /\ drn'.batch = {} /\ drn'.sent = 0 /\ drn'.above = {}
  BY IdleFields, IdleType
<1> QED BY <1>1, <1>3, <1>4, ServedUp, StreamStep

LEMMA DrainStep == ProtocolInv /\ (DrainTop \/ DrainWake) => ProtocolInv'
<1> SUFFICES ASSUME ProtocolInv, DrainTop \/ DrainWake PROVE ProtocolInv'
  OBVIOUS
<1> TypeInv /\ LifeInv /\ CallInv /\ drn \in DrainerRecord /\ SessionInv(rail)
  BY DEF ProtocolInv, TypeInv
<1>1. UNCHANGED <<host, rail, epoch, agent, hnd, sent, did, refused, rejects, late>>
  BY DEF DrainTop, DrainWake
<1>2. drn.pc # "idle"
  BY SMT DEF DrainTop, DrainWake
<1>3. CASE DrainTop
  <2>1. drn' = Collected(drn, rail)
    BY <1>3 DEF DrainTop
  <2> /\ drn' \in DrainerRecord /\ drn'.batch = CollectBatch(rail, drn'.sent, drn'.above)
      /\ drn'.pc = (IF drn'.batch = {} THEN "park" ELSE "check")
      /\ rail.cursor = 0 => drn'.sent = drn.sent /\ drn'.above = drn.above
    BY <2>1, CollectedFields
  <2>2. drn'.batch \subseteq rail.ops
    BY DEF CollectBatch
  <2>3. drn'.pc = "check" => drn'.batch # {}
    BY SMT
  <2>4. ASSUME ReplayFirst, drn.sent = 0, drn.above = {}
        PROVE  drn'.sent = 0 /\ drn'.above = {} /\ First \in drn'.batch
    <3>1. drn'.sent = 0 /\ drn'.above = {}
      BY <2>4 DEF ReplayFirst
    <3>2. First \in rail.ops /\ First.seq > 0 /\ First.op \in ReplayOps
      BY SMT, <2>4, ReplaySpec DEF ReplayFirst, First
    <3> QED BY <3>1, <3>2 DEF CollectBatch
  <2> QED BY <1>1, <1>2, <2>2, <2>3, <2>4, ServedUp, StreamStep
<1>4. CASE DrainWake
  <2>1. drn' = [drn EXCEPT !.pc = "top"]
    BY <1>4 DEF DrainWake
  <2>2. /\ drn' \in DrainerRecord /\ drn'.pc = "top" /\ drn'.batch = drn.batch
        /\ drn'.sent = drn.sent /\ drn'.above = drn.above
    BY <2>1 DEF DrainerRecord
  <2> QED BY <1>1, <1>2, <2>2, ServedUp, StreamStep
<1> QED BY <1>3, <1>4

-----------------------------------------------------------------------------
(* A Publish handler reads its epoch, routes an ack or ends.                   *)
LEMMA HandlerStep ==
    ASSUME ProtocolInv, UNCHANGED <<host, epoch, drn, sent, did, refused, rejects, late>>,
           \/ rail' = rail
           \/ /\ Bound /\ SessionInv(rail') /\ rail'.ops \subseteq rail.ops
              /\ rail'.nextSeq = rail.nextSeq /\ rail'.retired = rail.retired
              /\ rail'.epoch = rail.epoch /\ \E p \in Procs : Reaching(p),
           hnd' \in [Procs -> HandlerRecord],
           \A p \in Procs :
              /\ hnd'[p].step = "reading" => hnd'[p].epoch <= epoch
              /\ rail'.epoch = rail.epoch /\ Reaching(p)'
                   => Reaching(p) /\ Elems(hnd'[p].frames) \subseteq Elems(hnd[p].frames),
           agent' \in AgentRecord, SameAgent(agent, agent'), agent'.up = agent.up,
           agent'.reloaded = agent.reloaded, agent'.barrier = agent.barrier,
           Fresh(agent) => Fresh(agent'),
           Elems(agent'.spine) \union Elems(agent'.sending)
             \subseteq Elems(agent.spine) \union Elems(agent.sending),
           RetainedUntilHandled'
    PROVE  ProtocolInv'
<1> /\ TypeInv /\ LifeInv /\ CallInv /\ UniqueInv /\ AgentInv /\ LoopInv /\ AcksInv
    /\ ReloadInv /\ RetainedUntilHandled /\ ReloadRefusesNothing
  BY DEF ProtocolInv
<1>1. SessionInv(rail)
  BY DEF TypeInv
<1> /\ Bound' <=> Bound
    /\ SessionInv(rail') /\ rail'.ops \subseteq rail.ops /\ rail'.nextSeq = rail.nextSeq
    /\ rail'.retired = rail.retired /\ rail'.epoch = rail.epoch
  <2>1. CASE rail' = rail
    BY <1>1, <2>1 DEF Bound
  <2>2. CASE /\ Bound /\ SessionInv(rail') /\ rail'.ops \subseteq rail.ops
             /\ rail'.nextSeq = rail.nextSeq /\ rail'.retired = rail.retired
             /\ rail'.epoch = rail.epoch
    <3>1. ~rail'.retired
      BY <2>2 DEF LifeInv
    <3> QED BY <2>2, <3>1, MappedSpec DEF Bound
  <2> QED BY <2>1, <2>2
<1>2. TypeInv'
  BY DEF TypeInv
<1>3. LifeInv'
  BY DEF LifeInv, SameAgent
<1>4. CallInv'
  BY DEF CallInv, SameAgent
<1>5. AgentInv' /\ LoopInv' /\ Pending' = Pending
  BY AgentKept
<1>6. UniqueInv'
  <2>1. Copies' \subseteq Copies
    BY <1>5 DEF Copies
  <2> QED BY <2>1, UniqueShrink
<1>7. AcksInv'
  <2>1. rail'.nextSeq >= rail.nextSeq
    BY SMT, <1>1 DEF SessionInv, SessionRecord
  <2> QED BY <1>2, <2>1, AcksKept
<1>8. ReloadInv'
  <2> ReplayFirst => ReplayFirst'
    <3>1. ReplayFirst => rail' = rail
      BY DEF ReplayFirst
    <3> QED BY <3>1 DEF ReplayFirst
  <2>1. Opening(agent)' <=> Opening(agent)
    BY DEF SameAgent, Opening
  <2>2. (~late' /\ host'.step = "restarted") => ReplayFirst'
    BY DEF ReloadInv
  <2>3. ASSUME ~late', agent'.up, agent'.reloaded, ~agent'.barrier
        PROVE  /\ Fresh(agent)'
               /\ Bound' => ReplayFirst' /\ drn'.sent = 0 /\ drn'.above = {}
                            /\ (drn'.batch # {} => First \in drn'.batch)
    <3>1. /\ Fresh(agent)
          /\ Bound => ReplayFirst /\ drn.sent = 0 /\ drn.above = {}
                      /\ (drn.batch # {} => First \in drn.batch)
      BY <2>3 DEF ReloadInv
    <3> QED BY <3>1
  <2>4. ASSUME ~late', agent'.up, agent'.reloaded, agent'.barrier, ~agent'.ready
        PROVE  Opening(agent)'
    BY <2>1, <2>4 DEF ReloadInv, SameAgent
  <2> QED BY <2>2, <2>3, <2>4 DEF ReloadInv
<1>9. ReloadRefusesNothing'
  BY RefusesKept DEF SameAgent
<1> QED BY <1>2, <1>3, <1>4, <1>5, <1>6, <1>7, <1>8, <1>9 DEF ProtocolInv

LEMMA CaptureStep ==
    ASSUME ProtocolInv, NEW p \in Procs, CaptureEpoch(p)
    PROVE  ProtocolInv'
<1> TypeInv /\ LifeInv /\ RetainedUntilHandled /\ agent \in AgentRecord
    /\ hnd \in [Procs -> HandlerRecord]
  BY DEF ProtocolInv, TypeInv
<1> DEFINE e == IF Bound THEN rail.epoch ELSE 0
           h == [hnd[p] EXCEPT !.step = "reading", !.epoch = e]
<1> /\ hnd[p].step = "opened" /\ hnd' = [hnd EXCEPT ![p] = h]
    /\ UNCHANGED <<host, rail, epoch, drn, agent, sent, did, refused, rejects, late>>
  BY DEF CaptureEpoch
<1>1. e \in Nat /\ e <= epoch
  BY SMT DEF LifeInv, TypeInv
<1> HIDE DEF e
<1>2. h \in HandlerRecord /\ h.step = "reading" /\ h.epoch = e /\ h.frames = hnd[p].frames
  BY <1>1 DEF HandlerRecord
<1> HIDE DEF h
<1> /\ hnd' \in [Procs -> HandlerRecord] /\ hnd'[p] = h
    /\ \A q \in Procs : q # p => hnd'[q] = hnd[q]
  BY <1>2
<1>3. \A q \in Procs :
        /\ hnd'[q].step = "reading" => hnd'[q].epoch <= epoch
        /\ Reaching(q)' => Reaching(q) /\ Elems(hnd'[q].frames) \subseteq Elems(hnd[q].frames)
  <2> TAKE q \in Procs
  <2>1. CASE q = p
    BY <1>1, <1>2, <2>1 DEF Reaching
  <2>2. CASE q # p
    BY <2>2 DEF Reaching, LifeInv
  <2> QED BY <2>1, <2>2
<1>4. SameAgent(agent, agent') /\ RetainedUntilHandled'
  BY DEF SameAgent, RetainedUntilHandled, Handled
<1> QED BY <1>3, <1>4, HandlerStep

(* An ack of the current epoch drops handled ops only.                         *)
LEMMA RouteStep ==
    ASSUME ProtocolInv, NEW p \in Procs, RouteAck(p)
    PROVE  ProtocolInv'
<1> /\ TypeInv /\ LifeInv /\ AcksInv /\ RetainedUntilHandled /\ agent \in AgentRecord
    /\ hnd \in [Procs -> HandlerRecord] /\ SessionInv(rail)
  BY DEF ProtocolInv, TypeInv
<1> DEFINE ack == Head(hnd[p].frames)
           t == Acked(rail, AdvancedCursor(rail, ack.cursor), ack.above)
           h == [hnd[p] EXCEPT !.frames = Tail(hnd[p].frames)]
<1> /\ hnd[p].step = "reading" /\ hnd[p].frames # << >>
    /\ hnd' = [hnd EXCEPT ![p] = h]
    /\ UNCHANGED <<host, epoch, drn, agent, sent, did, refused, rejects, late>>
    /\ rail' = rail \/ (Bound /\ hnd[p].epoch = rail.epoch /\ rail' = t)
  <2>1. rail' = IF Bound /\ ~Fenced(rail, hnd[p].epoch) THEN t ELSE rail
    BY DEF RouteAck
  <2>2. rail' = rail \/ (Bound /\ hnd[p].epoch = rail.epoch /\ rail' = t)
    BY SMT, <2>1 DEF Fenced
  <2> QED BY <2>2 DEF RouteAck
<1>1. hnd[p] \in HandlerRecord /\ hnd[p].frames \in Seq(Frames)
  BY FramesType
<1> /\ ack \in Frames /\ ack \in Elems(hnd[p].frames) /\ Tail(hnd[p].frames) \in Seq(Frames)
    /\ Elems(Tail(hnd[p].frames)) \subseteq Elems(hnd[p].frames)
  <2>1. PICK f \in Frames : TRUE
    BY AckingSpec
  <2> QED BY SMT, <1>1, <2>1, ElemsSpec
<1>2. ack.cursor \in Nat
  BY SMT DEF Frames
<1> HIDE DEF ack
<1>3. /\ SessionInv(t) /\ t.ops \subseteq rail.ops
      /\ \A r \in rail.ops : r \in t.ops \/ r.seq <= ack.cursor \/ r.seq \in ack.above
      /\ t.nextSeq = rail.nextSeq /\ t.retired = rail.retired /\ t.epoch = rail.epoch
  BY SMT, <1>2, AckedInv, AckedFields
<1> HIDE DEF t
<1> /\ h \in HandlerRecord /\ h.step = hnd[p].step /\ h.epoch = hnd[p].epoch
    /\ h.frames = Tail(hnd[p].frames)
  BY <1>1 DEF HandlerRecord
<1> HIDE DEF h
<1> /\ hnd' \in [Procs -> HandlerRecord] /\ hnd'[p] = h
    /\ \A q \in Procs : q # p => hnd'[q] = hnd[q]
  OBVIOUS
<1>4. ASSUME NEW q \in Procs
      PROVE  /\ hnd'[q].step = "reading" => hnd'[q].epoch <= epoch
             /\ rail'.epoch = rail.epoch /\ Reaching(q)'
                  => Reaching(q) /\ Elems(hnd'[q].frames) \subseteq Elems(hnd[q].frames)
  <2>1. hnd'[q].step = hnd[q].step /\ hnd'[q].epoch = hnd[q].epoch
    OBVIOUS
  <2>2. Elems(hnd'[q].frames) \subseteq Elems(hnd[q].frames)
    OBVIOUS
  <2> QED BY <2>1, <2>2 DEF Reaching, LifeInv
<1>5. RetainedUntilHandled'
  <2>1. CASE rail' = rail
    BY <2>1 DEF RetainedUntilHandled, Handled
  <2>2. CASE Bound /\ hnd[p].epoch = rail.epoch /\ rail' = t
    <3>1. ~late => AckOK(ack)
      BY <2>2 DEF AcksInv, Reaching
    <3>2. \A op : Handled(op)' <=> Handled(op)
      BY DEF Handled
    <3>3. sent \subseteq LiveOps
      BY DEF TypeInv
    <3>4. ~late => \A r \in rail.ops : r.op \in sent => Handled(r.op) \/ r \in t.ops
      BY <1>3, <3>1, <3>3 DEF AckOK
    <3> QED BY <2>2, <3>2, <3>4 DEF RetainedUntilHandled
  <2> QED BY <2>1, <2>2
<1>6. SameAgent(agent, agent')
  BY DEF SameAgent
<1>7. \/ rail' = rail
      \/ /\ Bound /\ SessionInv(rail') /\ rail'.ops \subseteq rail.ops
         /\ rail'.nextSeq = rail.nextSeq /\ rail'.retired = rail.retired
         /\ rail'.epoch = rail.epoch /\ \E q \in Procs : Reaching(q)
  BY <1>3 DEF Reaching
<1> QED BY <1>4, <1>5, <1>6, <1>7, HandlerStep

(* The handler returns or its stream breaks; the batch is done with, put back  *)
(* in front of the queue, or given up.                                         *)
LEMMA PublishEndStep ==
    ASSUME ProtocolInv, NEW p \in Procs, PublishDone(p) \/ PublishBreak(p)
    PROVE  ProtocolInv'
<1> /\ TypeInv /\ LifeInv /\ AcksInv /\ RetainedUntilHandled /\ agent \in AgentRecord
    /\ hnd \in [Procs -> HandlerRecord] /\ SessionInv(rail)
  BY DEF ProtocolInv, TypeInv
<1> /\ hnd' = [hnd EXCEPT ![p] = NoHandler]
    /\ UNCHANGED <<host, rail, epoch, drn, sent, did, refused, rejects, late>>
    /\ \/ agent' = agent
       \/ agent' = [agent EXCEPT !.sending = << >>]
       \/ \E spine \in {agent.spine, agent.sending \o agent.spine} :
             agent' = [agent EXCEPT !.spine = spine, !.sending = << >>]
  BY DEF PublishDone, PublishBreak
<1>1. agent.spine \in Seq(Frames) /\ agent.sending \in Seq(Frames)
  BY FramesType
<1>2. /\ agent.sending \o agent.spine \in Seq(Frames)
      /\ Elems(agent.sending \o agent.spine) = Elems(agent.sending) \union Elems(agent.spine)
  <2>1. PICK f \in Frames : TRUE
    BY AckingSpec
  <2> QED BY SMT, <1>1, <2>1, ElemsSpec
<1> << >> \in Seq(Frames) /\ Elems(<< >>) = {}
  BY ElemsEmpty
<1>3. agent.sending = << >> /\ agent.spine = << >> => agent.sending \o agent.spine = << >>
  BY SMT
<1>4. PICK spine \in {agent.spine, agent.sending \o agent.spine} :
        \/ agent' = agent
        \/ agent' = [agent EXCEPT !.sending = << >>]
        \/ agent' = [agent EXCEPT !.spine = spine, !.sending = << >>]
  OBVIOUS
<1> /\ spine \in Seq(Frames) /\ Elems(spine) \subseteq Elems(agent.sending) \union Elems(agent.spine)
    /\ agent.sending = << >> /\ agent.spine = << >> => spine = << >>
  BY <1>1, <1>2, <1>3, <1>4
<1> /\ agent' \in AgentRecord /\ SameAgent(agent, agent') /\ agent'.up = agent.up
    /\ agent'.reloaded = agent.reloaded /\ agent'.barrier = agent.barrier
    /\ agent'.spine \in {agent.spine, spine} /\ agent'.sending \in {agent.sending, << >>}
  <2>1. CASE agent' = agent
    BY <2>1 DEF SameAgent
  <2>2. CASE agent' = [agent EXCEPT !.sending = << >>]
    BY <2>2 DEF SameAgent, AgentRecord
  <2>3. CASE agent' = [agent EXCEPT !.spine = spine, !.sending = << >>]
    BY <2>3 DEF SameAgent, AgentRecord
  <2> QED BY <1>4, <2>1, <2>2, <2>3
<1>5. Elems(agent'.spine) \union Elems(agent'.sending)
        \subseteq Elems(agent.spine) \union Elems(agent.sending)
  OBVIOUS
<1>6. Fresh(agent) => Fresh(agent')
  BY DEF Fresh, SameAgent
<1>7. NoHandler \in HandlerRecord /\ NoHandler.step = "none"
  <2>1. 0 \in Nat
    OBVIOUS
  <2> QED BY <2>1 DEF NoHandler, HandlerRecord
<1> /\ hnd' \in [Procs -> HandlerRecord] /\ hnd'[p] = NoHandler
    /\ \A q \in Procs : q # p => hnd'[q] = hnd[q]
  BY <1>7
<1>8. \A q \in Procs :
        /\ hnd'[q].step = "reading" => hnd'[q].epoch <= epoch
        /\ Reaching(q)' => Reaching(q) /\ Elems(hnd'[q].frames) \subseteq Elems(hnd[q].frames)
  <2> TAKE q \in Procs
  <2>1. CASE q = p
    <3>1. hnd'[q].step # "reading" /\ hnd'[q].step # "opened"
      BY SMT, <1>7, <2>1
    <3> QED BY <3>1 DEF Reaching
  <2>2. CASE q # p
    BY <2>2 DEF Reaching, LifeInv
  <2> QED BY <2>1, <2>2
<1>9. RetainedUntilHandled'
  BY DEF RetainedUntilHandled, Handled
<1> QED BY <1>5, <1>6, <1>8, <1>9, HandlerStep

-----------------------------------------------------------------------------
(* A step of a running process: the host, the lane and the epoch stay.         *)
LEMMA WorkStep ==
    ASSUME ProtocolInv, agent.up, drn.pc # "idle" \/ ~Fresh(agent),
           UNCHANGED <<host, rail, epoch, sent, late>>,
           agent' \in AgentRecord, agent'.up, agent'.proc = agent.proc,
           drn' \in DrainerRecord, drn'.pc = "check" => drn'.batch # {},
           hnd' \in [Procs -> HandlerRecord],
           \A p \in Procs : hnd'[p].step = "reading" => hnd'[p].epoch <= epoch,
           did \subseteq did', did' \subseteq did \union ({agent.proc} \X LiveOps),
           refused \subseteq refused', refused' \subseteq refused \union ({agent.proc} \X LiveOps),
           rejects' \in Nat
    PROVE  /\ TypeInv' /\ LifeInv' /\ CallInv' /\ RetainedUntilHandled'
           /\ (Bound' <=> Bound) /\ agent.proc \in Procs
<1> TypeInv /\ LifeInv /\ CallInv /\ RetainedUntilHandled
  BY DEF ProtocolInv
<1> Bound' <=> Bound
  BY DEF Bound
<1> agent.proc \in Procs /\ agent.proc <= agent.proc
  BY SMT DEF LifeInv, Procs
<1>1. {agent.proc} \X LiveOps \subseteq Procs \X LiveOps
  BY SMT
<1>2. TypeInv'
  BY <1>1 DEF TypeInv
<1>3. \A x \in did' \union refused' : x[1] <= agent'.proc
  <2>1. \A x \in {agent.proc} \X LiveOps : x[1] = agent.proc
    OBVIOUS
  <2> QED BY <2>1 DEF LifeInv
<1>4. LifeInv'
  BY <1>3 DEF LifeInv
<1>5. host.step # "launched"
  BY IdleFields DEF CallInv
<1>6. CallInv'
  BY <1>5 DEF CallInv
<1>7. RetainedUntilHandled'
  BY RetainedKept
<1> QED BY <1>2, <1>4, <1>6, <1>7

(* Once a reloaded process holds anything, it has decoded replay_complete.     *)
LEMMA BarrierUp ==
    ASSUME ProtocolInv, agent.up, ~Fresh(agent), ~late, agent.reloaded
    PROVE  agent.barrier /\ (agent.ready \/ Opening(agent))
BY DEF ProtocolInv, ReloadInv

LEMMA ReloadOpened ==
    ASSUME ProtocolInv, agent.up, UNCHANGED <<host, late>>,
           ~late /\ agent'.reloaded => agent'.barrier /\ (agent'.ready \/ Opening(agent)')
    PROVE  ReloadInv'
<1>1. host.step # "restarted"
  BY DEF ProtocolInv, CallInv
<1> QED BY <1>1 DEF ReloadInv

(* The spine sends what is queued.                                             *)
LEMMA PublishOpenStep == ProtocolInv /\ PublishOpen => ProtocolInv'
<1> SUFFICES ASSUME ProtocolInv, PublishOpen PROVE ProtocolInv'
  OBVIOUS
<1> /\ TypeInv /\ LifeInv /\ CallInv /\ UniqueInv /\ AgentInv /\ LoopInv /\ AcksInv
    /\ RetainedUntilHandled /\ ReloadRefusesNothing /\ agent \in AgentRecord
    /\ drn \in DrainerRecord /\ hnd \in [Procs -> HandlerRecord] /\ rejects \in Nat
  BY DEF ProtocolInv, TypeInv
<1> DEFINE p == agent.proc
           h == [step |-> "opened", epoch |-> 0, frames |-> agent.spine]
           out == agent.sending \o agent.spine
<1> /\ agent.up /\ agent.sending = << >> /\ agent.spine # << >>
    /\ hnd' = [hnd EXCEPT ![p] = h]
    /\ agent' = [agent EXCEPT !.sending = out, !.spine = << >>]
    /\ UNCHANGED <<host, rail, epoch, drn, sent, did, refused, rejects, late>>
  BY DEF PublishOpen
<1> agent.spine \in Seq(Frames) /\ agent.sending \in Seq(Frames)
  BY FramesType
<1>1. out \in Seq(Frames) /\ Elems(out) = Elems(agent.spine) /\ << >> \in Seq(Frames) /\ Elems(<< >>) = {}
  <2>1. out = agent.spine
    BY SMT
  <2> QED BY <2>1, ElemsEmpty
<1> HIDE DEF out
<1> /\ agent' \in AgentRecord /\ SameAgent(agent, agent') /\ agent'.up
    /\ agent'.proc = agent.proc /\ agent'.reloaded = agent.reloaded
    /\ agent'.barrier = agent.barrier /\ agent'.spine = << >> /\ agent'.sending = out
  BY <1>1 DEF AgentRecord, SameAgent
<1>2. ~Fresh(agent)
  BY DEF Fresh
<1>3. p \in Procs
  BY DEF LifeInv
<1> h \in HandlerRecord /\ h.step = "opened" /\ h.frames = agent.spine
  <2>1. 0 \in Nat
    OBVIOUS
  <2> QED BY <2>1 DEF HandlerRecord
<1> HIDE DEF h
<1> /\ hnd' \in [Procs -> HandlerRecord] /\ hnd'[p] = h
    /\ \A q \in Procs : q # p => hnd'[q] = hnd[q]
  BY <1>3
<1>4. h.step # "reading"
  BY SMT
<1>5. \A q \in Procs : hnd'[q].step = "reading" => hnd'[q].epoch <= epoch
  BY <1>4 DEF LifeInv
<1>6. drn'.pc = "check" => drn'.batch # {}
  BY DEF LifeInv
<1> TypeInv' /\ LifeInv' /\ CallInv' /\ RetainedUntilHandled' /\ (Bound' <=> Bound)
  BY <1>2, <1>5, <1>6, WorkStep
<1>7. AgentInv' /\ LoopInv' /\ Pending' = Pending
  BY AgentKept
<1>8. UniqueInv'
  <2>1. Copies' \subseteq Copies
    BY <1>7 DEF Copies
  <2> QED BY <2>1, UniqueShrink
<1>9. AcksInv'
  <2>1. \A q \in Procs : \A f \in Elems(hnd'[q].frames) :
          Reaching(q)' => (Reaching(q) /\ f \in Elems(hnd[q].frames)) \/ f \in Elems(agent.spine)
    <3> TAKE q \in Procs
    <3>1. CASE q = p
      BY <3>1
    <3>2. CASE q # p
      BY <3>2 DEF Reaching
    <3> QED BY <3>1, <3>2
  <2>2. rail'.nextSeq >= rail.nextSeq
    BY SMT DEF TypeInv, SessionInv, SessionRecord
  <2>3. \A f \in Elems(agent'.spine) \union Elems(agent'.sending) :
          f \in Elems(agent.spine) \union Elems(agent.sending)
    BY <1>1
  <2> QED BY <2>1, <2>2, <2>3, AcksKept
<1>10. ReloadInv'
  <2>1. (Opening(agent)' <=> Opening(agent)) /\ agent'.ready = agent.ready
    BY DEF Opening, SameAgent
  <2> QED BY <1>2, <2>1, BarrierUp, ReloadOpened
<1>11. ReloadRefusesNothing'
  BY RefusesKept
<1> QED BY <1>7, <1>8, <1>9, <1>10, <1>11 DEF ProtocolInv

-----------------------------------------------------------------------------
(* The control loop.  The ops it holds only move, and what it newly handled is *)
(* an op it holds.                                                             *)
LEMMA AgentMoved ==
    ASSUME TypeInv, UniqueInv, AgentInv, Pending' = Pending, UNCHANGED <<rail, drn, rejects>>,
           agent'.proc = agent.proc, agent'.up => agent.up, agent'.cursor = agent.cursor,
           agent'.above = agent.above, agent'.queued = agent.queued,
           \A op : HandledHere(op) => HandledHere(op)',
           \A op : HandledHere(op)' =>
              HandledHere(op) \/ (op \in LiveOps /\ \E r \in Pending : r.op = op)
    PROVE  AgentInv'
<1> /\ \A n : IsApplied(agent', n) <=> IsApplied(agent, n)
    /\ \A n : Seen(agent', n) <=> Seen(agent, n)
    /\ \A op : RejectedPrompt(op)' <=> RejectedPrompt(op)
    /\ Bound' <=> Bound
  BY DEF IsApplied, Seen, RejectedPrompt, Bound
<1>1. ASSUME agent'.up, NEW r \in rail'.ops \union drn'.batch, HandledHere(r.op)'
      PROVE  Seen(agent', r.seq)
  <2>1. CASE HandledHere(r.op)
    BY <1>1, <2>1 DEF AgentInv
  <2>2. CASE r.op \in LiveOps /\ \E q \in Pending : q.op = r.op
    <3> PICK q \in Pending : q.op = r.op
      BY <2>2
    <3>1. q = r
      BY <2>2 DEF UniqueInv, Copies
    <3>2. r.seq \in agent.queued
      BY <3>1 DEF AgentInv
    <3> QED BY <3>2 DEF Seen
  <2> QED BY <1>1, <2>1, <2>2
<1>2. Bound' => /\ agent'.cursor <= rail'.nextSeq
                /\ \A n \in agent'.above \union agent'.queued : n <= rail'.nextSeq
  BY DEF AgentInv
<1>3. \A r \in rail'.ops : r.op \in LiveOps /\ IsApplied(agent', r.seq) => HandledHere(r.op)'
  BY DEF AgentInv
<1>4. /\ \A r \in rail'.ops : r.seq \in agent'.queued => r \in Pending' \/ RejectedPrompt(r.op)'
      /\ \A r \in Pending' : r.seq \in agent'.queued
  BY DEF AgentInv
<1> QED BY <1>1, <1>2, <1>3, <1>4 DEF AgentInv

LEMMA PullStep == ProtocolInv /\ Pull => ProtocolInv'
<1> SUFFICES ASSUME ProtocolInv, Pull PROVE ProtocolInv'
  OBVIOUS
<1> /\ TypeInv /\ LifeInv /\ CallInv /\ UniqueInv /\ AgentInv /\ LoopInv /\ AcksInv
    /\ RetainedUntilHandled /\ ReloadRefusesNothing /\ agent \in AgentRecord
    /\ drn \in DrainerRecord /\ hnd \in [Procs -> HandlerRecord] /\ rejects \in Nat
  BY DEF ProtocolInv, TypeInv
<1> DEFINE buf == agent.buffer
           r == Head(buf)
<1> /\ agent.up /\ agent.busy = Nil /\ buf # << >>
    /\ agent' = [agent EXCEPT !.busy = r, !.buffer = Tail(buf)]
    /\ UNCHANGED <<host, rail, epoch, drn, hnd, sent, did, refused, rejects, late>>
  BY DEF Pull
<1> buf \in Seq(Retained)
  BY DEF AgentRecord
<1> /\ r \in Retained /\ r \in Elems(buf) /\ Tail(buf) \in Seq(Retained)
    /\ Elems(buf) = {r} \union Elems(Tail(buf))
  <2>1. Head(buf) \in Retained
    BY SMT
  <2> QED BY SMT, <2>1, ElemsSpec
<1>1. r # Nil
  BY ProtocolAssumption
<1>2. r \notin Elems(Tail(buf)) /\ Distinct(Tail(buf))
  BY TailDistinct DEF LoopInv
<1> HIDE DEF r
<1> /\ agent' \in AgentRecord /\ agent'.up /\ agent'.proc = agent.proc
    /\ agent'.cursor = agent.cursor /\ agent'.above = agent.above /\ agent'.queued = agent.queued
    /\ agent'.turn = agent.turn /\ agent'.busy = r /\ agent'.buffer = Tail(buf)
    /\ agent'.done = agent.done /\ agent'.ready = agent.ready
    /\ agent'.reloaded = agent.reloaded /\ agent'.barrier = agent.barrier
    /\ agent'.spine = agent.spine /\ agent'.sending = agent.sending
  BY DEF AgentRecord
<1>3. ~Fresh(agent)
  BY DEF Fresh
<1>4. /\ drn'.pc = "check" => drn'.batch # {}
      /\ \A p \in Procs : hnd'[p].step = "reading" => hnd'[p].epoch <= epoch
  BY DEF LifeInv
<1> TypeInv' /\ LifeInv' /\ CallInv' /\ RetainedUntilHandled' /\ (Bound' <=> Bound)
  BY <1>3, <1>4, WorkStep
<1>5. Elems(agent.buffer)' = Elems(Tail(buf))
  BY SMT DEF Elems
<1>6. Pending' = Pending
  BY <1>1, <1>5 DEF Pending
<1>7. \A op : HandledHere(op)' <=> HandledHere(op)
  BY DEF HandledHere
<1>8. AgentInv'
  BY <1>6, <1>7, AgentMoved
<1>9. LoopInv'
  <2>1. ~agent.done
    BY DEF LoopInv
  <2>2. \A x \in Elems(buf) : x.op \in Pulled \union ReplayOps
    BY DEF LoopInv
  <2>3. \A x \in agent'.turn : x.op \in TurnEnd
    BY DEF LoopInv
  <2> QED BY SMT, <1>2, <1>5, <2>1, <2>2, <2>3 DEF LoopInv
<1>10. UniqueInv'
  <2>1. Copies' \subseteq Copies
    BY <1>6 DEF Copies
  <2> QED BY <2>1, UniqueShrink
<1>11. AcksInv'
  <2>1. \A q \in Procs : (Reaching(q)' <=> Reaching(q)) /\ hnd'[q].frames = hnd[q].frames
    BY DEF Reaching
  <2>2. rail'.nextSeq >= rail.nextSeq
    BY SMT DEF TypeInv, SessionInv, SessionRecord
  <2> QED BY <2>1, <2>2, AcksKept
<1>12. ReloadInv'
  <2>1. Opening(agent) => Opening(agent)'
    BY <1>1 DEF Opening, r
  <2> QED BY <1>3, <2>1, BarrierUp, ReloadOpened
<1>13. ReloadRefusesNothing'
  BY RefusesKept
<1> QED BY <1>8, <1>9, <1>10, <1>11, <1>12, <1>13 DEF ProtocolInv

LEMMA ApplyStep == ProtocolInv /\ ApplyControl => ProtocolInv'
<1> SUFFICES ASSUME ProtocolInv, ApplyControl PROVE ProtocolInv'
  OBVIOUS
<1> /\ TypeInv /\ LifeInv /\ CallInv /\ UniqueInv /\ AgentInv /\ LoopInv /\ AcksInv
    /\ RetainedUntilHandled /\ ReloadRefusesNothing /\ agent \in AgentRecord
    /\ drn \in DrainerRecord /\ hnd \in [Procs -> HandlerRecord] /\ rejects \in Nat
  BY DEF ProtocolInv, TypeInv
<1> DEFINE op == agent.busy.op
           rdy == agent.ready \/ op \in ReplayOps
           D == Noted(agent.proc, op, op \in Pulled /\ agent.ready)
           R == Noted(agent.proc, op, op \in Pulled /\ ~agent.ready)
<1> /\ agent.up /\ agent.busy # Nil /\ ~agent.done
    /\ agent' = [agent EXCEPT !.done = TRUE, !.ready = rdy]
    /\ did' = did \union D /\ refused' = refused \union R
    /\ UNCHANGED <<host, rail, epoch, drn, hnd, sent, rejects, late>>
  BY DEF ApplyControl
<1> /\ D \subseteq {<<agent.proc, op>>} /\ R \subseteq {<<agent.proc, op>>}
    /\ D \union R # {} => op \in Pulled
    /\ op \in Pulled => D \union R = {<<agent.proc, op>>}
    /\ R # {} => ~agent.ready
  BY SMT DEF Noted
<1>1. D \subseteq {agent.proc} \X LiveOps /\ R \subseteq {agent.proc} \X LiveOps
  BY SMT, ProtocolAssumption
<1> HIDE DEF D, R
<1>2. rdy \in BOOLEAN
  OBVIOUS
<1> /\ agent' \in AgentRecord /\ agent'.up /\ agent'.proc = agent.proc
    /\ agent'.cursor = agent.cursor /\ agent'.above = agent.above /\ agent'.queued = agent.queued
    /\ agent'.turn = agent.turn /\ agent'.busy = agent.busy /\ agent'.buffer = agent.buffer
    /\ agent'.done /\ agent'.ready = rdy
    /\ agent'.reloaded = agent.reloaded /\ agent'.barrier = agent.barrier
    /\ agent'.spine = agent.spine /\ agent'.sending = agent.sending
  BY <1>2 DEF AgentRecord
<1>3. ~Fresh(agent)
  BY DEF Fresh
<1>4. /\ drn'.pc = "check" => drn'.batch # {}
      /\ \A p \in Procs : hnd'[p].step = "reading" => hnd'[p].epoch <= epoch
  BY DEF LifeInv
<1> TypeInv' /\ LifeInv' /\ CallInv' /\ RetainedUntilHandled' /\ (Bound' <=> Bound)
  <2>1. /\ did \subseteq did' /\ did' \subseteq did \union ({agent.proc} \X LiveOps)
        /\ refused \subseteq refused' /\ refused' \subseteq refused \union ({agent.proc} \X LiveOps)
    BY <1>1
  <2> QED BY <1>3, <1>4, <2>1, WorkStep
<1>5. Pending' = Pending
  BY SMT DEF Pending, Elems
<1> /\ \A o : HandledHere(o) => HandledHere(o)'
    /\ \A o : HandledHere(o)' => HandledHere(o) \/ (op \in Pulled /\ o = op)
    /\ op \in Pulled => <<agent.proc, op>> \in did' \union refused'
  <2>1. \A o : <<agent.proc, o>> \in D \union R => o = op
    BY SMT
  <2> did' \union refused' = (did \union refused) \union (D \union R)
    OBVIOUS
  <2>2. \A o : HandledHere(o)' <=> HandledHere(o) \/ <<agent.proc, o>> \in D \union R
    BY DEF HandledHere
  <2>3. \A o : <<agent.proc, o>> \in D \union R => op \in Pulled
    OBVIOUS
  <2>4. op \in Pulled => <<agent.proc, op>> \in D \union R
    OBVIOUS
  <2> QED BY <2>1, <2>2, <2>3, <2>4
<1>6. AgentInv'
  <2>1. agent.busy \in Pending
    BY DEF Pending
  <2>2. op \in Pulled => op \in LiveOps
    BY ProtocolAssumption
  <2>3. \A o : HandledHere(o)' => HandledHere(o) \/ (o \in LiveOps /\ \E r \in Pending : r.op = o)
    BY <2>1, <2>2
  <2> QED BY <1>5, <2>3, AgentMoved
<1>7. LoopInv'
  <2>1. Elems(agent.buffer)' = Elems(agent.buffer)
    BY SMT DEF Elems
  <2>2. /\ \A x \in agent'.turn : x.op \in TurnEnd
        /\ \A x \in Elems(agent.buffer)' : x.op \in Pulled \union ReplayOps
        /\ agent'.busy # Nil => /\ agent'.busy \notin Elems(agent.buffer)'
                                /\ agent'.busy.op \in Pulled \union ReplayOps
        /\ Distinct(agent'.buffer)
    BY SMT, <2>1 DEF LoopInv
  <2>3. /\ agent'.busy # Nil /\ (agent'.busy.op \in ReplayOps => agent'.ready)
        /\ (agent'.busy.op \in Pulled => HandledHere(agent.busy.op)')
    BY DEF HandledHere
  <2> QED BY <2>2, <2>3 DEF LoopInv
<1>8. UniqueInv'
  <2>1. Copies' \subseteq Copies
    BY <1>5 DEF Copies
  <2> QED BY <2>1, UniqueShrink
<1>9. AcksInv'
  <2>1. \A q \in Procs : (Reaching(q)' <=> Reaching(q)) /\ hnd'[q].frames = hnd[q].frames
    BY DEF Reaching
  <2>2. rail'.nextSeq >= rail.nextSeq
    BY SMT DEF TypeInv, SessionInv, SessionRecord
  <2>3. did \union refused \subseteq did' \union refused'
    OBVIOUS
  <2> QED BY <2>1, <2>2, <2>3, AcksKept
<1>10. ~late /\ agent.reloaded => agent.barrier /\ (agent.ready \/ op \in ReplayOps)
  BY <1>3, BarrierUp DEF Opening
<1>11. ReloadInv'
  BY <1>10, ReloadOpened
<1>12. ReloadRefusesNothing'
  <2>1. ~late /\ agent.reloaded => R = {}
    BY <1>10, ProtocolAssumption, SessionAssumption
  <2> QED BY <2>1 DEF ReloadRefusesNothing
<1> QED BY <1>6, <1>7, <1>8, <1>9, <1>11, <1>12 DEF ProtocolInv

-----------------------------------------------------------------------------
(* A set of ops is marked applied, each of them handled by then: they leave    *)
(* the queues and their numbers become the cursor's.                           *)
LEMMA MarkedInv ==
    ASSUME TypeInv, UniqueInv, AgentInv, UNCHANGED <<rail, rejects>>,
           drn'.batch \subseteq drn.batch,
           NEW a \in AgentRecord, NEW M \in SUBSET Copies,
           agent' = MarkApplied(a, Seqs(M)), a.queued = agent.queued \ Seqs(M),
           a.proc = agent.proc, a.up => agent.up, a.cursor = agent.cursor, a.above = agent.above,
           Pending' = Pending \ M,
           \A op : HandledHere(op) => HandledHere(op)',
           \A op : HandledHere(op)' =>
              HandledHere(op) \/ (op \in LiveOps /\ \E t \in M : t.op = op),
           \A t \in M : t.op \in LiveOps => HandledHere(t.op)'
    PROVE  AgentInv'
<1> DEFINE S == Seqs(M)
<1> /\ Copies \subseteq Retained /\ Pending \subseteq Copies /\ rail.ops \subseteq Copies
    /\ drn.batch \subseteq Copies /\ \A r \in Retained : r.seq \in 1..MaxSeq
  BY PendingSpec
<1>1. S \in SUBSET (1..MaxSeq)
  BY DEF Seqs
<1>2. \A r \in Copies : r.seq \in S => r \in M
  <2> SUFFICES ASSUME NEW r \in Copies, r.seq \in S PROVE r \in M
    OBVIOUS
  <2> PICK t \in M : t.seq = r.seq
    BY DEF Seqs
  <2>1. t = r
    BY DEF UniqueInv
  <2> QED BY <2>1
<1>3. \A t \in M : t.seq \in S
  BY DEF Seqs
<1> HIDE DEF S
<1> /\ SameWork(a, agent')
    /\ agent'.cursor \in {a.cursor} \union a.above \union S
    /\ agent'.above \subseteq a.above \union S
    /\ \A n \in 1..MaxSeq : IsApplied(agent', n) <=> IsApplied(a, n) \/ n \in S
  BY <1>1, MarkSpec DEF S
<1> agent'.queued = agent.queued \ S /\ agent'.proc = agent.proc /\ (agent'.up => agent.up)
  BY DEF SameWork, S
<1>4. \A n : IsApplied(a, n) <=> IsApplied(agent, n)
  BY DEF IsApplied
<1>5. (Bound' <=> Bound) /\ \A op : RejectedPrompt(op)' <=> RejectedPrompt(op)
  BY DEF Bound, RejectedPrompt
<1>6. Bound => \A n \in S : n <= rail.nextSeq
  <2> SUFFICES ASSUME Bound, NEW n \in S PROVE n <= rail.nextSeq
    OBVIOUS
  <2>1. PICK t \in M : n = t.seq
    BY DEF Seqs, S
  <2> QED BY <2>1 DEF UniqueInv
<1>7. Bound' => /\ agent'.cursor <= rail'.nextSeq
                /\ \A n \in agent'.above \union agent'.queued : n <= rail'.nextSeq
  BY <1>5, <1>6 DEF AgentInv
<1>8. ASSUME NEW r \in rail'.ops, r.op \in LiveOps, IsApplied(agent', r.seq)
      PROVE  HandledHere(r.op)'
  <2> r \in Copies /\ r.seq \in 1..MaxSeq /\ r \in rail.ops
    OBVIOUS
  <2>1. IsApplied(agent, r.seq) \/ r \in M
    BY <1>2, <1>4, <1>8
  <2> QED BY <1>8, <2>1 DEF AgentInv
<1>9. ASSUME NEW r \in rail'.ops, r.seq \in agent'.queued
      PROVE  r \in Pending' \/ RejectedPrompt(r.op)'
  BY <1>3, <1>5, <1>9 DEF AgentInv
<1>10. ASSUME NEW r \in Pending'
       PROVE  r.seq \in agent'.queued
  <2>1. r \in Pending /\ r \in Copies /\ r \notin M
    OBVIOUS
  <2> QED BY <1>2, <2>1 DEF AgentInv
<1>11. ASSUME agent'.up, NEW r \in rail'.ops \union drn'.batch, HandledHere(r.op)'
       PROVE  Seen(agent', r.seq)
  <2> r \in Copies /\ r.seq \in 1..MaxSeq /\ r \in rail.ops \union drn.batch
    OBVIOUS
  <2>1. CASE HandledHere(r.op)
    <3>1. IsApplied(agent, r.seq) \/ r.seq \in agent.queued
      BY <1>11, <2>1 DEF AgentInv, Seen
    <3> QED BY <1>4, <3>1 DEF Seen
  <2>2. CASE r.op \in LiveOps /\ \E t \in M : t.op = r.op
    <3>1. r \in M
      BY <2>2 DEF UniqueInv
    <3> QED BY <1>3, <3>1 DEF Seen
  <2> QED BY <1>11, <2>1, <2>2
<1> QED BY <1>7, <1>8, <1>9, <1>10, <1>11 DEF AgentInv

(* The spine after a mark: the acks there were, and one that is right.         *)
LEMMA AckedAgain ==
    ASSUME TypeInv, TypeInv', AgentInv', AcksInv, UNCHANGED <<rail, hnd, late>>,
           did \union refused \subseteq did' \union refused', agent'.proc \in Procs,
           agent'.spine = agent.spine \/ agent'.spine = Append(agent.spine, AckOf(agent)'),
           AckOf(agent)' \in Frames, agent'.sending = agent.sending
    PROVE  AcksInv'
<1>1. agent.spine \in Seq(Frames)
  BY FramesType
<1>2. Elems(agent'.spine) \subseteq Elems(agent.spine) \union {AckOf(agent)'}
  <2>1. \A e \in Frames : Elems(Append(agent.spine, e)) = Elems(agent.spine) \union {e}
    BY SMT, <1>1, ElemsSpec
  <2> QED BY <2>1
<1>3. Bound' => AckOK(AckOf(agent))'
  BY AckOfAgent
<1>4. ASSUME NEW f, f = AckOf(agent)', Bound' PROVE AckOK(f)'
  BY <1>3, <1>4 DEF AckOK
<1>5. \A f \in Elems(agent'.spine) \union Elems(agent'.sending) :
         f \in Elems(agent.spine) \union Elems(agent.sending) \/ (Bound' => AckOK(f)')
  BY <1>2, <1>4
<1>6. \A q \in Procs : (Reaching(q)' <=> Reaching(q)) /\ hnd'[q].frames = hnd[q].frames
  BY DEF Reaching
<1>7. rail'.nextSeq >= rail.nextSeq /\ (Bound' <=> Bound)
  BY SMT DEF TypeInv, SessionInv, SessionRecord, Bound
<1> QED BY <1>5, <1>6, <1>7, AcksKept

LEMMA AckPulledStep == ProtocolInv /\ AckPulled => ProtocolInv'
<1> SUFFICES ASSUME ProtocolInv, AckPulled PROVE ProtocolInv'
  OBVIOUS
<1> /\ TypeInv /\ LifeInv /\ CallInv /\ UniqueInv /\ AgentInv /\ LoopInv /\ AcksInv
    /\ RetainedUntilHandled /\ ReloadRefusesNothing /\ agent \in AgentRecord
    /\ drn \in DrainerRecord /\ hnd \in [Procs -> HandlerRecord] /\ rejects \in Nat
  BY DEF ProtocolInv, TypeInv
<1> DEFINE b == agent.busy
           M == {b}
           left == agent.queued \ {b.seq}
           a == [agent EXCEPT !.busy = Nil, !.done = FALSE, !.queued = left]
<1> /\ agent.up /\ agent.done
    /\ UNCHANGED <<host, rail, epoch, drn, hnd, sent, did, refused, rejects, late>>
  BY DEF AckPulled
<1>1. agent' = MarkApplied(a, {b.seq})
  BY DEF AckPulled
<1> /\ b # Nil /\ (b.op \in ReplayOps => agent.ready) /\ (b.op \in Pulled => HandledHere(b.op))
    /\ b.op \in Pulled \union ReplayOps /\ b \notin Elems(agent.buffer)
  BY DEF LoopInv
<1>2. b \in Pending /\ b \in Copies /\ b \in Retained /\ b.seq \in 1..MaxSeq
  BY PendingSpec
<1>3. Seqs(M) = {b.seq}
  BY DEF Seqs
<1>4. left \in SUBSET (1..MaxSeq)
  BY DEF AgentRecord
<1> /\ a \in AgentRecord /\ a.busy = Nil /\ a.done = FALSE /\ a.queued = left
    /\ a.proc = agent.proc /\ a.up = agent.up /\ a.cursor = agent.cursor /\ a.above = agent.above
    /\ a.turn = agent.turn /\ a.buffer = agent.buffer /\ a.reloaded = agent.reloaded
    /\ a.barrier = agent.barrier /\ a.ready = agent.ready /\ a.spine = agent.spine
    /\ a.sending = agent.sending
  BY <1>4 DEF AgentRecord
<1> HIDE DEF a
<1>5. {b.seq} \in SUBSET (1..MaxSeq)
  BY <1>2
<1> /\ agent' \in AgentRecord /\ SameWork(a, agent')
    /\ agent'.spine = Append(a.spine, AckOf(agent')) /\ AckOf(agent') \in Frames
  <2> DEFINE m == MarkApplied(a, {b.seq})
  <2>1. /\ m \in AgentRecord /\ SameWork(a, m)
        /\ m.spine = Append(a.spine, AckOf(m)) /\ AckOf(m) \in Frames
    BY SMT, <1>5, MarkSpec
  <2> HIDE DEF m
  <2>2. agent' = m
    BY <1>1 DEF m
  <2> QED BY <2>1, <2>2
<1> /\ agent'.up /\ agent'.proc = agent.proc /\ agent'.turn = agent.turn
    /\ agent'.buffer = agent.buffer /\ agent'.busy = Nil /\ ~agent'.done
    /\ agent'.reloaded = agent.reloaded /\ agent'.barrier = agent.barrier
    /\ agent'.ready = agent.ready /\ agent'.sending = agent.sending
  BY DEF SameWork
<1>6. ~Fresh(agent)
  BY DEF Fresh
<1>7. /\ drn'.pc = "check" => drn'.batch # {}
      /\ \A p \in Procs : hnd'[p].step = "reading" => hnd'[p].epoch <= epoch
  BY DEF LifeInv
<1> /\ TypeInv' /\ LifeInv' /\ CallInv' /\ RetainedUntilHandled' /\ (Bound' <=> Bound)
    /\ agent.proc \in Procs
  BY <1>6, <1>7, WorkStep
<1>8. Elems(agent.buffer)' = Elems(agent.buffer)
  BY SMT DEF Elems
<1>9. Pending' = Pending \ M
  <2>1. b \notin agent.turn
    BY ProtocolAssumption, SessionAssumption DEF LoopInv
  <2> QED BY <1>8, <2>1 DEF Pending
<1>10. \A op : HandledHere(op)' <=> HandledHere(op)
  BY DEF HandledHere
<1>11. AgentInv'
  <2>1. \A t \in M : t.op \in LiveOps => HandledHere(t.op)'
    BY <1>10, SessionAssumption
  <2>2. M \in SUBSET Copies /\ drn'.batch \subseteq drn.batch
    BY <1>2
  <2>3. agent' = MarkApplied(a, Seqs(M)) /\ a.queued = agent.queued \ Seqs(M)
    BY <1>1, <1>3
  <2> HIDE DEF M
  <2> QED BY <1>9, <1>10, <2>1, <2>2, <2>3, MarkedInv
<1>12. LoopInv'
  <2>1. /\ \A r \in agent'.turn : r.op \in TurnEnd
        /\ \A r \in Elems(agent.buffer)' : r.op \in Pulled \union ReplayOps
    BY <1>8 DEF LoopInv
  <2>2. Distinct(agent'.buffer)
    BY DEF LoopInv
  <2> QED BY <2>1, <2>2 DEF LoopInv
<1>13. UniqueInv'
  <2>1. Copies' \subseteq Copies
    BY <1>9 DEF Copies
  <2> QED BY <2>1, UniqueShrink
<1>14. AcksInv'
  BY <1>11, AckedAgain
<1>15. ReloadInv'
  BY <1>6, BarrierUp, ReloadOpened DEF Opening
<1>16. ReloadRefusesNothing'
  BY RefusesKept
<1> QED BY <1>11, <1>12, <1>13, <1>14, <1>15, <1>16 DEF ProtocolInv

(* The turn-end flush: the whole queue is injected, then acked.                *)
LEMMA FlushStep == ProtocolInv /\ FlushTurnEnd => ProtocolInv'
<1> SUFFICES ASSUME ProtocolInv, FlushTurnEnd PROVE ProtocolInv'
  OBVIOUS
<1> /\ TypeInv /\ LifeInv /\ CallInv /\ UniqueInv /\ AgentInv /\ LoopInv /\ AcksInv
    /\ RetainedUntilHandled /\ ReloadRefusesNothing /\ agent \in AgentRecord
    /\ drn \in DrainerRecord /\ hnd \in [Procs -> HandlerRecord] /\ rejects \in Nat
  BY DEF ProtocolInv, TypeInv
<1> DEFINE M == agent.turn
           left == agent.queued \ Seqs(M)
           a == [agent EXCEPT !.turn = {}, !.queued = left]
           D == {<<agent.proc, r.op>> : r \in M}
<1> /\ agent.up /\ M # {} /\ did' = did \union D
    /\ UNCHANGED <<host, rail, epoch, drn, hnd, sent, refused, rejects, late>>
  BY DEF FlushTurnEnd
<1>1. agent' = MarkApplied(a, Seqs(M))
  BY DEF FlushTurnEnd
<1> /\ M \subseteq Pending /\ M \subseteq Copies /\ M \subseteq Retained
    /\ \A r \in M : r.op \in TurnEnd /\ r.op \in LiveOps
  BY PendingSpec, ProtocolAssumption DEF LoopInv
<1>2. Seqs(M) \in SUBSET (1..MaxSeq)
  BY DEF Seqs, Retained
<1>3. left \in SUBSET (1..MaxSeq)
  BY DEF AgentRecord
<1> /\ a \in AgentRecord /\ a.turn = {} /\ a.queued = left
    /\ a.proc = agent.proc /\ a.up = agent.up /\ a.cursor = agent.cursor /\ a.above = agent.above
    /\ a.busy = agent.busy /\ a.done = agent.done
    /\ a.buffer = agent.buffer /\ a.reloaded = agent.reloaded
    /\ a.barrier = agent.barrier /\ a.ready = agent.ready /\ a.spine = agent.spine
    /\ a.sending = agent.sending
  BY <1>3 DEF AgentRecord
<1> HIDE DEF a
<1> /\ agent' \in AgentRecord /\ SameWork(a, agent')
    /\ agent'.spine = Append(a.spine, AckOf(agent')) /\ AckOf(agent') \in Frames
  <2> DEFINE m == MarkApplied(a, Seqs(M))
  <2>1. /\ m \in AgentRecord /\ SameWork(a, m)
        /\ m.spine = Append(a.spine, AckOf(m)) /\ AckOf(m) \in Frames
    BY SMT, <1>2, MarkSpec
  <2> HIDE DEF m
  <2>2. agent' = m
    BY <1>1 DEF m
  <2> QED BY <2>1, <2>2
<1> /\ agent'.up /\ agent'.proc = agent.proc /\ agent'.turn = {}
    /\ agent'.buffer = agent.buffer /\ agent'.busy = agent.busy /\ agent'.done = agent.done
    /\ agent'.reloaded = agent.reloaded /\ agent'.barrier = agent.barrier
    /\ agent'.ready = agent.ready /\ agent'.sending = agent.sending
  BY DEF SameWork
<1>4. ~Fresh(agent)
  BY DEF Fresh
<1>5. /\ drn'.pc = "check" => drn'.batch # {}
      /\ \A p \in Procs : hnd'[p].step = "reading" => hnd'[p].epoch <= epoch
  BY DEF LifeInv
<1>6. D \subseteq {agent.proc} \X LiveOps
  BY SMT
<1>7. /\ \A op : <<agent.proc, op>> \in D => \E t \in M : t.op = op
      /\ \A t \in M : <<agent.proc, t.op>> \in D
  OBVIOUS
<1> HIDE DEF D
<1> /\ TypeInv' /\ LifeInv' /\ CallInv' /\ RetainedUntilHandled' /\ (Bound' <=> Bound)
    /\ agent.proc \in Procs
  <2>1. did \subseteq did' /\ did' \subseteq did \union ({agent.proc} \X LiveOps)
    BY <1>6
  <2> QED BY <1>4, <1>5, <2>1, WorkStep
<1>8. Elems(agent.buffer)' = Elems(agent.buffer)
  BY SMT DEF Elems
<1>9. Pending' = Pending \ M
  <2>1. \A r \in Elems(agent.buffer) : r \notin M
    BY ProtocolAssumption, SessionAssumption DEF LoopInv
  <2>2. agent.busy # Nil => agent.busy \notin M
    BY ProtocolAssumption, SessionAssumption DEF LoopInv
  <2> QED BY SMT, <1>8, <2>1, <2>2 DEF Pending
<1> \A op : HandledHere(op)' <=> HandledHere(op) \/ <<agent.proc, op>> \in D
  BY DEF HandledHere
<1>10. AgentInv'
  <2>1. \A t \in M : t.op \in LiveOps => HandledHere(t.op)'
    BY <1>7
  <2>2. \A op : HandledHere(op)' =>
          HandledHere(op) \/ (op \in LiveOps /\ \E t \in M : t.op = op)
    <3> SUFFICES ASSUME NEW op, <<agent.proc, op>> \in D
                 PROVE  op \in LiveOps /\ \E t \in M : t.op = op
      OBVIOUS
    <3> PICK t \in M : t.op = op
      BY <1>7
    <3> QED OBVIOUS
  <2>3. M \in SUBSET Copies /\ drn'.batch \subseteq drn.batch
    OBVIOUS
  <2>4. agent' = MarkApplied(a, Seqs(M)) /\ a.queued = agent.queued \ Seqs(M)
    BY <1>1
  <2>5. \A op : HandledHere(op) => HandledHere(op)'
    OBVIOUS
  <2> HIDE DEF M
  <2> QED BY <1>9, <2>1, <2>2, <2>3, <2>4, <2>5, MarkedInv
<1>11. LoopInv'
  <2>1. HandledHere(agent.busy.op) => HandledHere(agent.busy.op)'
    BY DEF HandledHere
  <2>2. /\ \A r \in agent'.turn : r.op \in TurnEnd
        /\ \A r \in Elems(agent.buffer)' : r.op \in Pulled \union ReplayOps
    BY <1>8 DEF LoopInv
  <2>3. Distinct(agent'.buffer)
    BY DEF LoopInv
  <2>4. agent'.busy # Nil => agent'.busy \notin Elems(agent.buffer)'
                             /\ agent'.busy.op \in Pulled \union ReplayOps
    BY <1>8 DEF LoopInv
  <2> QED BY <2>1, <2>2, <2>3, <2>4 DEF LoopInv
<1>12. UniqueInv'
  <2>1. Copies' \subseteq Copies
    BY <1>9 DEF Copies
  <2> QED BY <2>1, UniqueShrink
<1>13. AcksInv'
  <2>1. did \union refused \subseteq did' \union refused'
    OBVIOUS
  <2> QED BY <1>10, <2>1, AckedAgain
<1>14. ReloadInv'
  <2>1. Opening(agent)' <=> Opening(agent)
    BY DEF Opening
  <2> QED BY <1>4, <2>1, BarrierUp, ReloadOpened
<1>15. ReloadRefusesNothing'
  BY RefusesKept
<1> QED BY <1>10, <1>11, <1>12, <1>13, <1>14, <1>15 DEF ProtocolInv

(* A rejected prompt: the queue is gone, its numbers stay queued.              *)
LEMMA RejectStep == ProtocolInv /\ FlushRejected => ProtocolInv'
<1> SUFFICES ASSUME ProtocolInv, FlushRejected PROVE ProtocolInv'
  OBVIOUS
<1> /\ TypeInv /\ LifeInv /\ CallInv /\ UniqueInv /\ AgentInv /\ LoopInv /\ AcksInv
    /\ RetainedUntilHandled /\ ReloadRefusesNothing /\ agent \in AgentRecord
    /\ drn \in DrainerRecord /\ hnd \in [Procs -> HandlerRecord] /\ rejects \in Nat
  BY DEF ProtocolInv, TypeInv
<1> /\ agent.up /\ agent.turn # {} /\ agent' = [agent EXCEPT !.turn = {}]
    /\ rejects' = rejects + 1
    /\ UNCHANGED <<host, rail, epoch, drn, hnd, sent, did, refused, late>>
  BY DEF FlushRejected
<1> /\ agent' \in AgentRecord /\ agent'.up /\ agent'.proc = agent.proc /\ agent'.turn = {}
    /\ agent'.cursor = agent.cursor /\ agent'.above = agent.above /\ agent'.queued = agent.queued
    /\ agent'.buffer = agent.buffer /\ agent'.busy = agent.busy /\ agent'.done = agent.done
    /\ agent'.reloaded = agent.reloaded /\ agent'.barrier = agent.barrier
    /\ agent'.ready = agent.ready /\ agent'.sending = agent.sending
    /\ agent'.spine = agent.spine
  BY DEF AgentRecord
<1>1. rejects' \in Nat /\ rejects' > 0
  BY SMT
<1>2. ~Fresh(agent)
  BY DEF Fresh
<1>3. /\ drn'.pc = "check" => drn'.batch # {}
      /\ \A p \in Procs : hnd'[p].step = "reading" => hnd'[p].epoch <= epoch
  BY DEF LifeInv
<1> TypeInv' /\ LifeInv' /\ CallInv' /\ RetainedUntilHandled' /\ (Bound' <=> Bound)
  BY <1>1, <1>2, <1>3, WorkStep
<1>4. Elems(agent.buffer)' = Elems(agent.buffer)
  BY SMT DEF Elems
<1> Pending' \subseteq Pending /\ \A r \in Pending : r \in Pending' \/ r \in agent.turn
  BY <1>4 DEF Pending
<1>5. \A op : HandledHere(op)' <=> HandledHere(op)
  BY DEF HandledHere
<1>6. AgentInv'
  <2> /\ \A n : IsApplied(agent', n) <=> IsApplied(agent, n)
      /\ \A n : Seen(agent', n) <=> Seen(agent, n)
    BY DEF IsApplied, Seen
  <2>1. /\ \A r \in agent.turn : RejectedPrompt(r.op)'
        /\ \A op : RejectedPrompt(op) => RejectedPrompt(op)'
    BY <1>1 DEF RejectedPrompt, LoopInv
  <2>2. Bound' => /\ agent'.cursor <= rail'.nextSeq
                  /\ \A n \in agent'.above \union agent'.queued : n <= rail'.nextSeq
    BY DEF AgentInv
  <2>3. \A r \in rail'.ops : r.op \in LiveOps /\ IsApplied(agent', r.seq) => HandledHere(r.op)'
    BY <1>5 DEF AgentInv
  <2>4. \A r \in rail'.ops : r.seq \in agent'.queued => r \in Pending' \/ RejectedPrompt(r.op)'
    BY <2>1 DEF AgentInv
  <2>5. \A r \in Pending' : r.seq \in agent'.queued
    BY DEF AgentInv
  <2>6. agent'.up => \A r \in rail'.ops \union drn'.batch : HandledHere(r.op)' => Seen(agent', r.seq)
    BY <1>5 DEF AgentInv
  <2> QED BY <2>2, <2>3, <2>4, <2>5, <2>6 DEF AgentInv
<1>7. LoopInv'
  <2>1. HandledHere(agent.busy.op) => HandledHere(agent.busy.op)'
    BY DEF HandledHere
  <2> QED BY SMT, <1>4, <2>1 DEF LoopInv
<1>8. UniqueInv'
  <2>1. Copies' \subseteq Copies
    BY DEF Copies
  <2> QED BY <2>1, UniqueShrink
<1>9. AcksInv'
  <2>1. \A q \in Procs : (Reaching(q)' <=> Reaching(q)) /\ hnd'[q].frames = hnd[q].frames
    BY DEF Reaching
  <2>2. rail'.nextSeq >= rail.nextSeq
    BY SMT DEF TypeInv, SessionInv, SessionRecord
  <2> QED BY <2>1, <2>2, AcksKept
<1>10. ReloadInv'
  <2>1. Opening(agent)' <=> Opening(agent)
    BY DEF Opening
  <2> QED BY <1>2, <2>1, BarrierUp, ReloadOpened
<1>11. ReloadRefusesNothing'
  BY RefusesKept
<1> QED BY <1>6, <1>7, <1>8, <1>9, <1>10, <1>11 DEF ProtocolInv

-----------------------------------------------------------------------------
(* A write.  The first op a reloaded process decodes is replay_complete.       *)
LEMMA FirstWritten ==
    ASSUME ProtocolInv, Bound, agent.up, agent.reloaded, ~agent.barrier, ~late,
           NEW r \in drn.batch, \A b \in drn.batch : r.seq <= b.seq
    PROVE  Fresh(agent) /\ r = First /\ r.op \in ReplayOps
<1> TypeInv /\ UniqueInv /\ ReloadInv
  BY DEF ProtocolInv
<1> Fresh(agent) /\ First \in drn.batch
  BY DEF ReloadInv
<1>1. First.seq = 1 /\ First.op = ReplayComplete
  BY DEF First
<1>2. r.seq \in 1..MaxSeq
  BY PendingSpec
<1>3. r.seq <= First.seq
  OBVIOUS
<1>4. r.seq = First.seq
  BY SMT, <1>1, <1>2, <1>3
<1>5. r = First
  BY <1>4 DEF UniqueInv, Copies
<1> QED BY <1>1, <1>5, ReplaySpec

(* A new op joins the buffer or the turn-end queue: one op more is held.       *)
LEMMA HeldMore ==
    ASSUME TypeInv, UniqueInv, AgentInv, UNCHANGED <<rail, rejects, did, refused>>,
           drn'.batch \subseteq drn.batch, NEW r \in drn.batch, SameCursor(agent, agent'),
           agent'.queued = agent.queued \union {r.seq}, Pending' = Pending \union {r}
    PROVE  AgentInv'
<1> /\ agent'.proc = agent.proc /\ agent'.up = agent.up /\ agent'.cursor = agent.cursor
    /\ agent'.above = agent.above
  BY DEF SameCursor
<1>1. /\ \A n : IsApplied(agent', n) <=> IsApplied(agent, n)
      /\ \A n : Seen(agent, n) => Seen(agent', n)
  BY DEF IsApplied, Seen
<1> /\ \A op : HandledHere(op)' <=> HandledHere(op)
    /\ \A op : RejectedPrompt(op)' <=> RejectedPrompt(op)
    /\ Bound' <=> Bound
  BY DEF HandledHere, RejectedPrompt, Bound
<1>2. r \in Copies /\ \A x \in rail.ops : x.seq = r.seq => x = r
  BY DEF UniqueInv, Copies
<1>3. Bound' => /\ agent'.cursor <= rail'.nextSeq
                /\ \A n \in agent'.above \union agent'.queued : n <= rail'.nextSeq
  BY <1>2 DEF AgentInv, UniqueInv
<1>4. \A x \in rail'.ops : x.op \in LiveOps /\ IsApplied(agent', x.seq) => HandledHere(x.op)'
  BY <1>1 DEF AgentInv
<1>5. \A x \in rail'.ops : x.seq \in agent'.queued => x \in Pending' \/ RejectedPrompt(x.op)'
  BY <1>2 DEF AgentInv
<1>6. \A x \in Pending' : x.seq \in agent'.queued
  BY DEF AgentInv
<1>7. agent'.up => \A x \in rail'.ops \union drn'.batch : HandledHere(x.op)' => Seen(agent', x.seq)
  BY <1>1 DEF AgentInv
<1> QED BY <1>3, <1>4, <1>5, <1>6, <1>7 DEF AgentInv

(* What every write has in common.                                             *)
LEMMA WriteFrame ==
    ASSUME ProtocolInv, DrainWrite
    PROVE  LET r == NextOf(drn.batch) IN
           /\ agent.up /\ Bound /\ UNCHANGED <<host, rail, epoch, hnd, sent, rejects, late>>
           /\ r \in drn.batch /\ r \in Retained /\ \A b \in drn.batch : r.seq <= b.seq
           /\ drn'.batch \subseteq drn.batch
           /\ agent' = Dispatched(agent, r) /\ agent' \in AgentRecord
           /\ did' = did \union Noted(agent.proc, r.op, AppliesNow(agent, r))
           /\ refused' = refused \union Noted(agent.proc, r.op, RefusesNow(agent, r))
           /\ did \union refused \subseteq did' \union refused'
           /\ agent'.up /\ agent'.proc = agent.proc /\ agent'.reloaded = agent.reloaded
              => /\ TypeInv' /\ LifeInv' /\ CallInv' /\ RetainedUntilHandled' /\ (Bound' <=> Bound)
                 /\ agent.proc \in Procs
<1> DEFINE r == NextOf(drn.batch)
           D == Noted(agent.proc, r.op, AppliesNow(agent, r))
           R == Noted(agent.proc, r.op, RefusesNow(agent, r))
<1> /\ TypeInv /\ LifeInv /\ CallInv /\ agent \in AgentRecord
    /\ drn \in DrainerRecord /\ hnd \in [Procs -> HandlerRecord] /\ rejects \in Nat
  BY DEF ProtocolInv, TypeInv
<1> /\ drn.pc = "check" /\ ~Displaced /\ agent' = Dispatched(agent, r)
    /\ did' = did \union D /\ refused' = refused \union R
    /\ drn' = [Written(drn) EXCEPT !.wrote = {}]
    /\ UNCHANGED <<host, rail, epoch, hnd, sent, rejects, late>>
  BY DEF DrainWrite
<1>1. Bound /\ drn.batch # {}
  BY DEF Displaced, LifeInv
<1> /\ drn' \in DrainerRecord /\ drn'.batch = drn.batch \ {r}
    /\ drn'.pc = (IF drn'.batch = {} THEN "park" ELSE "check")
    /\ r \in drn.batch /\ r \in Retained /\ \A b \in drn.batch : r.seq <= b.seq
  BY <1>1, WrittenFields
<1>2. drn'.pc = "check" => drn'.batch # {}
  BY SMT
<1>3. drn.pc # "idle"
  BY SMT
<1>4. agent.up
  BY <1>3, ServedUp
<1>5. agent' \in AgentRecord
  BY DispatchedSpec
<1>6. D \subseteq {agent.proc} \X LiveOps /\ R \subseteq {agent.proc} \X LiveOps
  <2>1. AppliesNow(agent, r) \/ RefusesNow(agent, r) => r.op \in LiveOps
    BY ProtocolAssumption DEF AppliesNow, RefusesNow
  <2> HIDE DEF r
  <2> QED BY SMT, <2>1 DEF Noted
<1> HIDE DEF D, R, r
<1>7. /\ did \subseteq did' /\ did' \subseteq did \union ({agent.proc} \X LiveOps)
      /\ refused \subseteq refused' /\ refused' \subseteq refused \union ({agent.proc} \X LiveOps)
      /\ did \union refused \subseteq did' \union refused'
  BY <1>6
<1>8. \A p \in Procs : hnd'[p].step = "reading" => hnd'[p].epoch <= epoch
  BY DEF LifeInv
<1>9. agent'.up /\ agent'.proc = agent.proc
        => /\ TypeInv' /\ LifeInv' /\ CallInv' /\ RetainedUntilHandled' /\ (Bound' <=> Bound)
           /\ agent.proc \in Procs
  BY <1>2, <1>3, <1>4, <1>5, <1>7, <1>8, WorkStep
<1> QED BY <1>1, <1>4, <1>5, <1>7, <1>9 DEF D, R, r

(* The op was seen before: at most its ack is repeated.                        *)
LEMMA WriteSeen ==
    ASSUME ProtocolInv, DrainWrite, Seen(agent, NextOf(drn.batch).seq),
           agent' = agent \/ agent' = Acking(agent)
    PROVE  ProtocolInv'
<1> /\ TypeInv /\ LifeInv /\ CallInv /\ UniqueInv /\ AgentInv /\ LoopInv /\ AcksInv
    /\ RetainedUntilHandled /\ ReloadRefusesNothing /\ agent \in AgentRecord
  BY DEF ProtocolInv, TypeInv
<1> DEFINE r == NextOf(drn.batch)
<1>1. ~AppliesNow(agent, r) /\ ~RefusesNow(agent, r)
  BY DEF AppliesNow, RefusesNow
<1>2. Noted(agent.proc, r.op, AppliesNow(agent, r)) = {}
      /\ Noted(agent.proc, r.op, RefusesNow(agent, r)) = {}
  BY <1>1 DEF Noted
<1> /\ agent.up /\ Bound /\ UNCHANGED <<host, rail, epoch, hnd, sent, rejects, late, did, refused>>
    /\ r \in drn.batch /\ r \in Retained /\ \A b \in drn.batch : r.seq <= b.seq
    /\ drn'.batch \subseteq drn.batch /\ agent' \in AgentRecord
  BY <1>2, WriteFrame
<1>3. /\ SameWork(agent, agent') /\ agent'.cursor = agent.cursor /\ agent'.above = agent.above
      /\ agent'.spine = agent.spine \/ agent'.spine = Append(agent.spine, AckOf(agent'))
      /\ AckOf(agent') \in Frames
  <2> /\ Acking(agent).cursor = agent.cursor /\ Acking(agent).above = agent.above
      /\ Acking(agent).spine = Append(agent.spine, AckOf(agent)) /\ AckOf(agent) \in Frames
      /\ SameWork(agent, Acking(agent))
    BY AckingSpec
  <2>1. SameWork(agent, agent)
    BY DEF SameWork
  <2>2. AckOf(agent') = AckOf(agent)
    BY DEF AckOf
  <2> QED BY <2>1, <2>2
<1> /\ agent'.up /\ SameAgent(agent, agent') /\ agent'.proc = agent.proc
    /\ agent'.reloaded = agent.reloaded
    /\ agent'.barrier = agent.barrier /\ agent'.sending = agent.sending
  BY <1>3 DEF SameWork, SameAgent
<1> /\ TypeInv' /\ LifeInv' /\ CallInv' /\ RetainedUntilHandled' /\ (Bound' <=> Bound)
    /\ agent.proc \in Procs
  BY WriteFrame
<1> AgentInv' /\ LoopInv' /\ Pending' = Pending
  BY AgentKept
<1>4. UniqueInv'
  <2>1. Copies' \subseteq Copies
    BY DEF Copies
  <2> QED BY <2>1, UniqueShrink
<1>5. AcksInv'
  BY <1>3, AckedAgain
<1>6. ReloadInv'
  <2>1. ~Fresh(agent)
    <3> Seen(agent, r.seq) /\ r.seq \in 1..MaxSeq
      BY DEF Retained
    <3>1. ~(r.seq <= 0)
      BY SeqPositive
    <3> HIDE DEF r
    <3> QED BY <3>1 DEF Fresh, Seen, IsApplied
  <2>2. (Opening(agent)' <=> Opening(agent)) /\ agent'.ready = agent.ready
    BY DEF Opening, SameAgent
  <2> QED BY <2>1, <2>2, BarrierUp, ReloadOpened
<1>7. ReloadRefusesNothing'
  BY RefusesKept
<1> QED BY <1>4, <1>5, <1>6, <1>7 DEF ProtocolInv

(* The op is new and waits for the control loop or for the turn to end.        *)
LEMMA WriteHeld ==
    ASSUME ProtocolInv, DrainWrite, NEW r, r = NextOf(drn.batch),
           r.op \notin Immediate, r.op \in TurnEnd => agent.barrier,
           SameCursor(agent, agent'), agent'.queued = agent.queued \union {r.seq},
           Pending' = Pending \union {r}, LoopInv',
           ~late /\ agent'.reloaded => agent'.barrier /\ (agent'.ready \/ Opening(agent)')
    PROVE  ProtocolInv'
<1> /\ TypeInv /\ LifeInv /\ CallInv /\ UniqueInv /\ AgentInv /\ LoopInv /\ AcksInv
    /\ RetainedUntilHandled /\ ReloadRefusesNothing /\ agent \in AgentRecord
  BY DEF ProtocolInv, TypeInv
<1>1. ~AppliesNow(agent, r) /\ ~RefusesNow(agent, r)
  BY DEF AppliesNow, RefusesNow
<1>2. Noted(agent.proc, r.op, AppliesNow(agent, r)) = {}
      /\ Noted(agent.proc, r.op, RefusesNow(agent, r)) = {}
  BY <1>1 DEF Noted
<1> /\ agent.up /\ UNCHANGED <<host, rail, epoch, hnd, sent, rejects, late, did, refused>>
    /\ r \in drn.batch /\ drn'.batch \subseteq drn.batch /\ agent' \in AgentRecord
  BY <1>2, WriteFrame
<1> /\ agent'.up /\ agent'.proc = agent.proc /\ agent'.reloaded = agent.reloaded
    /\ agent'.spine = agent.spine /\ agent'.sending = agent.sending
  BY DEF SameCursor
<1> /\ TypeInv' /\ LifeInv' /\ CallInv' /\ RetainedUntilHandled' /\ (Bound' <=> Bound)
    /\ agent.proc \in Procs
  BY WriteFrame
<1>3. AgentInv'
  BY HeldMore
<1>4. UniqueInv'
  <2>1. Copies' \subseteq Copies
    BY DEF Copies
  <2> QED BY <2>1, UniqueShrink
<1>5. AcksInv'
  <2>1. AckOf(agent') \in Frames
    BY DEF AgentRecord, AckOf, Frames
  <2> QED BY <1>3, <2>1, AckedAgain
<1>6. ReloadInv'
  BY ReloadOpened
<1>7. ReloadRefusesNothing'
  BY RefusesKept
<1> QED BY <1>3, <1>4, <1>5, <1>6, <1>7 DEF ProtocolInv

LEMMA WriteBuffered ==
    ASSUME ProtocolInv, DrainWrite, NEW r, r = NextOf(drn.batch), ~Seen(agent, r.seq),
           r.op \in Pulled \union ReplayOps, Buffered(agent, agent', r)
    PROVE  ProtocolInv'
<1> /\ TypeInv /\ UniqueInv /\ AgentInv /\ LoopInv /\ agent \in AgentRecord
  BY DEF ProtocolInv, TypeInv
<1> /\ agent.up /\ Bound /\ UNCHANGED late
    /\ r \in drn.batch /\ r \in Retained /\ \A b \in drn.batch : r.seq <= b.seq
  BY WriteFrame
<1>1. r.op \notin Immediate /\ r.op \notin TurnEnd
  BY ProtocolAssumption, SessionAssumption
<1> /\ SameCursor(agent, agent') /\ agent'.barrier = (agent.barrier \/ r.op \in ReplayOps)
    /\ agent'.turn = agent.turn /\ agent'.queued = agent.queued \union {r.seq}
    /\ agent'.buffer = Append(agent.buffer, r)
  BY DEF Buffered
<1> /\ agent'.proc = agent.proc /\ agent'.busy = agent.busy /\ agent'.done = agent.done
    /\ agent'.ready = agent.ready /\ agent'.reloaded = agent.reloaded
  BY DEF SameCursor
<1> agent.buffer \in Seq(Retained) /\ agent.barrier \in BOOLEAN
  BY DEF AgentRecord
<1> Elems(agent'.buffer) = Elems(agent.buffer) \union {r}
  <2>1. Elems(Append(agent.buffer, r)) = Elems(agent.buffer) \union {r}
    BY SMT, ElemsSpec
  <2> QED BY <2>1
<1>2. Pending' = Pending \union {r}
  BY DEF Pending, Elems
<1>3. r \notin Pending
  BY DEF AgentInv, Seen
<1>4. r \notin Elems(agent.buffer) /\ (agent.busy # Nil => agent.busy # r)
  BY <1>3, PendingSpec
<1>5. Distinct(agent'.buffer)
  <2>1. Distinct(Append(agent.buffer, r))
    BY <1>4, AppendDistinct DEF LoopInv
  <2> QED BY <2>1
<1>6. did \union refused \subseteq did' \union refused'
  BY WriteFrame
<1>7. LoopInv'
  <2>1. \A op : HandledHere(op) => HandledHere(op)'
    BY <1>6 DEF HandledHere
  <2>2. \A x \in agent'.turn : x.op \in TurnEnd
    BY DEF LoopInv
  <2>3. \A x \in Elems(agent'.buffer) : x.op \in Pulled \union ReplayOps
    BY DEF LoopInv
  <2>4. agent'.busy # Nil => agent'.busy \notin Elems(agent'.buffer)
                             /\ agent'.busy.op \in Pulled \union ReplayOps
    BY <1>4 DEF LoopInv
  <2>5. agent'.done => /\ agent'.busy # Nil /\ (agent'.busy.op \in ReplayOps => agent'.ready)
                       /\ (agent'.busy.op \in Pulled => HandledHere(agent.busy.op)')
    BY <2>1 DEF LoopInv
  <2> QED BY <1>5, <2>2, <2>3, <2>4, <2>5 DEF LoopInv, Elems
<1>8. ASSUME ~late, agent'.reloaded
      PROVE  agent'.barrier /\ (agent'.ready \/ Opening(agent)')
  <2> agent'.buffer # << >> /\ Head(agent'.buffer)
        = IF agent.buffer = << >> THEN r ELSE Head(agent.buffer)
    <3> DEFINE t == agent'.buffer
    <3>1. t = Append(agent.buffer, r)
      OBVIOUS
    <3> HIDE DEF t
    <3> QED BY SMT, <3>1, HeadAppend DEF t
  <2>1. CASE ~agent.barrier
    <3>1. r.op \in ReplayOps /\ agent.busy = Nil /\ agent.buffer = << >>
      BY <1>8, <2>1, FirstWritten DEF Fresh
    <3> QED BY <3>1 DEF Opening
  <2>2. CASE agent.barrier
    <3>1. agent.ready \/ Opening(agent)
      BY <1>8, <2>2 DEF ProtocolInv, ReloadInv
    <3>2. Opening(agent) => Opening(agent)'
      BY DEF Opening
    <3> QED BY <2>2, <3>1, <3>2
  <2> QED BY <2>1, <2>2
<1> QED BY <1>1, <1>2, <1>7, <1>8, WriteHeld

LEMMA WriteParked ==
    ASSUME ProtocolInv, DrainWrite, NEW r, r = NextOf(drn.batch), ~Seen(agent, r.seq),
           r.op \in TurnEnd, agent.barrier, Parked(agent, agent', r)
    PROVE  ProtocolInv'
<1>1. /\ TypeInv /\ AgentInv /\ LoopInv /\ agent \in AgentRecord
  BY DEF ProtocolInv, TypeInv
<1>2. agent.up /\ UNCHANGED late /\ did \union refused \subseteq did' \union refused'
  BY WriteFrame
<1>3. r.op \notin Immediate
  BY ProtocolAssumption
<1> /\ SameCursor(agent, agent') /\ agent'.barrier = agent.barrier
    /\ agent'.turn = agent.turn \union {r} /\ agent'.queued = agent.queued \union {r.seq}
    /\ agent'.buffer = agent.buffer
  BY DEF Parked
<1> /\ agent'.proc = agent.proc /\ agent'.busy = agent.busy /\ agent'.done = agent.done
    /\ agent'.ready = agent.ready /\ agent'.reloaded = agent.reloaded
  BY DEF SameCursor
<1>4. Elems(agent.buffer)' = Elems(agent.buffer)
  BY DEF Elems
<1>5. Pending' = Pending \union {r}
  BY <1>4 DEF Pending
<1>6. LoopInv'
  <2>1. \A op : HandledHere(op) => HandledHere(op)'
    BY <1>2 DEF HandledHere
  <2>2. \A x \in agent'.turn : x.op \in TurnEnd
    BY <1>1 DEF LoopInv
  <2> QED BY <1>1, <1>4, <2>1, <2>2 DEF LoopInv
<1>7. ~late /\ agent'.reloaded => agent'.barrier /\ (agent'.ready \/ Opening(agent)')
  <2>1. Opening(agent)' <=> Opening(agent)
    BY DEF Opening
  <2> QED BY <1>2, <2>1 DEF ProtocolInv, ReloadInv
<1> QED BY <1>3, <1>5, <1>6, <1>7, WriteHeld

(* The op is applied, or refused before replay is complete, as it is decoded.  *)
LEMMA WriteMarked ==
    ASSUME ProtocolInv, DrainWrite, NEW r, r = NextOf(drn.batch), ~Seen(agent, r.seq),
           r.op \in Immediate \/ (r.op \in TurnEnd /\ ~agent.barrier)
    PROVE  agent' = MarkApplied(agent, {r.seq}) => ProtocolInv'
<1>0. SUFFICES ASSUME agent' = MarkApplied(agent, {r.seq}) PROVE ProtocolInv'
  OBVIOUS
<1> /\ TypeInv /\ LifeInv /\ CallInv /\ UniqueInv /\ AgentInv /\ LoopInv /\ AcksInv
    /\ RetainedUntilHandled /\ ReloadRefusesNothing /\ agent \in AgentRecord
  BY DEF ProtocolInv, TypeInv
<1> DEFINE M == {r}
           x == <<agent.proc, r.op>>
<1> /\ agent.up /\ Bound /\ UNCHANGED <<host, rail, epoch, hnd, sent, rejects, late>>
    /\ r \in drn.batch /\ r \in Retained /\ \A b \in drn.batch : r.seq <= b.seq
    /\ drn'.batch \subseteq drn.batch /\ agent' \in AgentRecord
    /\ did' = did \union Noted(agent.proc, r.op, AppliesNow(agent, r))
    /\ refused' = refused \union Noted(agent.proc, r.op, RefusesNow(agent, r))
    /\ did \union refused \subseteq did' \union refused'
  BY WriteFrame
<1> r.op \in LiveOps /\ r \in Copies /\ r.seq \in 1..MaxSeq
  BY ProtocolAssumption, PendingSpec
<1> /\ did' \union refused' = did \union refused \union {x}
    /\ refused' \subseteq refused \union {x} /\ (agent.barrier => refused' = refused)
  <2>1. AppliesNow(agent, r) \/ RefusesNow(agent, r)
    BY DEF AppliesNow, RefusesNow
  <2>2. agent.barrier => ~RefusesNow(agent, r)
    BY DEF RefusesNow
  <2> HIDE DEF x
  <2> QED BY <2>1, <2>2 DEF Noted, x
<1>1. {r.seq} \in SUBSET (1..MaxSeq)
  OBVIOUS
<1>2. /\ SameWork(agent, agent') /\ agent'.spine = Append(agent.spine, AckOf(agent'))
      /\ AckOf(agent') \in Frames
  <2> DEFINE m == MarkApplied(agent, {r.seq})
  <2>1. /\ SameWork(agent, m) /\ m.spine = Append(agent.spine, AckOf(m)) /\ AckOf(m) \in Frames
    BY <1>1, MarkSpec
  <2> HIDE DEF m
  <2>2. agent' = m
    BY <1>0 DEF m
  <2> QED BY <2>1, <2>2
<1> /\ agent'.up /\ agent'.proc = agent.proc /\ agent'.turn = agent.turn
    /\ agent'.buffer = agent.buffer /\ agent'.busy = agent.busy /\ agent'.done = agent.done
    /\ agent'.reloaded = agent.reloaded /\ agent'.barrier = agent.barrier
    /\ agent'.ready = agent.ready /\ agent'.sending = agent.sending
  BY <1>2 DEF SameWork
<1> /\ TypeInv' /\ LifeInv' /\ CallInv' /\ RetainedUntilHandled' /\ (Bound' <=> Bound)
    /\ agent.proc \in Procs
  BY WriteFrame
<1>3. Elems(agent.buffer)' = Elems(agent.buffer)
  BY DEF Elems
<1>4. r.seq \notin agent.queued /\ r \notin Pending
  BY DEF Seen, AgentInv
<1>5. Pending' = Pending \ M
  <2>1. Pending' = Pending
    BY <1>3 DEF Pending
  <2> QED BY <1>4, <2>1
<1> /\ \A op : HandledHere(op) => HandledHere(op)'
    /\ \A op : HandledHere(op)' => HandledHere(op) \/ op = r.op
    /\ HandledHere(r.op)'
  <2>1. \A op : <<agent.proc, op>> = x => op = r.op
    OBVIOUS
  <2> HIDE DEF x
  <2>2. /\ \A op : HandledHere(op) => HandledHere(op)'
        /\ \A op : HandledHere(op)' => HandledHere(op) \/ op = r.op
    BY <2>1 DEF HandledHere
  <2> QED BY <2>2 DEF HandledHere, x
<1>6. AgentInv'
  <2>1. Seqs(M) = {r.seq}
    BY DEF Seqs
  <2>2. M \in SUBSET Copies /\ agent' = MarkApplied(agent, Seqs(M))
        /\ agent.queued = agent.queued \ Seqs(M)
    BY <1>0, <1>4, <2>1
  <2>3. /\ \A t \in M : t.op \in LiveOps => HandledHere(t.op)'
        /\ \A op : HandledHere(op)' =>
             HandledHere(op) \/ (op \in LiveOps /\ \E t \in M : t.op = op)
    OBVIOUS
  <2> HIDE DEF M
  <2> QED BY <1>5, <2>2, <2>3, MarkedInv
<1>7. LoopInv'
  BY <1>3 DEF LoopInv
<1>8. UniqueInv'
  <2>1. Copies' \subseteq Copies
    BY <1>5 DEF Copies
  <2> QED BY <2>1, UniqueShrink
<1>9. AcksInv'
  BY <1>2, <1>6, AckedAgain
<1>10. ~late /\ agent.reloaded => agent.barrier
  <2>1. r.op \notin ReplayOps
    BY SessionAssumption
  <2> QED BY <2>1, FirstWritten
<1>11. ReloadInv'
  <2>1. Opening(agent)' <=> Opening(agent)
    BY DEF Opening
  <2> QED BY <1>10, <2>1, ReloadOpened DEF ProtocolInv, ReloadInv
<1>12. ReloadRefusesNothing'
  BY <1>10 DEF ReloadRefusesNothing
<1> QED BY <1>6, <1>7, <1>8, <1>9, <1>11, <1>12 DEF ProtocolInv

LEMMA WriteStep == ProtocolInv /\ DrainWrite => ProtocolInv'
<1> SUFFICES ASSUME ProtocolInv, DrainWrite PROVE ProtocolInv'
  OBVIOUS
<1> DEFINE r == NextOf(drn.batch)
<1>1. agent \in AgentRecord
  BY DEF ProtocolInv, TypeInv
<1>2. r \in Retained /\ agent' = Dispatched(agent, r)
  BY WriteFrame
<1>3. \/ Seen(agent, r.seq) /\ (agent' = agent \/ agent' = Acking(agent))
      \/ /\ ~Seen(agent, r.seq) /\ r.op \in Pulled \union ReplayOps
         /\ Buffered(agent, agent', r)
      \/ ~Seen(agent, r.seq) /\ r.op \in TurnEnd /\ agent.barrier /\ Parked(agent, agent', r)
      \/ /\ ~Seen(agent, r.seq) /\ (r.op \in Immediate \/ (r.op \in TurnEnd /\ ~agent.barrier))
         /\ agent' = MarkApplied(agent, {r.seq})
  BY <1>1, <1>2, DispatchedSpec
<1>4. CASE Seen(agent, r.seq) /\ (agent' = agent \/ agent' = Acking(agent))
  BY <1>4, WriteSeen
<1> QED BY <1>3, <1>4, WriteBuffered, WriteParked, WriteMarked

-----------------------------------------------------------------------------
(* Nothing is bound, no process runs and no handler is open.                   *)
LEMMA ProtocolInit == Init => ProtocolInv
<1> SUFFICES ASSUME Init PROVE ProtocolInv
  OBVIOUS
<1> /\ host = [step |-> "idle", state |-> "none"] /\ rail = Unbound /\ epoch = 0 /\ drn = Idle
    /\ agent = [NewAgent(0) EXCEPT !.up = FALSE]
    /\ hnd = [p \in Procs |-> NoHandler]
    /\ sent = {} /\ did = {} /\ refused = {} /\ rejects = 0 /\ late = FALSE
  BY DEF Init
<1>1. 0 \in 0..MaxProc
  BY SMT, ProtocolAssumption
<1> /\ agent \in AgentRecord /\ Fresh(agent) /\ ~agent.up /\ ~agent.reloaded
  BY <1>1, GoneSpec
<1> /\ SessionInv(rail) /\ rail.retired /\ rail.ops = {} /\ ~Bound
  BY UnboundSpec DEF Bound
<1> drn \in DrainerRecord /\ drn.pc = "idle" /\ drn.batch = {}
  BY IdleType, IdleFields
<1>2. NoHandler \in HandlerRecord /\ NoHandler.step = "none"
  BY SMT, ElemsEmpty DEF NoHandler, HandlerRecord
<1>3. hnd \in [Procs -> HandlerRecord] /\ \A p \in Procs : hnd[p].step = "none"
  BY <1>2
<1>4. Pending = {} /\ Copies = {}
  BY FreshPending DEF Copies
<1> host.step = "idle" /\ host.state = "none" /\ host \in HostRecord
  BY SMT DEF HostRecord
<1>5. TypeInv
  BY <1>3 DEF TypeInv, HostRecord
<1>6. LifeInv
  BY SMT, <1>3 DEF LifeInv
<1>7. CallInv
  BY SMT DEF CallInv
<1>8. UniqueInv
  BY <1>4 DEF UniqueInv
<1>9. AgentInv
  BY <1>4 DEF AgentInv
<1>10. LoopInv
  BY ElemsEmpty DEF LoopInv, Fresh
<1>11. AcksInv
  BY DEF AcksInv
<1>12. ReloadInv
  BY SMT DEF ReloadInv
<1>13. RetainedUntilHandled /\ ReloadRefusesNothing
  BY DEF RetainedUntilHandled, ReloadRefusesNothing
<1> QED BY <1>5, <1>6, <1>7, <1>8, <1>9, <1>10, <1>11, <1>12, <1>13 DEF ProtocolInv

LEMMA ProtocolStutter == ProtocolInv /\ UNCHANGED vars => ProtocolInv'
<1> SUFFICES ASSUME ProtocolInv, UNCHANGED vars PROVE ProtocolInv'
  OBVIOUS
<1> UNCHANGED <<host, rail, epoch, drn, agent, hnd, sent, did, refused, rejects, late>>
  BY DEF vars
<1> (Bound' <=> Bound) /\ Pending' = Pending
  BY DEF Bound, Pending, Elems
<1>1. Copies' = Copies
  BY DEF Copies
<1>2. TypeInv' /\ LifeInv'
  BY DEF ProtocolInv, TypeInv, LifeInv, SessionInv, Fresh
<1>3. CallInv' /\ UniqueInv'
  BY <1>1 DEF ProtocolInv, CallInv, UniqueInv, Fresh
<1>4. AgentInv'
  BY DEF ProtocolInv, AgentInv, HandledHere, RejectedPrompt, IsApplied, Seen
<1>5. LoopInv'
  BY DEF ProtocolInv, LoopInv, HandledHere, Elems
<1>6. AcksInv'
  BY DEF ProtocolInv, AcksInv, AckOK, Handled, Reaching, Elems
<1>7. ReloadInv'
  BY DEF ProtocolInv, ReloadInv, ReplayFirst, Reaching, Fresh, Opening
<1>8. RetainedUntilHandled' /\ ReloadRefusesNothing'
  BY DEF ProtocolInv, RetainedUntilHandled, ReloadRefusesNothing, Handled
<1> QED BY <1>2, <1>3, <1>4, <1>5, <1>6, <1>7, <1>8 DEF ProtocolInv

LEMMA ProtocolStep == ProtocolInv /\ [Next]_vars => ProtocolInv'
<1> SUFFICES ASSUME ProtocolInv, [Next]_vars PROVE ProtocolInv'
  OBVIOUS
<1>1. CASE Begin
  BY <1>1, LaunchStep, StopStep, RetireStep DEF Begin
<1>2. CASE Finish
  BY <1>2, BindStep, SendStep, RestartStep, LaunchStep, StopStep, RetireStep DEF Finish
<1>3. CASE Exit
  BY <1>3, CrashStep
<1>4. CASE Stream
  BY <1>4, ConnectStep, DrainStep, WriteStep, EndStep DEF Stream
<1>5. CASE Loop
  BY <1>5, PullStep, ApplyStep, AckPulledStep DEF Loop
<1>6. CASE FlushTurnEnd
  BY <1>6, FlushStep
<1>7. CASE Publish
  BY <1>7, PublishOpenStep, CaptureStep, RouteStep, PublishEndStep DEF Publish
<1>8. CASE Faults
  BY <1>8, RetireStep, CrashStep, EndStep, RejectStep, PublishEndStep DEF Faults
<1>9. CASE \E op \in LiveOps : Deliver(op)
  BY <1>9, SendStep
<1>10. CASE UNCHANGED vars
  BY <1>10, ProtocolStutter
<1> QED BY <1>1, <1>2, <1>3, <1>4, <1>5, <1>6, <1>7, <1>8, <1>9, <1>10 DEF Next

(* The inductive invariant holds in every state of every run of the control    *)
(* path: Start, Reload, Stop, crashes, reconnects, lost and late Publish       *)
(* streams, and every Deliver that races them.                                 *)
THEOREM ProtocolInvariance == Spec => []ProtocolInv
BY ProtocolInit, ProtocolStep, PTL DEF Spec

(* Exactly once, for any number of ops, processes, reconnects and faults: the  *)
(* lane drops an op only after a process handled it, the agent drops as a      *)
(* duplicate only what it handled or holds, and recognises every redelivery.   *)
THEOREM HandledOnceHolds == Spec => []HandledOnce
<1>1. ProtocolInv => HandledOnce
  <2> SUFFICES ASSUME ProtocolInv PROVE HandledOnce
    OBVIOUS
  <2> AgentInv /\ RetainedUntilHandled
    BY DEF ProtocolInv
  <2>1. SeenIsHandled
    BY DEF SeenIsHandled, AgentInv, HandledHere, Seen
  <2>2. RedeliveryRecognised
    BY DEF RedeliveryRecognised, AgentInv, HandledHere, Seen
  <2> QED BY <2>1, <2>2 DEF HandledOnce
<1> QED BY <1>1, ProtocolInvariance, PTL

(* reloadLocked hands the session over with replay_complete as its first op:   *)
(* whatever Deliver, reconnect or dying Publish stream races the reload, the   *)
(* process it launches refuses no op.                                          *)
THEOREM ReloadRefusesNothingHolds == Spec => []ReloadRefusesNothing
<1>1. ProtocolInv => ReloadRefusesNothing
  BY DEF ProtocolInv
<1> QED BY <1>1, ProtocolInvariance, PTL
=============================================================================
