-------------------------- MODULE ControlLaneProofs --------------------------
(* The invariants of ControlLane hold for every number of objects,             *)
(* subscriptions, senders and ops, and for every ack the agent may send.       *)
EXTENDS ControlLaneInv, LaneSessionProofs

(* What the operators of LaneSession preserve of one drainer, and of the cap.  *)

(* Signalling and closing a wake channel change nothing else of a drainer.     *)
LEMMA TokenInv ==
    ASSUME NEW q \in DrainerRecord, NEW s \in SessionRecord
    PROVE  /\ Woken(q) \in DrainerRecord /\ Closed(q) \in DrainerRecord
           /\ DrainerInv(q) => DrainerInv(Woken(q)) /\ DrainerInv(Closed(q))
           /\ CurrentInv(q, s) => CurrentInv(Woken(q), s) /\ CurrentInv(Closed(q), s)
<1>1. \A w \in {Woken(q), Closed(q)} :
         /\ w \in DrainerRecord /\ w.pc = q.pc /\ w.sent = q.sent /\ w.above = q.above
         /\ w.batch = q.batch /\ w.wrote = q.wrote /\ (~w.token => ~q.token)
  BY Zenon DEF Woken, Closed, DrainerRecord
<1>2. \A w \in {Woken(q), Closed(q)} : DrainerInv(q) => DrainerInv(w)
  BY <1>1 DEF DrainerInv, Covers
<1>3. \A w \in {Woken(q), Closed(q)} : CurrentInv(q, s) => CurrentInv(w, s)
  BY <1>1 DEF CurrentInv, Covers, Owed
<1> QED BY <1>1, <1>2, <1>3

(* What a signal and a close leave alone in a drainer.                        *)
LEMMA WakeFields ==
    ASSUME NEW q \in DrainerRecord
    PROVE  /\ Woken(q).pc = q.pc /\ Woken(q).obj = q.obj /\ Woken(q).mine = q.mine
           /\ Woken(q).closed = q.closed /\ Woken(q).token = TRUE
           /\ Closed(q).pc = q.pc /\ Closed(q).obj = q.obj /\ Closed(q).mine = q.mine
           /\ Closed(q).closed = TRUE
BY DEF Woken, Closed, DrainerRecord

(* A drainer that changes only its program counter.                            *)
LEMMA MoveInv ==
    ASSUME NEW q \in DrainerRecord, NEW s \in SessionRecord, DrainerInv(q),
           NEW w \in DrainerRecord, w.sent = q.sent, w.above = q.above, w.batch = q.batch,
           w.wrote = q.wrote,
           \/ q.pc = "check" /\ w.pc = "write" /\ w.token = q.token
           \/ q.pc = "park" /\ w.pc = "top"
           \/ w.pc = "exit"
    PROVE  DrainerInv(w) /\ (CurrentInv(q, s) => CurrentInv(w, s))
<1>1. DrainerInv(w)
  BY DEF DrainerInv, Covers
<1>2. CurrentInv(q, s) => CurrentInv(w, s)
  BY DEF CurrentInv, Covers, Owed
<1> QED BY <1>1, <1>2

(* Raising and lowering the replay barrier.  Lowering it makes live ops owed,  *)
(* which is why ReleaseReplayBarrier signals.                                  *)
LEMMA HeldInv ==
    ASSUME NEW s, SessionInv(s), NEW h \in BOOLEAN
    PROVE  LET t == [s EXCEPT !.held = h] IN
           /\ SessionInv(t)
           /\ \A q \in DrainerRecord : CurrentInv(q, s) /\ (h \/ q.token) => CurrentInv(q, t)
<1> DEFINE t == [s EXCEPT !.held = h]
<1>1. s \in SessionRecord
  BY DEF SessionInv
<1>2. /\ t \in SessionRecord /\ t.held = h /\ t.ops = s.ops /\ t.nextSeq = s.nextSeq
      /\ t.cursor = s.cursor /\ t.retired = s.retired /\ t.live = s.live /\ t.wake = s.wake
  BY <1>1 DEF SessionRecord
<1> HIDE DEF t
<1>3. SessionInv(t)
  BY <1>2 DEF SessionInv
<1>4. ASSUME NEW q \in DrainerRecord, CurrentInv(q, s), h \/ q.token
      PROVE  CurrentInv(q, t)
  <2>1. h => Owed(q, t) \subseteq Owed(q, s)
    BY <1>2 DEF Owed, CollectBatch
  <2> QED BY <1>2, <1>4, <2>1 DEF CurrentInv
<1> QED BY <1>3, <1>4 DEF t

(* The watermark after a drain cycle absorbed the acked cursor: it covers what *)
(* it covered before and what was acked, and nothing else.                     *)
LEMMA JumpSpec ==
    ASSUME NEW q \in DrainerRecord, DrainerInv(q), NEW s, SessionInv(s), CurrentInv(q, s)
    PROVE  LET c == Collected(q, s) IN
           /\ c.sent \in 0..MaxSeq /\ c.above \in SUBSET (1..MaxSeq)
           /\ c.sent <= s.nextSeq /\ \A n \in c.above : n <= s.nextSeq /\ n > c.sent
           /\ c.sent + 1 \notin c.above
           /\ \A n \in 1..MaxSeq : Covers(c, n) <=> n <= s.cursor \/ Covers(q, n)
           /\ c.batch = CollectBatch(s, c.sent, c.above) /\ c.wrote = q.wrote /\ c.token = q.token
           /\ c.pc = IF c.batch = {} THEN "park" ELSE "check"
           /\ c.obj = q.obj /\ c.mine = q.mine /\ c.closed = q.closed
<1> DEFINE jump == q.sent < s.cursor
           sent == IF jump THEN AbsorbJump(s.cursor, q.above) ELSE q.sent
           above == IF jump THEN AboveFrom(sent, q.above) ELSE q.above
           c == Collected(q, s)
<1>1. /\ q.sent \in 0..MaxSeq /\ q.above \in SUBSET (1..MaxSeq)
      /\ s.cursor \in 0..MaxSeq /\ s.nextSeq \in 0..MaxSeq /\ s.cursor <= s.nextSeq
  BY DEF DrainerRecord, SessionInv, SessionRecord
<1>2. /\ c.sent = sent /\ c.above = above
      /\ c.batch = CollectBatch(s, c.sent, c.above) /\ c.wrote = q.wrote /\ c.token = q.token
      /\ c.pc = (IF c.batch = {} THEN "park" ELSE "check")
      /\ c.obj = q.obj /\ c.mine = q.mine /\ c.closed = q.closed
  BY DEF Collected, DrainerRecord
<1> DEFINE Goal ==
             /\ sent \in 0..MaxSeq /\ above \in SUBSET (1..MaxSeq)
             /\ sent <= s.nextSeq /\ \A n \in above : n <= s.nextSeq /\ n > sent
             /\ sent + 1 \notin above
             /\ \A n \in 1..MaxSeq :
                  n <= sent \/ n \in above <=> n <= s.cursor \/ n <= q.sent \/ n \in q.above
<1>3. ASSUME ~jump PROVE Goal
  BY <1>1, <1>3, SessionAssumption DEF DrainerInv, CurrentInv
<1>4. ASSUME jump PROVE Goal
  <2> DEFINE A == AboveFrom(s.cursor, q.above)
  <2>1. A \in SUBSET (1..MaxSeq) /\ A \subseteq q.above
    BY <1>1 DEF AboveFrom
  <2>2. /\ sent \in {s.cursor} \union A /\ sent \in 0..MaxSeq
        /\ sent >= s.cursor /\ sent + 1 \notin A
        /\ \A i \in (s.cursor + 1)..sent : i \in A
    <3>1. sent = AbsorbContiguous(s.cursor, A)
      BY <1>4 DEF AbsorbJump
    <3> HIDE DEF A, sent
    <3> QED BY Zenon, <1>1, <2>1, <3>1, AbsorbContiguousSpec
  <2>3. above = {i \in q.above : i > sent}
    BY <1>4 DEF AboveFrom
  <2> HIDE DEF A, sent, above
  <2>4. sent + 1 \notin above
    <3>1. ASSUME sent + 1 \in q.above
          PROVE  sent + 1 \in A
      BY <1>1, <2>2, <3>1, SessionAssumption DEF A, AboveFrom
    <3> QED BY <2>2, <2>3, <3>1
  <2>5. sent <= s.nextSeq /\ \A n \in above : n <= s.nextSeq /\ n > sent
    BY <1>1, <2>1, <2>2, <2>3 DEF CurrentInv
  <2>6. ASSUME NEW n \in 1..MaxSeq
        PROVE  n <= sent \/ n \in above <=> n <= s.cursor \/ n <= q.sent \/ n \in q.above
    <3>1. CASE n <= sent
      <4>1. n <= s.cursor \/ n \in A
        BY <1>1, <2>2, <3>1, SessionAssumption
      <4> QED BY <2>1, <3>1, <4>1
    <3>2. CASE ~(n <= sent)
      BY SMTT(60), <1>1, <1>4, <2>2, <2>3, <3>2, SessionAssumption
    <3> QED BY <3>1, <3>2
  <2> QED BY <1>1, <2>2, <2>3, <2>4, <2>5, <2>6
<1>5. Goal
  <2> HIDE DEF Goal, jump
  <2> QED BY <1>3, <1>4
<1>6. \A n \in 1..MaxSeq : Covers(c, n) <=> n <= s.cursor \/ Covers(q, n)
  <2> HIDE DEF c, sent, above
  <2> QED BY <1>2, <1>5 DEF Covers
<1> HIDE DEF c, sent, above
<1> QED BY Zenon, <1>2, <1>5, <1>6 DEF c

(* The top of a drain cycle.                                                   *)
LEMMA CollectedInv ==
    ASSUME NEW q \in DrainerRecord, DrainerInv(q), NEW s, SessionInv(s), CurrentInv(q, s)
    PROVE  LET c == Collected(q, s) IN
           c \in DrainerRecord /\ DrainerInv(c) /\ CurrentInv(c, s)
<1> DEFINE c == Collected(q, s)
<1>1. /\ c.sent \in 0..MaxSeq /\ c.above \in SUBSET (1..MaxSeq)
      /\ c.sent <= s.nextSeq /\ \A n \in c.above : n <= s.nextSeq /\ n > c.sent
      /\ c.sent + 1 \notin c.above
      /\ \A n \in 1..MaxSeq : Covers(c, n) <=> n <= s.cursor \/ Covers(q, n)
      /\ c.batch = CollectBatch(s, c.sent, c.above) /\ c.wrote = q.wrote /\ c.token = q.token
      /\ c.pc = IF c.batch = {} THEN "park" ELSE "check"
  BY JumpSpec
<1>2. s \in SessionRecord /\ s.ops \subseteq Retained /\ s.cursor \in 0..MaxSeq
  BY DEF SessionInv, SessionRecord
<1>3. c.batch \subseteq s.ops /\ c.batch \in SUBSET Retained
  BY <1>1, <1>2 DEF CollectBatch
<1>4. c \in DrainerRecord
  <2>1. c = [q EXCEPT !.pc = c.pc, !.sent = c.sent, !.above = c.above, !.batch = c.batch]
    BY DEF Collected, DrainerRecord
  <2>2. c.pc \in {"park", "check"}
    BY <1>1
  <2> DEFINE p == c.pc
             n == c.sent
             a == c.above
             b == c.batch
  <2>3. p \in {"park", "check"} /\ n \in 0..MaxSeq /\ a \in SUBSET (1..MaxSeq) /\ b \in SUBSET Retained
    BY <1>1, <1>3, <2>2
  <2>4. c = [q EXCEPT !.pc = p, !.sent = n, !.above = a, !.batch = b]
    BY <2>1
  <2> HIDE DEF p, n, a, b, c
  <2> QED BY Zenon, <2>3, <2>4 DEF DrainerRecord
<1>5. \A r \in s.ops : r.seq \in 1..MaxSeq /\ r.seq > s.cursor
  BY <1>2 DEF SessionInv, Retained
<1>6. q.wrote \subseteq Retained /\ \A w \in q.wrote : w.seq \in 1..MaxSeq
  BY DEF DrainerRecord, Retained
<1> HIDE DEF c
<1>7. \A r \in s.ops : Covers(c, r.seq) <=> Covers(q, r.seq)
  BY <1>1, <1>2, <1>5
<1>8. \A b \in c.batch : ~Covers(c, b.seq)
  BY SMTT(60), <1>1, <1>3, <1>5, SessionAssumption DEF CollectBatch, Covers
<1>9. DrainerInv(c)
  <2>1. \A w \in c.wrote : Covers(c, w.seq)
    BY <1>1, <1>6 DEF DrainerInv
  <2>2. \A b, d \in c.batch : b.seq = d.seq => b = d
    BY <1>3 DEF SessionInv
  <2>3. ASSUME NEW x \in c.batch, NEW y \in c.wrote, x.op \in LiveOps, y.op \in LiveOps
        PROVE  y.seq < x.seq
    <3>1. ~Covers(q, x.seq) /\ x.seq \in 1..MaxSeq /\ x \in s.ops
      BY <1>3, <1>5, <1>7, <1>8
    <3>2. Covers(q, y.seq) /\ y \in q.wrote /\ y.seq \in 1..MaxSeq
      BY <1>1, <1>6 DEF DrainerInv
    <3>3. ~(x.seq < y.seq)
      BY <2>3, <3>1, <3>2 DEF CurrentInv
    <3>4. x.seq # y.seq
      BY <3>1, <3>2
    <3> QED BY <3>1, <3>2, <3>3, <3>4
  <2> QED BY <1>1, <1>8, <2>1, <2>2, <2>3 DEF DrainerInv
<1>10. CurrentInv(c, s)
  <2>1. \A b \in c.batch : b.seq <= s.nextSeq
    BY <1>3 DEF SessionInv
  <2>2. \A b \in c.batch, r \in s.ops : b.seq = r.seq => b = r
    BY <1>3 DEF SessionInv
  <2>3. \A r \in s.ops : Covers(c, r.seq) => r \in c.wrote
    BY <1>1, <1>7 DEF CurrentInv
  <2>4. Owed(c, s) \subseteq c.batch
    BY <1>1 DEF Owed
  <2>5. \A y \in c.wrote, r \in s.ops :
          y.op \in LiveOps /\ r.op \in LiveOps /\ r.seq < y.seq => Covers(c, r.seq)
    BY <1>1, <1>7 DEF CurrentInv
  <2>6. ASSUME NEW x \in c.batch, NEW r \in s.ops, x.op \in LiveOps, ~Covers(c, r.seq)
        PROVE  r \in c.batch
    <3>1. ~s.held
      BY <1>1, <2>6, SessionAssumption DEF CollectBatch
    <3> QED BY <1>1, <1>5, <2>6, <3>1, SessionAssumption DEF CollectBatch, Covers
  <2> QED BY <1>1, <2>1, <2>2, <2>3, <2>4, <2>5, <2>6 DEF CurrentInv
<1> QED BY <1>4, <1>9, <1>10 DEF c

(* The watermark after a write covers what it covered before and the number    *)
(* just written.                                                               *)
LEMMA WriteSpec ==
    ASSUME NEW q \in DrainerRecord, DrainerInv(q), q.pc = "write"
    PROVE  LET w == Written(q)
               r == NextOf(q.batch) IN
           /\ r \in q.batch /\ \A b \in q.batch : r.seq <= b.seq
           /\ w.sent \in 0..MaxSeq /\ w.above \in SUBSET (1..MaxSeq)
           /\ w.sent \in {q.sent, r.seq} \union q.above
           /\ w.above \subseteq q.above \union {r.seq}
           /\ \A n \in w.above : n > w.sent
           /\ w.sent + 1 \notin w.above
           /\ \A n \in 1..MaxSeq : Covers(w, n) <=> n = r.seq \/ Covers(q, n)
           /\ w.batch = q.batch \ {r} /\ w.wrote = q.wrote \union {r} /\ w.token = q.token
           /\ w.pc = IF w.batch = {} THEN "park" ELSE "check"
           /\ w.obj = q.obj /\ w.mine = q.mine /\ w.closed = q.closed
<1> DEFINE w == Written(q)
           r == NextOf(q.batch)
           sent == SentAfter(q.sent, q.above, r.seq)
           above == AboveFrom(sent, q.above \union {r.seq})
<1>1. /\ q.sent \in 0..MaxSeq /\ q.above \in SUBSET (1..MaxSeq) /\ q.batch \in SUBSET Retained
      /\ q.batch # {}
  BY DEF DrainerRecord, DrainerInv
<1>2. r \in q.batch /\ \A b \in q.batch : r.seq <= b.seq
  BY <1>1, NextOfSpec
<1>3. /\ w.sent = sent /\ w.above = above
      /\ w.batch = q.batch \ {r} /\ w.wrote = q.wrote \union {r} /\ w.token = q.token
      /\ w.pc = (IF w.batch = {} THEN "park" ELSE "check")
      /\ w.obj = q.obj /\ w.mine = q.mine /\ w.closed = q.closed
  BY DEF Written, DrainerRecord
<1> HIDE DEF r, w
<1>4. r.seq \in 1..MaxSeq /\ r.seq > q.sent /\ r.seq \notin q.above
  BY <1>1, <1>2, SessionAssumption DEF DrainerInv, Covers, Retained
<1> DEFINE Goal ==
             /\ sent \in 0..MaxSeq /\ above \in SUBSET (1..MaxSeq)
             /\ sent \in {q.sent, r.seq} \union q.above
             /\ above \subseteq q.above \union {r.seq}
             /\ \A n \in above : n > sent
             /\ sent + 1 \notin above
             /\ \A n \in 1..MaxSeq :
                  n <= sent \/ n \in above <=> n = r.seq \/ n <= q.sent \/ n \in q.above
<1>5. above = {i \in q.above \union {r.seq} : i > sent}
  BY DEF AboveFrom
<1>6. ASSUME r.seq = q.sent + 1 PROVE Goal
  <2>1. sent = AbsorbContiguous(r.seq, q.above)
    BY <1>6 DEF SentAfter
  <2> HIDE DEF sent, above
  <2>2. /\ sent \in {r.seq} \union q.above /\ sent \in 0..MaxSeq
        /\ sent >= r.seq /\ sent + 1 \notin q.above
        /\ \A i \in (r.seq + 1)..sent : i \in q.above
    BY <1>1, <1>4, <2>1, AbsorbContiguousSpec
  <2>3. sent + 1 \notin above
    BY <1>4, <1>5, <2>2
  <2>4. ASSUME NEW n \in 1..MaxSeq
        PROVE  n <= sent \/ n \in above <=> n = r.seq \/ n <= q.sent \/ n \in q.above
    BY <1>1, <1>4, <1>5, <1>6, <2>2, SessionAssumption
  <2> QED BY <1>1, <1>4, <1>5, <2>2, <2>3, <2>4
<1>7. ASSUME r.seq # q.sent + 1 PROVE Goal
  <2>1. sent = q.sent
    BY SMTT(60), <1>7 DEF SentAfter
  <2> HIDE DEF sent, above
  <2> QED BY <1>1, <1>4, <1>5, <1>7, <2>1, SessionAssumption DEF DrainerInv
<1>8. Goal
  BY Zenon, <1>6, <1>7
<1>9. \A n \in 1..MaxSeq : Covers(w, n) <=> n = r.seq \/ Covers(q, n)
  <2> HIDE DEF sent, above
  <2> QED BY <1>3, <1>8 DEF Covers
<1> HIDE DEF sent, above
<1> QED BY Zenon, <1>2, <1>3, <1>8, <1>9 DEF w, r

(* A write inside a drain cycle.                                               *)
LEMMA WrittenInv ==
    ASSUME NEW q \in DrainerRecord, DrainerInv(q), q.pc = "write"
    PROVE  LET w == Written(q) IN
           /\ w \in DrainerRecord /\ DrainerInv(w)
           /\ \A s : SessionInv(s) /\ CurrentInv(q, s) => CurrentInv(w, s)
<1> DEFINE w == Written(q)
           r == NextOf(q.batch)
<1>1. /\ r \in q.batch /\ \A b \in q.batch : r.seq <= b.seq
      /\ w.sent \in 0..MaxSeq /\ w.above \in SUBSET (1..MaxSeq)
      /\ w.sent \in {q.sent, r.seq} \union q.above
      /\ w.above \subseteq q.above \union {r.seq}
      /\ \A n \in w.above : n > w.sent
      /\ w.sent + 1 \notin w.above
      /\ \A n \in 1..MaxSeq : Covers(w, n) <=> n = r.seq \/ Covers(q, n)
      /\ w.batch = q.batch \ {r} /\ w.wrote = q.wrote \union {r} /\ w.token = q.token
      /\ w.pc = IF w.batch = {} THEN "park" ELSE "check"
  BY WriteSpec
<1>2. /\ q.batch \in SUBSET Retained /\ q.wrote \in SUBSET Retained
      /\ w.batch \in SUBSET Retained /\ w.wrote \in SUBSET Retained
  BY <1>1 DEF DrainerRecord
<1>3. \A b \in q.batch \union q.wrote : b.seq \in 1..MaxSeq
  BY <1>2 DEF Retained
<1>4. w \in DrainerRecord
  <2> DEFINE p == w.pc
             n == w.sent
             a == w.above
             b == w.batch
             h == w.wrote
  <2>1. /\ p \in {"park", "check"} /\ n \in 0..MaxSeq /\ a \in SUBSET (1..MaxSeq)
        /\ b \in SUBSET Retained /\ h \in SUBSET Retained
    BY <1>1, <1>2
  <2>2. w = [q EXCEPT !.wrote = h, !.batch = b, !.sent = n, !.above = a, !.pc = p]
    BY DEF Written, DrainerRecord
  <2> HIDE DEF p, n, a, b, h, w
  <2> QED BY Zenon, <2>1, <2>2 DEF DrainerRecord
<1> HIDE DEF w, r
<1>5. \A b \in q.batch : b # r => b.seq # r.seq
  BY <1>1 DEF DrainerInv
<1>6. DrainerInv(w)
  <2>1. \A b \in w.batch : ~Covers(w, b.seq)
    BY <1>1, <1>3, <1>5 DEF DrainerInv
  <2>2. \A b \in w.wrote : Covers(w, b.seq)
    BY <1>1, <1>3 DEF DrainerInv
  <2>3. ASSUME NEW x \in w.batch, NEW y \in w.wrote, x.op \in LiveOps, y.op \in LiveOps
        PROVE  y.seq < x.seq
    <3>1. CASE y = r
      BY <1>1, <1>3, <1>5, <3>1
    <3>2. CASE y # r
      BY <1>1, <2>3, <3>2 DEF DrainerInv
    <3> QED BY <3>1, <3>2
  <2>4. \A b, c \in w.batch : b.seq = c.seq => b = c
    BY <1>1 DEF DrainerInv
  <2> QED BY <1>1, <2>1, <2>2, <2>3, <2>4 DEF DrainerInv
<1>7. ASSUME NEW s, SessionInv(s), CurrentInv(q, s)
      PROVE  CurrentInv(w, s)
  <2>1. \A x \in s.ops : x.seq \in 1..MaxSeq
    BY <1>7 DEF SessionInv, SessionRecord, Retained
  <2>2. w.sent <= s.nextSeq /\ \A n \in w.above : n <= s.nextSeq
    BY <1>1, <1>7 DEF CurrentInv
  <2>3. /\ \A b \in w.batch : b.seq <= s.nextSeq
        /\ \A b \in w.batch, x \in s.ops : b.seq = x.seq => b = x
    BY <1>1, <1>7 DEF CurrentInv
  <2>4. \A x \in s.ops : Covers(w, x.seq) => x \in w.wrote
    BY <1>1, <1>7, <2>1 DEF CurrentInv
  <2>5. ASSUME ~w.token, NEW x \in Owed(w, s)
        PROVE  x \in w.batch
    <3>1. x \in s.ops /\ ~Covers(w, x.seq) /\ x.seq \in 1..MaxSeq
      BY <1>1, <2>1, SMTT(60) DEF Owed, CollectBatch, Covers
    <3>2. x.seq # r.seq /\ ~Covers(q, x.seq)
      BY <1>1, <3>1
    <3>3. q.sent \in 0..MaxSeq
      BY DEF DrainerRecord
    <3>4. x \in Owed(q, s)
      BY <3>1, <3>2, <3>3, SessionAssumption DEF Owed, CollectBatch, Covers
    <3> QED BY SMTT(60), <1>1, <1>7, <2>5, <3>2, <3>4 DEF CurrentInv
  <2>6. ASSUME NEW y \in w.wrote, NEW x \in s.ops,
               y.op \in LiveOps, x.op \in LiveOps, x.seq < y.seq
        PROVE  Covers(w, x.seq)
    <3>1. CASE y # r
      BY <1>1, <1>7, <2>1, <2>6, <3>1 DEF CurrentInv
    <3>2. CASE y = r
      <4>1. ASSUME ~Covers(q, x.seq) PROVE FALSE
        <5>1. x \in q.batch
          BY <1>1, <1>7, <2>6, <3>2, <4>1 DEF CurrentInv
        <5> QED BY <1>1, <1>3, <2>6, <3>2, <5>1
      <4> QED BY <1>1, <2>1, <4>1
    <3> QED BY <3>1, <3>2
  <2>7. ASSUME NEW y \in w.batch, NEW x \in s.ops,
               y.op \in LiveOps, x.op \in LiveOps, x.seq < y.seq, ~Covers(w, x.seq)
        PROVE  x \in w.batch
    <3>1. x.seq # r.seq /\ ~Covers(q, x.seq)
      BY <1>1, <2>1, <2>7
    <3> QED BY <1>1, <1>7, <2>7, <3>1 DEF CurrentInv
  <2> QED BY <2>2, <2>3, <2>4, <2>5, <2>6, <2>7 DEF CurrentInv
<1> QED BY <1>4, <1>6, <1>7 DEF w

-----------------------------------------------------------------------------
(* The cap on retained live ops.                                               *)
LiveOf(s) == {r \in s.ops : r.op \in LiveOps}
Capped(s) == Cardinality(LiveOf(s)) <= MaxRetained

(* Pruning retained ops cannot exceed the retention cap.                      *)
LEMMA CappedSubset ==
    ASSUME NEW s, SessionInv(s), Capped(s), NEW t, t.ops \subseteq s.ops
    PROVE  Capped(t)
<1>1. LiveOf(s) \subseteq s.ops /\ LiveOf(t) \subseteq LiveOf(s)
  BY DEF LiveOf
<1>2. IsFiniteSet(LiveOf(s))
  BY <1>1, FS_Subset DEF SessionInv
<1>3. IsFiniteSet(LiveOf(t)) /\ Cardinality(LiveOf(t)) <= Cardinality(LiveOf(s))
  BY <1>1, <1>2, FS_Subset
<1>4. Cardinality(LiveOf(t)) \in Nat /\ Cardinality(LiveOf(s)) \in Nat
  BY <1>2, <1>3, FS_CardinalityType
<1> QED BY <1>3, <1>4, SessionAssumption DEF Capped

(* A live op is only appended below the cap; replay_complete does not count.   *)
LEMMA CappedAppend ==
    ASSUME NEW s, SessionInv(s), Capped(s), NEW op \in Ops, ~RetentionFull(s, op)
    PROVE  Capped(Appended(s, op))
<1> DEFINE new == [seq |-> s.nextSeq + 1, op |-> op]
           t == Appended(s, op)
<1>1. t.ops = s.ops \union {new} /\ new.op = op
  BY DEF Appended, SessionInv, SessionRecord
<1> HIDE DEF new, t
<1>2. CASE op \in ReplayOps
  <2>1. LiveOf(t) = LiveOf(s)
    BY <1>1, <1>2, SessionAssumption DEF LiveOf
  <2> QED BY <2>1 DEF Capped, t
<1>3. CASE op \notin ReplayOps
  <2>1. IsFiniteSet(s.ops) /\ Cardinality(s.ops) \in Nat
    BY FS_CardinalityType DEF SessionInv
  <2>2. Cardinality(s.ops) < MaxRetained
    BY <1>3, <2>1, SessionAssumption DEF RetentionFull
  <2>3. /\ IsFiniteSet(t.ops) /\ Cardinality(t.ops) \in Nat
        /\ Cardinality(t.ops) <= Cardinality(s.ops) + 1
    <3>1. /\ IsFiniteSet(t.ops)
          /\ Cardinality(t.ops) = Cardinality(s.ops) \/ Cardinality(t.ops) = Cardinality(s.ops) + 1
      <4> DEFINE S == s.ops
      <4>1. IsFiniteSet(S) /\ t.ops = S \union {new}
        BY <1>1, <2>1
      <4>2. /\ IsFiniteSet(S \union {new})
            /\ Cardinality(S \union {new}) = IF new \in S THEN Cardinality(S) ELSE Cardinality(S) + 1
        <5> HIDE DEF S
        <5> QED BY <4>1, FS_AddElement
      <4> QED BY <4>1, <4>2
    <3> QED BY <2>1, <3>1
  <2>4. LiveOf(t) \subseteq t.ops
    BY DEF LiveOf
  <2>5. Cardinality(LiveOf(t)) <= Cardinality(t.ops) /\ Cardinality(LiveOf(t)) \in Nat
    BY <2>3, <2>4, FS_Subset, FS_CardinalityType
  <2>6. Cardinality(LiveOf(t)) <= MaxRetained
    BY <2>1, <2>2, <2>3, <2>5, SessionAssumption
  <2> QED BY <2>6 DEF Capped, t
<1> QED BY <1>2, <1>3

(* Restart renumbers the live ops it keeps and adds none.                      *)
LEMMA CappedRestart ==
    ASSUME NEW s, SessionInv(s), Capped(s), NEW first \in ReplayOps, NEW epoch
    PROVE  Capped(Restarted(s, first, epoch))
<1> DEFINE K == Kept(s)
           f == [r \in K |-> [seq |-> 1 + Rank(r, K), op |-> r.op]]
           F == {[seq |-> 1 + Rank(r, K), op |-> r.op] : r \in K}
           t == Restarted(s, first, epoch)
<1>1. s \in SessionRecord /\ s.ops \subseteq Retained
  BY DEF SessionInv, SessionRecord
<1>2. K = LiveOf(s) /\ K \subseteq s.ops
  BY <1>1, SessionAssumption DEF Kept, LiveOf, Retained, Ops
<1>3. t.ops = {[seq |-> 1, op |-> first]} \union F
  BY <1>1 DEF Restarted, Renumbered, SessionRecord
<1>4. LiveOf(t) \subseteq F
  <2> HIDE DEF F, t
  <2> QED BY <1>3, SessionAssumption DEF LiveOf
<1>5. IsFiniteSet(K)
  BY <1>2, FS_Subset DEF SessionInv
<1>6. f \in Surjection(K, F)
  <2> HIDE DEF K
  <2> QED BY DEF Surjection
<1> HIDE DEF K, f, F, t
<1>7. IsFiniteSet(F) /\ Cardinality(F) <= Cardinality(K)
  BY <1>5, <1>6, FS_Surjection
<1>8. Cardinality(LiveOf(t)) <= Cardinality(F) /\ IsFiniteSet(LiveOf(t))
  BY <1>4, <1>7, FS_Subset
<1>9. Cardinality(F) \in Nat /\ Cardinality(K) \in Nat /\ Cardinality(LiveOf(t)) \in Nat
  BY <1>5, <1>7, <1>8, FS_CardinalityType
<1>10. Cardinality(K) <= MaxRetained
  BY <1>2 DEF Capped
<1>11. Capped(t)
  BY SMTT(20), <1>7, <1>8, <1>9, <1>10, SessionAssumption DEF Capped
<1> QED BY <1>11 DEF t
-----------------------------------------------------------------------------
(* The actions that change a session object preserve LaneInv.                  *)
(* What signalling and closing do to the drainers.                             *)

(* Signal gives a token to the drainer that reads o's wake channel, if any.   *)
LEMMA SignalSpec ==
    ASSUME TypeOK, NEW o \in Objects
    PROVE  /\ Signal(o) \in [Drainers -> DrainerRecord]
           /\ \A d \in Drainers :
                Signal(o)[d] = IF HasReader(o) /\ d = ses[o].wake THEN Woken(drn[d]) ELSE drn[d]
<1>1. HasReader(o) => ses[o].wake \in Drainers
  BY Zenon DEF TypeOK, SessionRecord, HasReader
<1>2. \A d \in Drainers : drn[d] \in DrainerRecord /\ Woken(drn[d]) \in DrainerRecord
  BY ZenonT(40) DEF TypeOK, Woken, DrainerRecord
<1>3. drn \in [Drainers -> DrainerRecord]
  BY Zenon DEF TypeOK
<1> QED BY Zenon, <1>1, <1>2, <1>3 DEF Signal

(* CloseWake closes the channel under the drainer that reads it, if any.      *)
LEMMA CloseSpec ==
    ASSUME TypeOK, NEW o \in Objects
    PROVE  /\ CloseWake(o) \in [Drainers -> DrainerRecord]
           /\ \A d \in Drainers :
                CloseWake(o)[d] = IF HasReader(o) /\ d = ses[o].wake THEN Closed(drn[d]) ELSE drn[d]
<1>1. HasReader(o) => ses[o].wake \in Drainers
  BY Zenon DEF TypeOK, SessionRecord, HasReader
<1>2. \A d \in Drainers : drn[d] \in DrainerRecord /\ Closed(drn[d]) \in DrainerRecord
  BY ZenonT(40) DEF TypeOK, Closed, DrainerRecord
<1>3. drn \in [Drainers -> DrainerRecord]
  BY Zenon DEF TypeOK
<1> QED BY Zenon, <1>1, <1>2, <1>3 DEF CloseWake

-----------------------------------------------------------------------------
(* Each action preserves the invariant.                                        *)

(* Bind preserves LaneInv: the object it allocates is fresh.                  *)
LEMMA BindInv == ASSUME LaneInv, Bind PROVE LaneInv'
<1>1. PICK o \in Objects : /\ ses[o].epoch = 0 /\ bound' = o
                           /\ ses' = [ses EXCEPT ![o] = NewSession(lastEpoch + 1)]
  BY Zenon DEF Bind
<1> DEFINE new == NewSession(lastEpoch + 1)
<1>2. /\ bound = Nil /\ retiring = Nil /\ lastEpoch' = lastEpoch + 1
      /\ UNCHANGED <<retiring, drn, snd>>
  BY Zenon DEF Bind
<1>3. lastEpoch + 1 \in 1..MaxEpoch /\ lastEpoch + 1 \in 0..MaxEpoch
  BY LaneAssumption DEF Bind, LaneInv, TypeOK
<1>4. /\ SessionInv(new) /\ new \in SessionRecord /\ new.epoch = lastEpoch + 1
      /\ ~new.retired /\ new.sub = 0 /\ ~new.live /\ new.wake = Nil
  BY <1>3, NewSessionInv
<1>5. ses[o].sub = 0 /\ ~ses[o].live /\ ses[o].wake = Nil
  <2>1. ses[o] = NewSession(0)
    BY Zenon, <1>1 DEF LaneInv, ObjectsInv
  <2> QED BY <2>1 DEF NewSession
<1> HIDE DEF new
<1>6. /\ ses' \in [Objects -> SessionRecord] /\ ses'[o] = new
      /\ \A x \in Objects : x # o => ses'[x] = ses[x]
  BY Zenon, <1>1, <1>4 DEF LaneInv, TypeOK, new
<1>7. TypeOK'
  BY Zenon, <1>1, <1>2, <1>3, <1>6 DEF LaneInv, TypeOK
<1>8. \A d \in Drainers : drn[d].pc # "idle" => drn[d].obj \in Objects /\ drn[d].obj # o
  BY <1>1 DEF LaneInv, ObjectsInv, TypeOK, SessionRecord
<1>9. ObjectsInv'
  BY SMTT(60), <1>1, <1>2, <1>3, <1>4, <1>6, SessionAssumption DEF LaneInv, ObjectsInv, TypeOK
<1>10. ChannelInv'
  BY <1>2, <1>4, <1>5, <1>6, <1>8 DEF LaneInv, ChannelInv, HasReader, Serving, Displaced
<1>11. LocalInv'
  BY Zenon, <1>2, <1>4, <1>6, <1>8 DEF LaneInv, LocalInv, Serving, Current, Displaced
<1> QED BY Zenon, <1>7, <1>9, <1>10, <1>11 DEF LaneInv

(* Retire's first section (the map delete) preserves LaneInv.                 *)
LEMMA RetireUnmapInv == ASSUME LaneInv, RetireUnmap PROVE LaneInv'
<1>1. ObjectsInv'
  BY Zenon DEF LaneInv, ObjectsInv, RetireUnmap
<1>2. TypeOK'
  BY Zenon DEF LaneInv, TypeOK, RetireUnmap
<1>3. ChannelInv' /\ LocalInv'
  BY Zenon DEF LaneInv, RetireUnmap, ChannelInv, LocalInv, HasReader, Serving, Displaced, Current
<1> QED BY Zenon, <1>1, <1>2, <1>3 DEF LaneInv

(* A refused Send or SendIfLive preserves LaneInv.                            *)
LEMMA SendRefuseInv ==
    ASSUME LaneInv, NEW c \in Callers, NEW op, NEW ifLive,
           SendResolve(c) \/ SendRefuse(c, op, ifLive)
    PROVE  LaneInv'
<1>1. UNCHANGED <<bound, retiring, lastEpoch, ses, drn>>
  BY Zenon DEF SendResolve, SendRefuse
<1>2. \E x \in {Nil, bound} : snd' = [snd EXCEPT ![c] = x]
  BY Zenon DEF SendResolve, SendRefuse
<1>3. TypeOK'
  BY Zenon, <1>1, <1>2 DEF LaneInv, TypeOK
<1>4. ObjectsInv'
  BY SMTT(60), <1>1, <1>2, SessionAssumption DEF LaneInv, ObjectsInv, TypeOK
<1>5. ChannelInv' /\ LocalInv'
  BY Zenon, <1>1 DEF LaneInv, ChannelInv, LocalInv, HasReader, Serving, Displaced, Current
<1> QED BY Zenon, <1>3, <1>4, <1>5 DEF LaneInv

(* A step that updates one object under its current subscription.              *)
LEMMA ObjectStep ==
    ASSUME LaneInv, NEW o \in Objects, NEW t, SessionInv(t), ses[o].epoch > 0,
           t.sub = ses[o].sub, t.live = ses[o].live, t.wake = ses[o].wake,
           t.retired = ses[o].retired, t.epoch = ses[o].epoch,
           ses' = [ses EXCEPT ![o] = t], drn' = drn \/ drn' = Signal(o),
           UNCHANGED <<bound, retiring, lastEpoch>>,
           snd' \in [Callers -> Objects \union {Nil}], \A c \in Callers : snd'[c] \in {snd[c], Nil},
           \A d \in Drainers : /\ Current(d) /\ drn[d].obj = o
                               /\ DrainerInv(drn[d]) /\ CurrentInv(drn[d], ses[o])
                               => CurrentInv(drn'[d], t)
    PROVE  LaneInv'
<1>1. TypeOK /\ t \in SessionRecord
  BY Zenon DEF LaneInv, SessionInv
<1>2. /\ ses' \in [Objects -> SessionRecord] /\ ses'[o] = t
      /\ \A x \in Objects : x # o => ses'[x] = ses[x]
  BY Zenon, <1>1 DEF TypeOK
<1>3. /\ drn' \in [Drainers -> DrainerRecord]
      /\ \A d \in Drainers : drn'[d] = drn[d] \/ drn'[d] = Woken(drn[d])
  BY Zenon, <1>1, SignalSpec DEF TypeOK
<1>4. \A d \in Drainers :
         /\ drn'[d].pc = drn[d].pc /\ drn'[d].obj = drn[d].obj /\ drn'[d].mine = drn[d].mine
         /\ drn'[d].closed = drn[d].closed
  <2> TAKE d \in Drainers
  <2>1. drn[d] \in DrainerRecord
    BY Zenon, <1>1 DEF TypeOK
  <2>2. CASE drn'[d] = drn[d]
    BY Zenon, <2>2
  <2>3. CASE drn'[d] = Woken(drn[d])
    BY Zenon, <2>1, <2>3, WakeFields
  <2> QED BY Zenon, <1>3, <2>2, <2>3
<1>5. TypeOK'
  BY Zenon, <1>1, <1>2, <1>3 DEF TypeOK
<1>6. \A x \in Objects :
        /\ ses'[x].sub = ses[x].sub /\ ses'[x].live = ses[x].live /\ ses'[x].wake = ses[x].wake
        /\ ses'[x].retired = ses[x].retired /\ ses'[x].epoch = ses[x].epoch
  BY Zenon, <1>2
<1>7. ObjectsInv'
  <2>1. \A x \in Objects : ses'[x].epoch = 0 => ses'[x] = NewSession(0)
    BY <1>1, <1>2, <1>6 DEF LaneInv, ObjectsInv, TypeOK, SessionRecord
  <2> QED BY <1>4, <1>6, <2>1, SessionAssumption DEF LaneInv, ObjectsInv, TypeOK
<1>8. \A d \in Drainers :
        /\ Serving(d)' <=> Serving(d)
        /\ Serving(d) => drn[d].obj \in Objects /\ (Displaced(d)' <=> Displaced(d))
  BY <1>4, <1>6 DEF LaneInv, ObjectsInv, Serving, Displaced
<1>9. ChannelInv'
  <2>1. \A x \in Objects : HasReader(x)' <=> HasReader(x)
    BY <1>1, <1>6, <1>8 DEF HasReader, TypeOK, SessionRecord
  <2>2. \A x \in Objects :
          /\ ses'[x].live <=> HasReader(x)'
          /\ HasReader(x)' => drn'[ses'[x].wake].obj = x /\ drn'[ses'[x].wake].mine = ses'[x].sub
    <3>1. \A x \in Objects : HasReader(x) => ses[x].wake \in Drainers
      BY Zenon, <1>1 DEF HasReader, TypeOK, SessionRecord
    <3> QED BY <1>4, <1>6, <2>1, <3>1 DEF LaneInv, ChannelInv
  <2>3. \A d \in Drainers : Serving(d)' =>
          /\ drn'[d].mine <= ses'[drn'[d].obj].sub
          /\ Displaced(d)' => drn'[d].closed
          /\ ~Displaced(d)' => ses'[drn'[d].obj].wake = d
    BY <1>4, <1>6, <1>8, SMTT(60) DEF LaneInv, ChannelInv
  <2> QED BY Zenon, <2>2, <2>3 DEF ChannelInv
<1>10. LocalInv'
  <2>1. \A x \in Objects : SessionInv(ses'[x])
    BY Zenon, <1>2 DEF LaneInv, LocalInv
  <2>2. \A d \in Drainers : Serving(d)' => DrainerInv(drn'[d])
    BY Zenon, <1>1, <1>3, <1>8, TokenInv DEF LaneInv, LocalInv, TypeOK
  <2>3. ASSUME NEW d \in Drainers, Current(d)'
        PROVE  CurrentInv(drn'[d], ses'[drn'[d].obj])
    <3>1. Current(d) /\ drn'[d].obj = drn[d].obj /\ drn[d].obj \in Objects
      BY Zenon, <1>4, <1>8, <2>3 DEF Current
    <3>2. DrainerInv(drn[d]) /\ CurrentInv(drn[d], ses[drn[d].obj])
      BY Zenon, <3>1 DEF LaneInv, LocalInv, Current
    <3>3. CASE drn[d].obj = o
      BY Zenon, <1>2, <3>1, <3>2, <3>3
    <3>4. CASE drn[d].obj # o
      BY <1>1, <1>2, <1>3, <3>1, <3>2, <3>4, TokenInv DEF TypeOK
    <3> QED BY Zenon, <3>3, <3>4
  <2> QED BY Zenon, <2>1, <2>2, <2>3 DEF LocalInv
<1> QED BY Zenon, <1>5, <1>7, <1>9, <1>10 DEF LaneInv

(* ReleaseReplayBarrier and Append signal exactly the current subscription.    *)
LEMMA SignalReaches ==
    ASSUME LaneInv, NEW d \in Drainers, Current(d)
    PROVE  drn[d].obj \in Objects /\ Signal(drn[d].obj)[d] = Woken(drn[d])
<1>1. drn[d].obj \in Objects /\ ses[drn[d].obj].wake = d
  BY Zenon DEF LaneInv, ObjectsInv, ChannelInv, Current, Serving
<1>2. HasReader(drn[d].obj)
  BY Zenon, <1>1, SessionAssumption DEF HasReader, Current
<1> QED BY Zenon, <1>1, <1>2, SignalSpec DEF LaneInv

(* HoldForReplay preserves LaneInv.                                           *)
LEMMA HoldForReplayInv == ASSUME LaneInv, HoldForReplay PROVE LaneInv'
<1> DEFINE t == [ses[bound] EXCEPT !.held = TRUE]
<1>1. bound \in Objects /\ ses[bound].epoch > 0 /\ SessionInv(ses[bound])
  BY Zenon DEF HoldForReplay, LaneInv, TypeOK, ObjectsInv, LocalInv
<1>2. /\ t.sub = ses[bound].sub /\ t.live = ses[bound].live /\ t.wake = ses[bound].wake
      /\ t.retired = ses[bound].retired /\ t.epoch = ses[bound].epoch
  BY Zenon, <1>1 DEF SessionInv, SessionRecord
<1>3. SessionInv(t) /\ \A q \in DrainerRecord : CurrentInv(q, ses[bound]) => CurrentInv(q, t)
  BY Zenon, <1>1, HeldInv
<1>4. /\ ses' = [ses EXCEPT ![bound] = t]
      /\ UNCHANGED <<bound, retiring, lastEpoch, drn, snd>>
  BY Zenon DEF HoldForReplay
<1>5. /\ drn \in [Drainers -> DrainerRecord]
      /\ snd' \in [Callers -> Objects \union {Nil}] /\ \A c \in Callers : snd'[c] \in {snd[c], Nil}
  BY Zenon, <1>4 DEF LaneInv, TypeOK
<1> HIDE DEF t
<1> QED BY Zenon, <1>1, <1>2, <1>3, <1>4, <1>5, ObjectStep

(* ReleaseReplayBarrier preserves LaneInv: it signals what it makes deliverable. *)
LEMMA ReleaseReplayBarrierInv ==
    ASSUME LaneInv, NEW o \in Objects, NEW epoch, ReleaseReplayBarrier(o, epoch)
    PROVE  LaneInv'
<1> DEFINE t == [ses[o] EXCEPT !.held = FALSE]
<1>1. ses[o].epoch > 0 /\ SessionInv(ses[o])
  BY Zenon DEF ReleaseReplayBarrier, LaneInv, LocalInv
<1>2. /\ t.sub = ses[o].sub /\ t.live = ses[o].live /\ t.wake = ses[o].wake
      /\ t.retired = ses[o].retired /\ t.epoch = ses[o].epoch
  BY Zenon, <1>1 DEF SessionInv, SessionRecord
<1>3. /\ SessionInv(t)
      /\ \A q \in DrainerRecord : CurrentInv(q, ses[o]) /\ q.token => CurrentInv(q, t)
  BY Zenon, <1>1, HeldInv
<1>4. /\ ses' = [ses EXCEPT ![o] = t] /\ drn' = Signal(o)
      /\ UNCHANGED <<bound, retiring, lastEpoch, snd>>
  BY Zenon DEF ReleaseReplayBarrier
<1>5. /\ drn \in [Drainers -> DrainerRecord] /\ ses[o] \in SessionRecord
      /\ snd' \in [Callers -> Objects \union {Nil}] /\ \A c \in Callers : snd'[c] \in {snd[c], Nil}
  BY Zenon, <1>1, <1>4 DEF LaneInv, TypeOK
<1> HIDE DEF t
<1>6. ASSUME NEW d \in Drainers, Current(d), drn[d].obj = o, CurrentInv(drn[d], ses[o])
      PROVE  CurrentInv(drn'[d], t)
  <2>1. drn'[d] = Woken(drn[d])
    BY Zenon, <1>4, <1>6, SignalReaches
  <2>2. /\ Woken(drn[d]) \in DrainerRecord /\ CurrentInv(Woken(drn[d]), ses[o])
        /\ Woken(drn[d]).token
    BY Zenon, <1>5, <1>6, TokenInv, WakeFields
  <2> QED BY Zenon, <1>3, <2>1, <2>2
<1> QED BY Zenon, <1>1, <1>2, <1>3, <1>4, <1>5, <1>6, ObjectStep

(* AckControl preserves LaneInv, whatever the agent acks.                     *)
LEMMA AckControlInv ==
    ASSUME LaneInv, NEW o \in Objects, NEW epoch, NEW acked \in Nat, NEW named, AckControl(o, epoch, acked, named)
    PROVE  LaneInv'
<1> DEFINE t == Acked(ses[o], AdvancedCursor(ses[o], acked), named)
<1>1. ses[o].epoch > 0 /\ SessionInv(ses[o])
  BY Zenon DEF AckControl, LaneInv, LocalInv
<1>2. /\ t.sub = ses[o].sub /\ t.live = ses[o].live /\ t.wake = ses[o].wake
      /\ t.retired = ses[o].retired /\ t.epoch = ses[o].epoch
  BY Zenon, <1>1 DEF SessionInv, SessionRecord, Acked
<1>3. SessionInv(t) /\ \A q \in DrainerRecord : CurrentInv(q, ses[o]) => CurrentInv(q, t)
  BY Zenon, <1>1, AckedInv
<1>4. /\ ses' = [ses EXCEPT ![o] = t]
      /\ UNCHANGED <<bound, retiring, lastEpoch, drn, snd>>
  BY Zenon DEF AckControl
<1>5. /\ drn \in [Drainers -> DrainerRecord]
      /\ snd' \in [Callers -> Objects \union {Nil}] /\ \A c \in Callers : snd'[c] \in {snd[c], Nil}
  BY Zenon, <1>4 DEF LaneInv, TypeOK
<1> HIDE DEF t
<1> QED BY Zenon, <1>1, <1>2, <1>3, <1>4, <1>5, ObjectStep

(* An accepted Send preserves LaneInv: the append signals the current drainer. *)
LEMMA SendAppendInv ==
    ASSUME LaneInv, NEW c \in Callers, NEW op \in Ops, NEW ifLive, SendAppend(c, op, ifLive)
    PROVE  LaneInv'
<1> DEFINE o == snd[c]
           s == ses[o]
           t == Appended(s, op)
<1>1. o \in Objects /\ s.epoch > 0 /\ SessionInv(s) /\ s.nextSeq < MaxSeq
  BY Zenon DEF SendAppend, LaneInv, TypeOK, ObjectsInv, LocalInv
<1>2. /\ t.sub = s.sub /\ t.live = s.live /\ t.wake = s.wake
      /\ t.retired = s.retired /\ t.epoch = s.epoch
  BY Zenon, <1>1 DEF SessionInv, SessionRecord, Appended
<1>3. /\ SessionInv(t)
      /\ \A q \in DrainerRecord :
           DrainerInv(q) /\ CurrentInv(q, s) /\ (q.token \/ ~Wakes(s, op)) => CurrentInv(q, t)
  BY Zenon, <1>1, AppendedInv
<1>4. /\ ses' = [ses EXCEPT ![o] = t] /\ drn' = IF Wakes(s, op) THEN Signal(o) ELSE drn
      /\ UNCHANGED <<bound, retiring, lastEpoch>> /\ snd' = [snd EXCEPT ![c] = Nil]
  BY Zenon DEF SendAppend
<1>5. /\ drn \in [Drainers -> DrainerRecord] /\ s \in SessionRecord
      /\ snd' \in [Callers -> Objects \union {Nil}] /\ \A x \in Callers : snd'[x] \in {snd[x], Nil}
  BY Zenon, <1>1, <1>4 DEF LaneInv, TypeOK
<1> HIDE DEF t
<1>6. ASSUME NEW d \in Drainers, Current(d), drn[d].obj = o, DrainerInv(drn[d]),
             CurrentInv(drn[d], s)
      PROVE  CurrentInv(drn'[d], t)
  <2>1. CASE ~Wakes(s, op)
    BY Zenon, <1>3, <1>4, <1>5, <1>6, <2>1
  <2>2. CASE Wakes(s, op)
    <3>1. drn'[d] = Woken(drn[d])
      BY Zenon, <1>4, <1>6, <2>2, SignalReaches
    <3>2. /\ Woken(drn[d]) \in DrainerRecord /\ DrainerInv(Woken(drn[d]))
          /\ CurrentInv(Woken(drn[d]), s) /\ Woken(drn[d]).token
      BY Zenon, <1>5, <1>6, TokenInv, WakeFields
    <3> QED BY Zenon, <1>3, <3>1, <3>2
  <2> QED BY Zenon, <2>1, <2>2
<1> HIDE DEF s, o
<1>7. drn' = drn \/ drn' = Signal(o)
  BY Zenon, <1>4
<1> QED BY Zenon, <1>1, <1>2, <1>3, <1>4, <1>5, <1>6, <1>7, ObjectStep DEF s

(* A step that ends the current subscription of an object, if it has one.      *)
LEMMA DisplaceStep ==
    ASSUME LaneInv, NEW o \in Objects, NEW t, SessionInv(t),
           t.sub = ses[o].sub + 1, ~t.live, t.wake = Nil,
           ses' = [ses EXCEPT ![o] = t], drn' = CloseWake(o)
    PROVE  /\ ses' \in [Objects -> SessionRecord] /\ drn' \in [Drainers -> DrainerRecord]
           /\ \A d \in Drainers : drn'[d].pc = drn[d].pc /\ drn'[d].obj = drn[d].obj
           /\ ChannelInv' /\ LocalInv'
<1>1. TypeOK /\ t \in SessionRecord /\ ses[o] \in SessionRecord
  BY Zenon DEF LaneInv, SessionInv, TypeOK
<1>2. /\ ses' \in [Objects -> SessionRecord] /\ ses'[o] = t
      /\ \A x \in Objects : x # o => ses'[x] = ses[x]
  BY Zenon, <1>1 DEF TypeOK
<1>3. /\ drn' \in [Drainers -> DrainerRecord]
      /\ \A d \in Drainers :
           drn'[d] = IF HasReader(o) /\ d = ses[o].wake THEN Closed(drn[d]) ELSE drn[d]
  BY Zenon, <1>1, CloseSpec
<1>4. \A d \in Drainers :
         /\ drn'[d].pc = drn[d].pc /\ drn'[d].obj = drn[d].obj /\ drn'[d].mine = drn[d].mine
         /\ drn'[d].closed <=> drn[d].closed \/ (HasReader(o) /\ d = ses[o].wake)
  <2> TAKE d \in Drainers
  <2>1. drn[d] \in DrainerRecord /\ drn[d].closed \in BOOLEAN
    BY Zenon, <1>1 DEF TypeOK, DrainerRecord
  <2>2. CASE HasReader(o) /\ d = ses[o].wake
    <3>1. drn'[d] = Closed(drn[d])
      BY Zenon, <1>3, <2>2
    <3>2. /\ drn'[d].pc = drn[d].pc /\ drn'[d].obj = drn[d].obj /\ drn'[d].mine = drn[d].mine
          /\ drn'[d].closed
      BY <2>1, <3>1, WakeFields, ZenonT(40)
    <3> QED BY Zenon, <2>2, <3>2
  <2>3. CASE ~(HasReader(o) /\ d = ses[o].wake)
    <3>1. drn'[d] = drn[d]
      BY Zenon, <1>3, <2>3
    <3> QED BY Zenon, <2>3, <3>1
  <2> QED BY Zenon, <2>2, <2>3
<1>5. \A d \in Drainers :
        /\ Serving(d)' <=> Serving(d)
        /\ Serving(d) => drn[d].obj \in Objects
        /\ Serving(d) /\ drn[d].obj # o => (Displaced(d)' <=> Displaced(d))
  BY Zenon, <1>2, <1>4 DEF LaneInv, ObjectsInv, Serving, Displaced
<1>6. ASSUME NEW d \in Drainers, Serving(d), drn[d].obj = o
      PROVE  Displaced(d)' /\ drn'[d].closed /\ drn[d].mine <= t.sub
  <2>1. drn[d].mine \in Nat /\ ses[o].sub \in Nat /\ drn[d].mine <= ses[o].sub
    BY Zenon, <1>1, <1>6 DEF LaneInv, ChannelInv, TypeOK, DrainerRecord, SessionRecord
  <2>2. Displaced(d)'
    BY <1>2, <1>4, <1>6, <2>1 DEF Displaced
  <2>3. drn'[d].closed
    <3>1. CASE Displaced(d)
      BY Zenon, <1>4, <1>6, <3>1 DEF LaneInv, ChannelInv
    <3>2. CASE ~Displaced(d)
      <4>1. ses[o].wake = d
        BY Zenon, <1>6, <3>2 DEF LaneInv, ChannelInv
      <4> QED BY Zenon, <1>4, <1>6, <4>1, SessionAssumption DEF HasReader
    <3> QED BY Zenon, <3>1, <3>2
  <2> QED BY <2>1, <2>2, <2>3
<1>7. ChannelInv'
  <2>1. \A x \in Objects : x # o => (HasReader(x)' <=> HasReader(x))
    BY Zenon, <1>1, <1>2, <1>5 DEF HasReader, TypeOK, SessionRecord
  <2>2. ~HasReader(o)'
    BY Zenon, <1>2 DEF HasReader
  <2>3. ASSUME NEW x \in Objects
        PROVE  /\ ses'[x].live <=> HasReader(x)'
               /\ HasReader(x)' =>
                    drn'[ses'[x].wake].obj = x /\ drn'[ses'[x].wake].mine = ses'[x].sub
    <3>1. CASE x = o
      BY Zenon, <1>2, <2>2, <3>1
    <3>2. CASE x # o
      <4>1. HasReader(x) => ses[x].wake \in Drainers
        BY Zenon, <1>1 DEF HasReader, TypeOK, SessionRecord
      <4> QED BY <1>2, <1>4, <2>1, <3>2, <4>1, SMTT(60) DEF LaneInv, ChannelInv
    <3> QED BY Zenon, <3>1, <3>2
  <2>4. ASSUME NEW d \in Drainers, Serving(d)'
        PROVE  /\ drn'[d].mine <= ses'[drn'[d].obj].sub
               /\ Displaced(d)' => drn'[d].closed
               /\ ~Displaced(d)' => ses'[drn'[d].obj].wake = d
    <3>1. CASE drn[d].obj = o
      BY Zenon, <1>2, <1>4, <1>5, <1>6, <2>4, <3>1
    <3>2. CASE drn[d].obj # o
      BY Zenon, <1>2, <1>4, <1>5, <2>4, <3>2 DEF LaneInv, ChannelInv
    <3> QED BY Zenon, <3>1, <3>2
  <2> QED BY Zenon, <2>3, <2>4 DEF ChannelInv
<1>8. LocalInv'
  <2>1. \A x \in Objects : SessionInv(ses'[x])
    BY Zenon, <1>2 DEF LaneInv, LocalInv
  <2>2. \A d \in Drainers : Serving(d)' => DrainerInv(drn'[d])
    BY Zenon, <1>1, <1>3, <1>5, TokenInv DEF LaneInv, LocalInv, TypeOK
  <2>3. ASSUME NEW d \in Drainers, Current(d)'
        PROVE  CurrentInv(drn'[d], ses'[drn'[d].obj])
    <3>1. Current(d) /\ drn'[d].obj = drn[d].obj /\ drn[d].obj \in Objects /\ drn[d].obj # o
      BY Zenon, <1>4, <1>5, <1>6, <2>3 DEF Current
    <3>2. CurrentInv(drn[d], ses[drn[d].obj]) /\ ses'[drn[d].obj] = ses[drn[d].obj]
          /\ ses[drn[d].obj] \in SessionRecord /\ drn[d] \in DrainerRecord
      BY Zenon, <1>1, <1>2, <3>1 DEF LaneInv, LocalInv, TypeOK
    <3> QED BY Zenon, <1>3, <3>1, <3>2, TokenInv
  <2> QED BY Zenon, <2>1, <2>2, <2>3 DEF LocalInv
<1> QED BY Zenon, <1>2, <1>3, <1>4, <1>7, <1>8

(* Retire's second section (the tombstone) preserves LaneInv.                 *)
LEMMA RetireTombstoneInv == ASSUME LaneInv, RetireTombstone PROVE LaneInv'
<1> DEFINE t == Tombstoned(ses[retiring])
<1>1. /\ retiring \in Objects /\ ses[retiring].epoch > 0 /\ SessionInv(ses[retiring])
      /\ bound = Nil
  BY Zenon DEF RetireTombstone, LaneInv, TypeOK, ObjectsInv, LocalInv
<1>2. /\ t.sub = ses[retiring].sub + 1 /\ ~t.live /\ t.wake = Nil
      /\ t.retired /\ t.epoch = ses[retiring].epoch
  BY Zenon, <1>1 DEF SessionInv, SessionRecord, Tombstoned
<1>3. SessionInv(t)
  BY Zenon, <1>1, TombstonedInv
<1>4. /\ ses' = [ses EXCEPT ![retiring] = t] /\ drn' = CloseWake(retiring)
      /\ retiring' = Nil /\ UNCHANGED <<bound, lastEpoch, snd>>
  BY Zenon DEF RetireTombstone
<1> HIDE DEF t
<1>5. /\ ses' \in [Objects -> SessionRecord] /\ drn' \in [Drainers -> DrainerRecord]
      /\ \A d \in Drainers : drn'[d].pc = drn[d].pc /\ drn'[d].obj = drn[d].obj
      /\ ChannelInv' /\ LocalInv'
  BY Zenon, <1>1, <1>2, <1>3, <1>4, DisplaceStep
<1>6. TypeOK'
  BY Zenon, <1>4, <1>5 DEF LaneInv, TypeOK
<1>7. ses'[retiring] = t /\ \A x \in Objects : x # retiring => ses'[x] = ses[x]
  BY Zenon, <1>1, <1>4 DEF LaneInv, TypeOK
<1>8. ObjectsInv'
  <2>1. ASSUME NEW x \in Objects
        PROVE  /\ ses'[x].epoch = 0 => ses'[x] = NewSession(0)
               /\ x = bound' \/ x = retiring' <=> ses'[x].epoch > 0 /\ ~ses'[x].retired
               /\ ses[x].epoch > 0 => ses'[x].epoch > 0
    BY <1>1, <1>2, <1>4, <1>7, SessionAssumption DEF LaneInv, ObjectsInv
  <2> QED BY SMTT(60), <1>4, <1>5, <2>1 DEF LaneInv, ObjectsInv, TypeOK
<1> QED BY Zenon, <1>5, <1>6, <1>8 DEF LaneInv

(* Restart preserves LaneInv: it renumbers and displaces in one section.      *)
LEMMA RestartInv == ASSUME LaneInv, Restart PROVE LaneInv'
<1>1. PICK first \in ReplayOps :
        ses' = [ses EXCEPT ![bound] = Restarted(@, first, lastEpoch + 1)]
  BY Zenon DEF Restart
<1> DEFINE t == Restarted(ses[bound], first, lastEpoch + 1)
<1>2. /\ bound \in Objects /\ ses[bound].epoch > 0 /\ SessionInv(ses[bound])
      /\ ~ses[bound].retired /\ Cardinality(Kept(ses[bound])) < MaxSeq
  BY Zenon DEF Restart, LaneInv, TypeOK, ObjectsInv, LocalInv
<1>3. lastEpoch + 1 \in 0..MaxEpoch /\ lastEpoch + 1 > 0
  BY LaneAssumption DEF Restart, LaneInv, TypeOK
<1>4. /\ t.sub = ses[bound].sub + 1 /\ ~t.live /\ t.wake = Nil
      /\ ~t.retired /\ t.epoch = lastEpoch + 1
  BY Zenon, <1>2 DEF SessionInv, SessionRecord, Restarted
<1>5. SessionInv(t)
  BY <1>2, <1>3, RestartedInv
<1>6. /\ ses' = [ses EXCEPT ![bound] = t] /\ drn' = CloseWake(bound)
      /\ lastEpoch' = lastEpoch + 1 /\ UNCHANGED <<bound, retiring, snd>>
  BY Zenon, <1>1 DEF Restart
<1> HIDE DEF t
<1>7. /\ ses' \in [Objects -> SessionRecord] /\ drn' \in [Drainers -> DrainerRecord]
      /\ \A d \in Drainers : drn'[d].pc = drn[d].pc /\ drn'[d].obj = drn[d].obj
      /\ ChannelInv' /\ LocalInv'
  BY Zenon, <1>2, <1>4, <1>5, <1>6, DisplaceStep
<1>8. TypeOK'
  BY Zenon, <1>3, <1>6, <1>7 DEF LaneInv, TypeOK
<1>9. ses'[bound] = t /\ \A x \in Objects : x # bound => ses'[x] = ses[x]
  BY Zenon, <1>2, <1>6 DEF LaneInv, TypeOK
<1>10. ObjectsInv'
  <2>1. ASSUME NEW x \in Objects
        PROVE  /\ ses'[x].epoch = 0 => ses'[x] = NewSession(0)
               /\ x = bound' \/ x = retiring' <=> ses'[x].epoch > 0 /\ ~ses'[x].retired
               /\ ses[x].epoch > 0 => ses'[x].epoch > 0
    BY <1>2, <1>3, <1>4, <1>6, <1>9, SMTT(60) DEF LaneInv, ObjectsInv
  <2> QED BY Zenon, <1>6, <1>7, <2>1 DEF LaneInv, ObjectsInv, TypeOK
<1> QED BY Zenon, <1>7, <1>8, <1>10 DEF LaneInv

-----------------------------------------------------------------------------
(* The actions of a subscription's drainer preserve LaneInv.                   *)

(* A step of one drainer that leaves the objects alone: it moves on with its   *)
(* claim, leaves because it was displaced, or never held one.                  *)
LEMMA DrainerStep ==
    ASSUME LaneInv, NEW d \in Drainers, NEW w \in DrainerRecord,
           drn' = [drn EXCEPT ![d] = w], UNCHANGED <<bound, retiring, lastEpoch, ses, snd>>,
           \/ /\ Serving(d) /\ w.pc \in {"top", "check", "write", "park", "exit"}
              /\ w.obj = drn[d].obj /\ w.mine = drn[d].mine /\ w.closed = drn[d].closed
              /\ DrainerInv(w)
              /\ CurrentInv(drn[d], ses[drn[d].obj]) => CurrentInv(w, ses[drn[d].obj])
           \/ /\ ~Serving(d) \/ Displaced(d)
              /\ \/ w.pc = "idle" /\ w.obj = Nil
                 \/ w.pc = "resolved" /\ w.obj = bound /\ bound # Nil
    PROVE  LaneInv'
<1> DEFINE moves ==
             /\ Serving(d) /\ w.pc \in {"top", "check", "write", "park", "exit"}
             /\ w.obj = drn[d].obj /\ w.mine = drn[d].mine /\ w.closed = drn[d].closed
             /\ DrainerInv(w)
             /\ CurrentInv(drn[d], ses[drn[d].obj]) => CurrentInv(w, ses[drn[d].obj])
<1>1. /\ drn' \in [Drainers -> DrainerRecord] /\ drn'[d] = w
      /\ \A e \in Drainers : e # d => drn'[e] = drn[e]
  BY Zenon DEF LaneInv, TypeOK
<1>2. TypeOK'
  BY Zenon, <1>1 DEF LaneInv, TypeOK
<1>3. ObjectsInv'
  <2>1. w.pc # "idle" => w.obj \in Objects
    BY Zenon DEF LaneInv, ObjectsInv, TypeOK, Serving
  <2>2. w.obj \in Objects => ses[w.obj].epoch > 0
    BY Zenon, SessionAssumption DEF LaneInv, ObjectsInv, TypeOK
  <2> QED BY Zenon, <1>1, <2>1, <2>2 DEF LaneInv, ObjectsInv
<1>4. \A e \in Drainers : e # d =>
        (Serving(e)' <=> Serving(e)) /\ (Displaced(e)' <=> Displaced(e))
  BY Zenon, <1>1 DEF Serving, Displaced
<1>5. /\ moves => Serving(d)' /\ (Displaced(d)' <=> Displaced(d))
      /\ ~moves => ~Serving(d)' /\ (~Serving(d) \/ Displaced(d))
  BY Zenon, <1>1 DEF Serving, Displaced
<1>6. \A x \in Objects : ses[x].wake # Nil => ses[x].wake \in Drainers
  BY Zenon DEF LaneInv, TypeOK, SessionRecord
<1>7. \A x \in Objects : HasReader(x)' <=> HasReader(x)
  <2> TAKE x \in Objects
  <2>1. CASE ses[x].wake # d
    BY Zenon, <1>4, <1>6, <2>1 DEF HasReader
  <2>2. CASE ses[x].wake = d
    <3>1. CASE moves
      BY Zenon, <1>5, <2>2, <3>1 DEF HasReader
    <3>2. CASE ~moves
      <4>1. ~HasReader(x)'
        BY Zenon, <1>5, <2>2, <3>2 DEF HasReader
      <4>2. ~HasReader(x)
        BY Zenon, <1>5, <2>2, <3>2 DEF HasReader, LaneInv, ChannelInv, Displaced
      <4> QED BY Zenon, <4>1, <4>2
    <3> QED BY Zenon, <3>1, <3>2
  <2> QED BY Zenon, <2>1, <2>2
<1>8. ChannelInv'
  <2>1. ASSUME NEW x \in Objects
        PROVE  /\ ses'[x].live <=> HasReader(x)'
               /\ HasReader(x)' =>
                    drn'[ses'[x].wake].obj = x /\ drn'[ses'[x].wake].mine = ses'[x].sub
    <3>1. ses[x].live <=> HasReader(x)'
      BY Zenon, <1>7 DEF LaneInv, ChannelInv
    <3>2. ASSUME HasReader(x)'
          PROVE  drn'[ses[x].wake].obj = x /\ drn'[ses[x].wake].mine = ses[x].sub
      <4>1. HasReader(x) /\ ses[x].wake \in Drainers
        BY Zenon, <1>6, <1>7, <3>2 DEF HasReader
      <4>2. drn[ses[x].wake].obj = x /\ drn[ses[x].wake].mine = ses[x].sub
        BY Zenon, <4>1 DEF LaneInv, ChannelInv
      <4>3. CASE ses[x].wake # d
        BY Zenon, <1>1, <4>1, <4>2, <4>3
      <4>4. CASE ses[x].wake = d
        <5>1. Serving(d)'
          BY Zenon, <3>2, <4>4 DEF HasReader
        <5> QED BY Zenon, <1>1, <1>5, <4>2, <4>4, <5>1
      <4> QED BY Zenon, <4>3, <4>4
    <3> QED BY Zenon, <3>1, <3>2
  <2>2. ASSUME NEW e \in Drainers, Serving(e)'
        PROVE  /\ drn'[e].mine <= ses'[drn'[e].obj].sub
               /\ Displaced(e)' => drn'[e].closed
               /\ ~Displaced(e)' => ses'[drn'[e].obj].wake = e
    <3>1. CASE e # d
      BY Zenon, <1>1, <1>4, <2>2, <3>1 DEF LaneInv, ChannelInv
    <3>2. CASE e = d
      <4>1. moves
        BY Zenon, <1>5, <2>2, <3>2
      <4> HIDE DEF moves
      <4>2. /\ Serving(d) /\ (Displaced(d)' <=> Displaced(d))
            /\ w.obj = drn[d].obj /\ w.mine = drn[d].mine /\ w.closed = drn[d].closed
        BY Zenon, <1>5, <4>1 DEF moves
      <4> QED BY Zenon, <1>1, <3>2, <4>2 DEF LaneInv, ChannelInv
    <3> QED BY Zenon, <3>1, <3>2
  <2> QED BY Zenon, <2>1, <2>2 DEF ChannelInv
<1>9. LocalInv'
  <2>1. \A x \in Objects : SessionInv(ses'[x])
    BY Zenon DEF LaneInv, LocalInv
  <2>2. \A e \in Drainers : Serving(e)' => DrainerInv(drn'[e])
    BY Zenon, <1>1, <1>4, <1>5 DEF LaneInv, LocalInv
  <2>3. ASSUME NEW e \in Drainers, Current(e)'
        PROVE  CurrentInv(drn'[e], ses'[drn'[e].obj])
    <3>1. CASE e # d
      BY Zenon, <1>1, <1>4, <2>3, <3>1 DEF LaneInv, LocalInv, Current
    <3>2. CASE e = d
      <4>1. moves /\ Current(d)
        BY Zenon, <1>5, <2>3, <3>2 DEF Current
      <4> QED BY Zenon, <1>1, <3>2, <4>1 DEF LaneInv, LocalInv
    <3> QED BY Zenon, <3>1, <3>2
  <2> QED BY Zenon, <2>1, <2>2, <2>3 DEF LocalInv
<1> QED BY Zenon, <1>2, <1>3, <1>8, <1>9 DEF LaneInv

(* serve's lookup and its refusal preserve LaneInv.                           *)
LEMMA ServeInv ==
    ASSUME LaneInv, NEW d \in Drainers, Serve(d) \/ ServeRefuse(d)
    PROVE  LaneInv'
<1>1. drn[d] \in DrainerRecord /\ bound \in Objects \union {Nil}
  BY Zenon DEF LaneInv, TypeOK
<1>2. ~Serving(d) /\ UNCHANGED <<bound, retiring, lastEpoch, ses, snd>>
  BY Zenon DEF Serve, ServeRefuse, Serving
<1>3. CASE Serve(d)
  <2> DEFINE w == [drn[d] EXCEPT !.pc = "resolved", !.obj = bound]
  <2>1. w \in DrainerRecord /\ w.pc = "resolved" /\ w.obj = bound
    BY Zenon, <1>1 DEF DrainerRecord
  <2>2. drn' = [drn EXCEPT ![d] = w] /\ bound # Nil
    BY Zenon, <1>3 DEF Serve
  <2> HIDE DEF w
  <2> QED BY Zenon, <1>2, <2>1, <2>2, DrainerStep
<1>4. CASE ServeRefuse(d)
  BY Zenon, <1>2, <1>4, IdleType, DrainerStep DEF ServeRefuse
<1> QED BY Zenon, <1>3, <1>4

(* Each step of a drain cycle preserves LaneInv.                              *)
LEMMA DrainInv ==
    ASSUME LaneInv, NEW d \in Drainers,
           DrainTop(d) \/ DrainCheck(d) \/ DrainWrite(d) \/ DrainWake(d) \/ DrainDrop(d)
    PROVE  LaneInv'
<1> DEFINE q == drn[d]
           s == ses[drn[d].obj]
<1>1. Serving(d) /\ UNCHANGED <<bound, retiring, lastEpoch, ses, snd>>
  BY Zenon DEF DrainTop, DrainCheck, DrainWrite, DrainWake, DrainDrop, Serving
<1>2. q \in DrainerRecord /\ drn[d].obj \in Objects /\ DrainerInv(q) /\ SessionInv(s)
  BY Zenon, <1>1 DEF LaneInv, TypeOK, LocalInv, ObjectsInv, Serving
<1>3. s \in SessionRecord /\ (~Displaced(d) => CurrentInv(q, s))
  BY Zenon, <1>1, <1>2 DEF LaneInv, LocalInv, Current, SessionInv
<1>4. CASE Displaced(d) /\ drn' = [drn EXCEPT ![d] = Idle]
  BY Zenon, <1>1, <1>4, IdleType, DrainerStep
<1>5. CASE DrainTop(d) /\ ~Displaced(d)
  <2> DEFINE w == Collected(q, s)
  <2>1. w \in DrainerRecord /\ DrainerInv(w) /\ CurrentInv(w, s)
    BY Zenon, <1>2, <1>3, <1>5, CollectedInv
  <2>2. /\ w.pc \in {"top", "check", "write", "park", "exit"}
        /\ w.obj = q.obj /\ w.mine = q.mine /\ w.closed = q.closed
    BY Zenon, <1>2, <1>3, <1>5, JumpSpec
  <2>3. drn' = [drn EXCEPT ![d] = w]
    BY Zenon, <1>5 DEF DrainTop
  <2> HIDE DEF w
  <2> QED BY Zenon, <1>1, <2>1, <2>2, <2>3, DrainerStep
<1>6. CASE DrainWrite(d)
  <2> DEFINE w == Written(q)
  <2>1. q.pc = "write" /\ drn' = [drn EXCEPT ![d] = w]
    BY Zenon, <1>6 DEF DrainWrite
  <2>2. w \in DrainerRecord /\ DrainerInv(w) /\ (CurrentInv(q, s) => CurrentInv(w, s))
    BY Zenon, <1>2, <2>1, WrittenInv
  <2>3. /\ w.pc \in {"top", "check", "write", "park", "exit"}
        /\ w.obj = q.obj /\ w.mine = q.mine /\ w.closed = q.closed
    BY Zenon, <1>2, <2>1, WriteSpec
  <2> HIDE DEF w
  <2> QED BY Zenon, <1>1, <2>1, <2>2, <2>3, DrainerStep
<1>7. ASSUME NEW w \in DrainerRecord, w.sent = q.sent, w.above = q.above, w.batch = q.batch,
             w.wrote = q.wrote, w.obj = q.obj, w.mine = q.mine, w.closed = q.closed,
             \/ q.pc = "check" /\ w.pc = "write" /\ w.token = q.token
             \/ q.pc = "park" /\ w.pc = "top"
             \/ w.pc = "exit",
             drn' = [drn EXCEPT ![d] = w]
      PROVE  LaneInv'
  <2>1. DrainerInv(w) /\ (CurrentInv(q, s) => CurrentInv(w, s))
    BY Zenon, <1>2, <1>3, <1>7, MoveInv
  <2>2. w.pc \in {"top", "check", "write", "park", "exit"}
    BY Zenon, <1>7
  <2> QED BY Zenon, <1>1, <1>7, <2>1, <2>2, DrainerStep
<1>8. CASE DrainCheck(d) /\ ~Displaced(d)
  <2> DEFINE w == [q EXCEPT !.pc = "write"]
  <2>1. /\ w \in DrainerRecord /\ w.sent = q.sent /\ w.above = q.above /\ w.batch = q.batch
        /\ w.wrote = q.wrote /\ w.obj = q.obj /\ w.mine = q.mine /\ w.closed = q.closed
        /\ w.pc = "write" /\ w.token = q.token
    BY Zenon, <1>2 DEF DrainerRecord
  <2>2. q.pc = "check" /\ drn' = [drn EXCEPT ![d] = w]
    BY Zenon, <1>8 DEF DrainCheck
  <2> HIDE DEF w
  <2> QED BY Zenon, <1>7, <2>1, <2>2
<1>9. CASE DrainWake(d)
  <2> DEFINE w == [q EXCEPT !.pc = "top", !.token = FALSE]
  <2>1. /\ w \in DrainerRecord /\ w.sent = q.sent /\ w.above = q.above /\ w.batch = q.batch
        /\ w.wrote = q.wrote /\ w.obj = q.obj /\ w.mine = q.mine /\ w.closed = q.closed
        /\ w.pc = "top"
    BY Zenon, <1>2 DEF DrainerRecord
  <2>2. q.pc = "park" /\ drn' = [drn EXCEPT ![d] = w]
    BY Zenon, <1>9 DEF DrainWake
  <2> HIDE DEF w
  <2> QED BY Zenon, <1>7, <2>1, <2>2
<1>10. CASE DrainDrop(d)
  <2> DEFINE w == [q EXCEPT !.pc = "exit"]
  <2>1. /\ w \in DrainerRecord /\ w.sent = q.sent /\ w.above = q.above /\ w.batch = q.batch
        /\ w.wrote = q.wrote /\ w.obj = q.obj /\ w.mine = q.mine /\ w.closed = q.closed
        /\ w.pc = "exit"
    BY Zenon, <1>2 DEF DrainerRecord
  <2>2. drn' = [drn EXCEPT ![d] = w]
    BY Zenon, <1>10 DEF DrainDrop
  <2> HIDE DEF w
  <2> QED BY Zenon, <1>7, <2>1, <2>2
<1>11. (DrainTop(d) \/ DrainCheck(d)) /\ Displaced(d) => drn' = [drn EXCEPT ![d] = Idle]
  BY Zenon DEF DrainTop, DrainCheck
<1> QED BY Zenon, <1>4, <1>5, <1>6, <1>8, <1>9, <1>10, <1>11

(* serve's deferred section preserves LaneInv.                                *)
LEMMA DrainExitInv == ASSUME LaneInv, NEW d \in Drainers, DrainExit(d) PROVE LaneInv'
<1>1. /\ Serving(d) /\ drn' = [drn EXCEPT ![d] = Idle]
      /\ UNCHANGED <<bound, retiring, lastEpoch, snd>>
  BY Zenon DEF DrainExit, Serving
<1>2. CASE Displaced(d)
  <2>1. ses' = ses
    BY Zenon, <1>2 DEF DrainExit, ClearLive
  <2> QED BY Zenon, <1>1, <1>2, <2>1, IdleType, DrainerStep
<1>3. CASE ~Displaced(d)
  <2> DEFINE o == drn[d].obj
             t == [ses[o] EXCEPT !.live = FALSE]
  <2>1. o \in Objects /\ SessionInv(ses[o]) /\ SessionInv(t) /\ ses[o].epoch > 0
    BY Zenon, <1>1, TombstonedInv DEF LaneInv, ObjectsInv, LocalInv, Serving
  <2>2. /\ t \in SessionRecord /\ ~t.live /\ t.sub = ses[o].sub /\ t.wake = ses[o].wake
        /\ t.retired = ses[o].retired /\ t.epoch = ses[o].epoch
    BY Zenon, <2>1 DEF SessionInv, SessionRecord
  <2>3. ses' = [ses EXCEPT ![o] = t]
    BY Zenon, <1>3 DEF DrainExit, ClearLive
  <2>4. ses[o].wake = d
    BY Zenon, <1>1, <1>3 DEF LaneInv, ChannelInv
  <2> HIDE DEF t
  <2>5. /\ ses' \in [Objects -> SessionRecord] /\ ses'[o] = t
        /\ \A x \in Objects : x # o => ses'[x] = ses[x]
    BY Zenon, <2>1, <2>2, <2>3 DEF LaneInv, TypeOK
  <2>6. /\ drn' \in [Drainers -> DrainerRecord] /\ drn'[d] = Idle
        /\ \A e \in Drainers : e # d => drn'[e] = drn[e]
    BY Zenon, <1>1, IdleType DEF LaneInv, TypeOK
  <2>7. TypeOK'
    BY Zenon, <1>1, <2>5, <2>6 DEF LaneInv, TypeOK
  <2>8. \A x \in Objects :
          /\ ses'[x].sub = ses[x].sub /\ ses'[x].wake = ses[x].wake
          /\ ses'[x].retired = ses[x].retired /\ ses'[x].epoch = ses[x].epoch
    BY Zenon, <2>2, <2>5
  <2>9. ObjectsInv'
    <3>1. \A x \in Objects : ses'[x].epoch = 0 => ses'[x] = NewSession(0)
      BY <2>1, <2>5, <2>8 DEF LaneInv, ObjectsInv
    <3>2. \A e \in Drainers :
            /\ drn'[e].pc # "idle" => drn'[e].obj \in Objects
            /\ drn'[e].obj \in Objects => ses'[drn'[e].obj].epoch > 0
      BY <2>6, <2>8, IdleType, SessionAssumption DEF LaneInv, ObjectsInv
    <3> QED BY SMTT(60), <1>1, <2>8, <3>1, <3>2 DEF LaneInv, ObjectsInv, TypeOK
  <2>10. /\ ~Serving(d)'
         /\ \A e \in Drainers : e # d => (Serving(e)' <=> Serving(e))
         /\ \A e \in Drainers : Serving(e)' => drn[e].obj \in Objects /\ (Displaced(e)' <=> Displaced(e))
    BY <2>6, <2>8, IdleType DEF LaneInv, ObjectsInv, Serving, Displaced
  <2>11. \A e \in Drainers : Serving(e)' /\ ~Displaced(e)' => drn[e].obj # o
    BY <2>4, <2>10 DEF LaneInv, ChannelInv
  <2>12. \A x \in Objects : ses[x].wake # Nil => ses[x].wake \in Drainers
    BY Zenon DEF LaneInv, TypeOK, SessionRecord
  <2>13. \A x \in Objects : x # o /\ HasReader(x) => ses[x].wake # d
    BY Zenon DEF LaneInv, ChannelInv
  <2>14. ChannelInv'
    <3>1. \A x \in Objects : x = o => ~HasReader(x)'
      BY Zenon, <2>4, <2>8, <2>10 DEF HasReader
    <3>2. \A x \in Objects : x # o => (HasReader(x)' <=> HasReader(x))
      BY Zenon, <2>8, <2>10, <2>12, <2>13 DEF HasReader
    <3>3. ASSUME NEW x \in Objects
          PROVE  /\ ses'[x].live <=> HasReader(x)'
                 /\ HasReader(x)' =>
                      drn'[ses'[x].wake].obj = x /\ drn'[ses'[x].wake].mine = ses'[x].sub
      <4>1. CASE x = o
        BY Zenon, <2>2, <2>5, <3>1, <4>1
      <4>2. CASE x # o
        <5>1. HasReader(x) => ses[x].wake \in Drainers /\ ses[x].wake # d
          BY Zenon, <2>12, <2>13, <4>2 DEF HasReader
        <5> QED BY <2>5, <2>6, <3>2, <4>2, <5>1 DEF LaneInv, ChannelInv
      <4> QED BY Zenon, <4>1, <4>2
    <3>4. ASSUME NEW e \in Drainers, Serving(e)'
          PROVE  /\ drn'[e].mine <= ses'[drn'[e].obj].sub
                 /\ Displaced(e)' => drn'[e].closed
                 /\ ~Displaced(e)' => ses'[drn'[e].obj].wake = e
      BY <2>6, <2>8, <2>10, <3>4 DEF LaneInv, ChannelInv
    <3> QED BY Zenon, <3>3, <3>4 DEF ChannelInv
  <2>15. LocalInv'
    <3>1. \A x \in Objects : SessionInv(ses'[x])
      BY Zenon, <2>1, <2>5 DEF LaneInv, LocalInv
    <3>2. \A e \in Drainers : Serving(e)' => DrainerInv(drn'[e])
      BY Zenon, <2>6, <2>10 DEF LaneInv, LocalInv
    <3>3. \A e \in Drainers : Current(e)' => CurrentInv(drn'[e], ses'[drn'[e].obj])
      BY Zenon, <2>5, <2>6, <2>10, <2>11 DEF LaneInv, LocalInv, Current
    <3> QED BY Zenon, <3>1, <3>2, <3>3 DEF LocalInv
  <2> QED BY Zenon, <2>7, <2>9, <2>14, <2>15 DEF LaneInv
<1> QED BY Zenon, <1>2, <1>3

(* serve's claim of the session preserves LaneInv.                            *)
LEMMA ServeBindInv == ASSUME LaneInv, NEW d \in Drainers, ServeBind(d) PROVE LaneInv'
<1>1. PICK o \in Objects : o = drn[d].obj
  BY Zenon DEF ServeBind, LaneInv, ObjectsInv
<1> DEFINE t == Claimed(ses[o], d)
           w == Subscribed(o, ses[o])
<1>2. /\ drn[d].pc = "resolved" /\ ~ses[o].retired /\ ses' = [ses EXCEPT ![o] = t]
      /\ drn' = [CloseWake(o) EXCEPT ![d] = w] /\ UNCHANGED <<bound, retiring, lastEpoch, snd>>
  BY Zenon, <1>1 DEF ServeBind, Refused
<1>3. TypeOK /\ SessionInv(ses[o]) /\ ses[o].epoch > 0 /\ ses[o] \in SessionRecord
  BY Zenon, <1>1 DEF LaneInv, LocalInv, ObjectsInv, SessionInv
<1>4. SessionInv(t) /\ w \in DrainerRecord /\ DrainerInv(w) /\ CurrentInv(w, t)
  BY Zenon, <1>2, <1>3, SubscribedInv
<1>5. /\ t \in SessionRecord /\ t.sub = ses[o].sub + 1 /\ t.wake = d /\ t.live
      /\ t.retired = ses[o].retired /\ t.epoch = ses[o].epoch
  <2>1. ses[o].sub + 1 \in Nat
    BY <1>3 DEF SessionRecord
  <2> QED BY Zenon, <1>3, <2>1 DEF Claimed, SessionRecord
<1>6. w.pc = "top" /\ w.obj = o /\ w.mine = ses[o].sub + 1
  BY Zenon DEF Subscribed, Idle
<1> HIDE DEF t, w
<1>7. /\ ses' \in [Objects -> SessionRecord] /\ ses'[o] = t
      /\ \A x \in Objects : x # o => ses'[x] = ses[x]
  BY Zenon, <1>2, <1>3, <1>5 DEF TypeOK
<1>8. /\ drn' \in [Drainers -> DrainerRecord] /\ drn'[d] = w
      /\ \A e \in Drainers : e # d =>
           drn'[e] = IF HasReader(o) /\ e = ses[o].wake THEN Closed(drn[e]) ELSE drn[e]
  BY Zenon, <1>2, <1>3, <1>4, CloseSpec
<1>9. \A e \in Drainers : e # d =>
         /\ drn'[e].pc = drn[e].pc /\ drn'[e].obj = drn[e].obj /\ drn'[e].mine = drn[e].mine
         /\ drn'[e].closed <=> drn[e].closed \/ (HasReader(o) /\ e = ses[o].wake)
  <2> TAKE e \in Drainers
  <2> HAVE e # d
  <2>1. drn[e] \in DrainerRecord /\ drn[e].closed \in BOOLEAN
    BY Zenon, <1>3 DEF TypeOK, DrainerRecord
  <2>2. CASE HasReader(o) /\ e = ses[o].wake
    <3>1. drn'[e] = Closed(drn[e])
      BY Zenon, <1>8, <2>2
    <3>2. /\ drn'[e].pc = drn[e].pc /\ drn'[e].obj = drn[e].obj /\ drn'[e].mine = drn[e].mine
          /\ drn'[e].closed
      BY <2>1, <3>1, WakeFields, ZenonT(40)
    <3> QED BY Zenon, <2>2, <3>2
  <2>3. CASE ~(HasReader(o) /\ e = ses[o].wake)
    <3>1. drn'[e] = drn[e]
      BY Zenon, <1>8, <2>3
    <3> QED BY Zenon, <2>3, <3>1
  <2> QED BY Zenon, <2>2, <2>3
<1>10. TypeOK'
  BY Zenon, <1>2, <1>3, <1>7, <1>8 DEF TypeOK
<1>11. \A x \in Objects :
         ses'[x].retired = ses[x].retired /\ ses'[x].epoch = ses[x].epoch
  BY Zenon, <1>5, <1>7
<1>12. ObjectsInv'
  <2>1. \A x \in Objects : ses'[x].epoch = 0 => ses'[x] = NewSession(0)
    BY <1>3, <1>7, <1>11 DEF LaneInv, ObjectsInv
  <2>2. \A e \in Drainers :
          /\ drn'[e].pc # "idle" => drn'[e].obj \in Objects
          /\ drn'[e].obj \in Objects => ses'[drn'[e].obj].epoch > 0
    BY SMTT(60), <1>3, <1>6, <1>8, <1>9, <1>11 DEF LaneInv, ObjectsInv
  <2> QED BY SMTT(60), <1>2, <1>3, <1>11, <2>1, <2>2 DEF LaneInv, ObjectsInv, TypeOK
<1>13. /\ ~Serving(d) /\ Serving(d)' /\ ~Displaced(d)'
       /\ \A e \in Drainers : e # d => (Serving(e)' <=> Serving(e))
       /\ \A e \in Drainers : e # d /\ Serving(e) =>
            /\ drn[e].obj \in Objects
            /\ drn[e].obj # o => (Displaced(e)' <=> Displaced(e))
  BY <1>2, <1>5, <1>6, <1>7, <1>8, <1>9, SMTT(60) DEF LaneInv, ObjectsInv, Serving, Displaced
<1>14. ASSUME NEW e \in Drainers, e # d, Serving(e), drn[e].obj = o
       PROVE  Displaced(e)' /\ drn'[e].closed /\ drn'[e].mine <= t.sub
  <2>1. drn[e].mine \in Nat /\ ses[o].sub \in Nat /\ drn[e].mine <= ses[o].sub
    BY Zenon, <1>3, <1>14 DEF LaneInv, ChannelInv, TypeOK, DrainerRecord, SessionRecord
  <2>2. Displaced(e)'
    BY <1>5, <1>7, <1>9, <1>14, <2>1 DEF Displaced
  <2>3. drn'[e].closed
    <3>1. CASE Displaced(e)
      BY Zenon, <1>9, <1>14, <3>1 DEF LaneInv, ChannelInv
    <3>2. CASE ~Displaced(e)
      <4>1. ses[o].wake = e
        BY Zenon, <1>14, <3>2 DEF LaneInv, ChannelInv
      <4> QED BY Zenon, <1>9, <1>14, <4>1, SessionAssumption DEF HasReader
    <3> QED BY Zenon, <3>1, <3>2
  <2> QED BY <1>5, <1>9, <1>14, <2>1, <2>2, <2>3, SMTT(60)
<1>15. \A x \in Objects : x # o => ses[x].wake = Nil
  <2> TAKE x \in Objects
  <2> HAVE x # o
  <2>1. o = bound \/ o = retiring
    BY Zenon, <1>2, <1>3 DEF LaneInv, ObjectsInv
  <2>2. x # bound /\ x # retiring
    BY Zenon, <2>1, SessionAssumption DEF LaneInv, ObjectsInv
  <2>3. ses[x].retired \/ ~(ses[x].epoch > 0)
    BY Zenon, <2>2 DEF LaneInv, ObjectsInv
  <2>4. CASE ses[x].retired
    BY Zenon, <2>4 DEF LaneInv, LocalInv, SessionInv
  <2>5. CASE ~(ses[x].epoch > 0)
    <3>1. ses[x].epoch = 0
      BY <1>3, <2>5, SessionAssumption DEF TypeOK, SessionRecord
    <3>2. ses[x] = NewSession(0)
      BY Zenon, <3>1 DEF LaneInv, ObjectsInv
    <3> QED BY <3>2 DEF NewSession
  <2> QED BY Zenon, <2>3, <2>4, <2>5
<1>16. ChannelInv'
  <2>1. ASSUME NEW x \in Objects
        PROVE  /\ ses'[x].live <=> HasReader(x)'
               /\ HasReader(x)' =>
                    drn'[ses'[x].wake].obj = x /\ drn'[ses'[x].wake].mine = ses'[x].sub
    <3>1. CASE x = o
      <4>1. HasReader(x)'
        BY Zenon, <1>5, <1>7, <1>13, <3>1, SessionAssumption DEF HasReader
      <4> QED BY Zenon, <1>5, <1>6, <1>7, <1>8, <3>1, <4>1
    <3>2. CASE x # o
      <4>1. ~HasReader(x) /\ ~HasReader(x)'
        BY Zenon, <1>7, <1>15, <3>2 DEF HasReader
      <4> QED BY Zenon, <1>7, <3>2, <4>1 DEF LaneInv, ChannelInv
    <3> QED BY Zenon, <3>1, <3>2
  <2>2. ASSUME NEW e \in Drainers, Serving(e)'
        PROVE  /\ drn'[e].mine <= ses'[drn'[e].obj].sub
               /\ Displaced(e)' => drn'[e].closed
               /\ ~Displaced(e)' => ses'[drn'[e].obj].wake = e
    <3>1. CASE e = d
      <4>1. ses[o].sub \in Nat
        BY Zenon, <1>3 DEF SessionRecord
      <4> QED BY <1>5, <1>6, <1>7, <1>8, <1>13, <3>1, <4>1, SMTT(60)
    <3>2. CASE e # d /\ drn[e].obj = o
      BY Zenon, <1>7, <1>9, <1>13, <1>14, <2>2, <3>2
    <3>3. CASE e # d /\ drn[e].obj # o
      <4>1. HasReader(o) => ses[o].wake # e
        BY Zenon, <3>3 DEF LaneInv, ChannelInv
      <4> QED BY <1>7, <1>9, <1>13, <2>2, <3>3, <4>1, SMTT(60) DEF LaneInv, ChannelInv
    <3> QED BY Zenon, <3>1, <3>2, <3>3
  <2> QED BY Zenon, <2>1, <2>2 DEF ChannelInv
<1>17. LocalInv'
  <2>1. \A x \in Objects : SessionInv(ses'[x])
    BY Zenon, <1>4, <1>7 DEF LaneInv, LocalInv
  <2>2. ASSUME NEW e \in Drainers, Serving(e)'
        PROVE  DrainerInv(drn'[e])
    <3>1. CASE e = d
      BY Zenon, <1>4, <1>8, <3>1
    <3>2. CASE e # d
      BY Zenon, <1>3, <1>8, <1>13, <2>2, <3>2, TokenInv DEF LaneInv, LocalInv, TypeOK
    <3> QED BY Zenon, <3>1, <3>2
  <2>3. ASSUME NEW e \in Drainers, Current(e)'
        PROVE  CurrentInv(drn'[e], ses'[drn'[e].obj])
    <3>1. CASE e = d
      BY Zenon, <1>4, <1>6, <1>7, <1>8, <3>1
    <3>2. CASE e # d
      <4>1. Serving(e) /\ ~Displaced(e)' /\ drn[e].obj \in Objects /\ drn[e].obj # o
        BY Zenon, <1>13, <1>14, <2>3, <3>2 DEF Current
      <4>2. Current(e) /\ drn'[e].obj = drn[e].obj /\ ses'[drn[e].obj] = ses[drn[e].obj]
        BY Zenon, <1>7, <1>9, <1>13, <3>2, <4>1 DEF Current
      <4>3. CurrentInv(drn[e], ses[drn[e].obj]) /\ drn[e] \in DrainerRecord
            /\ ses[drn[e].obj] \in SessionRecord
        BY Zenon, <1>3, <4>1, <4>2 DEF LaneInv, LocalInv, TypeOK
      <4> QED BY Zenon, <1>8, <3>2, <4>2, <4>3, TokenInv
    <3> QED BY Zenon, <3>1, <3>2
  <2> QED BY Zenon, <2>1, <2>2, <2>3 DEF LocalInv
<1> QED BY Zenon, <1>10, <1>12, <1>16, <1>17 DEF LaneInv

-----------------------------------------------------------------------------
(* The invariant, and what it says.                                            *)

(* A producer with no session satisfies LaneInv.                              *)
LEMMA LaneInit == Init => LaneInv
<1> SUFFICES ASSUME Init PROVE LaneInv
  OBVIOUS
<1>1. NewSession(0) \in SessionRecord /\ SessionInv(NewSession(0))
  BY Zenon, NewSessionInv
<1>2. \A o \in Objects : ses[o] = NewSession(0)
  BY Zenon DEF Init
<1>3. \A d \in Drainers : drn[d] = Idle /\ ~Serving(d) /\ drn[d].pc = "idle" /\ drn[d].obj = Nil
  BY Zenon, IdleType DEF Init, Serving
<1>4. TypeOK
  BY <1>1, IdleType, LaneAssumption, SessionAssumption DEF Init, TypeOK
<1>5. NewSession(0).epoch = 0 /\ ~NewSession(0).live /\ NewSession(0).wake = Nil
  BY Zenon DEF NewSession
<1>6. ObjectsInv
  BY <1>2, <1>3, <1>5, SessionAssumption DEF Init, ObjectsInv
<1>7. ChannelInv
  BY Zenon, <1>2, <1>3, <1>5 DEF ChannelInv, HasReader
<1>8. LocalInv
  BY Zenon, <1>1, <1>2, <1>3 DEF LocalInv, Current
<1> QED BY Zenon, <1>4, <1>6, <1>7, <1>8 DEF LaneInv

(* Every step of the producer, and every stuttering step, preserves LaneInv.  *)
LEMMA LaneStep == LaneInv /\ [Next]_vars => LaneInv'
<1> SUFFICES ASSUME LaneInv, [Next]_vars PROVE LaneInv'
  OBVIOUS
<1>1. CASE UNCHANGED vars
  BY Zenon, <1>1 DEF vars, LaneInv, TypeOK, ObjectsInv, ChannelInv, LocalInv, HasReader, Serving,
              Displaced, Current
<1>2. CASE Bind \/ RetireUnmap \/ RetireTombstone \/ Restart \/ HoldForReplay
  BY Zenon, <1>2, BindInv, RetireUnmapInv, RetireTombstoneInv, RestartInv, HoldForReplayInv
<1>3. CASE \E c \in Callers : SendResolve(c)
  BY Zenon, <1>3, SendRefuseInv
<1>4. CASE \E c \in Callers, op \in Ops, ifLive \in BOOLEAN :
             SendRefuse(c, op, ifLive) \/ SendAppend(c, op, ifLive)
  BY Zenon, <1>4, SendRefuseInv, SendAppendInv
<1>5. CASE \E o \in Objects, epoch \in 0..lastEpoch : \E acked \in 0..(ses[o].nextSeq + 1),
               named \in SUBSET Seqs(ses[o].ops) : AckControl(o, epoch, acked, named)
  <2>1. \A o \in Objects : \A acked \in 0..(ses[o].nextSeq + 1) : acked \in Nat
    BY SessionAssumption DEF LaneInv, TypeOK, SessionRecord
  <2> QED BY Zenon, <1>5, <2>1, AckControlInv
<1>6. CASE \E o \in Objects, epoch \in 0..lastEpoch : ReleaseReplayBarrier(o, epoch)
  BY Zenon, <1>6, ReleaseReplayBarrierInv
<1>7. CASE \E d \in Drainers :
             Serve(d) \/ ServeRefuse(d) \/ ServeBind(d) \/ Drain(d) \/ DrainDrop(d)
  BY Zenon, <1>7, ServeInv, ServeBindInv, DrainInv, DrainExitInv DEF Drain
<1> QED BY Zenon, <1>1, <1>2, <1>3, <1>4, <1>5, <1>6, <1>7 DEF Next

(* The inductive invariant holds throughout: every object's retained ops stay  *)
(* above its cursor, and every current subscription covers only what it wrote  *)
(* or the agent acked.                                                         *)
THEOREM LaneInvariance == Spec => []LaneInv
BY LaneInit, LaneStep, PTL DEF Spec

(* The state stays well typed.                                                 *)
THEOREM LaneTyped == Spec => []TypeOK
<1>1. LaneInv => TypeOK
  BY Zenon DEF LaneInv
<1> QED BY <1>1, LaneInvariance, PTL

(* The edge-triggered wake channel loses no wakeup: whatever sends, acks and   *)
(* barrier releases race a drainer that is about to park, a parked current     *)
(* subscription with no token pending owes nothing.                            *)
THEOREM LaneNoLostWake == Spec => []NoLostWake
<1>1. LaneInv => NoLostWake
  <2> SUFFICES ASSUME LaneInv, NEW d \in Drainers,
                      Current(d), drn[d].pc = "park", ~drn[d].token
               PROVE  OwedTo(d) = {}
    BY Zenon DEF NoLostWake
  <2>1. DrainerInv(drn[d]) /\ CurrentInv(drn[d], ses[drn[d].obj])
    BY Zenon DEF LaneInv, LocalInv, Current
  <2>2. drn[d].batch = {} /\ Owed(drn[d], ses[drn[d].obj]) \subseteq drn[d].batch
    BY Zenon, <2>1 DEF DrainerInv, CurrentInv
  <2> QED BY Zenon, <2>2 DEF OwedTo, Owed
<1> QED BY <1>1, LaneInvariance, PTL

(* serve's watermark never passes over a retained op it did not write.         *)
THEOREM LaneNothingSkipped == Spec => []NothingSkipped
<1>1. LaneInv => NothingSkipped
  BY Zenon DEF LaneInv, LocalInv, CurrentInv, Covers, NothingSkipped
<1> QED BY <1>1, LaneInvariance, PTL

(* One subscription writes an op at most once.                                 *)
THEOREM LaneOncePerSubscription == Spec => []OncePerSubscription
<1>1. LaneInv => OncePerSubscription
  <2> SUFFICES ASSUME LaneInv, NEW d \in Drainers, drn[d].pc \in {"check", "write"}
               PROVE  Seqs(drn[d].batch) \intersect Seqs(drn[d].wrote) = {}
    BY Zenon DEF OncePerSubscription
  <2>1. DrainerInv(drn[d])
    BY Zenon DEF LaneInv, LocalInv, Serving
  <2> QED BY Zenon, <2>1 DEF DrainerInv, Seqs
<1> QED BY <1>1, LaneInvariance, PTL

(* The barrier lets replay ops overtake, but no live op is written after a     *)
(* live op with a higher number.                                               *)
THEOREM LaneLiveOrder == Spec => []LiveOrder
<1>1. LaneInv => LiveOrder
  BY Zenon DEF LaneInv, LocalInv, DrainerInv, Serving, LiveOrder
<1> QED BY <1>1, LaneInvariance, PTL

(* live is true exactly while the object has an undisplaced subscription, and  *)
(* it never has two.                                                           *)
THEOREM LaneLiveIsAccurate == Spec => []LiveIsAccurate
<1>1. LaneInv => LiveIsAccurate
  <2> SUFFICES ASSUME LaneInv, NEW o \in Objects
               PROVE  /\ ses[o].live <=> \E d \in Drainers : drn[d].obj = o /\ Current(d)
                      /\ \A d, e \in Drainers :
                           drn[d].obj = o /\ drn[e].obj = o /\ Current(d) /\ Current(e) => d = e
    BY Zenon DEF LiveIsAccurate
  <2>1. \A d \in Drainers : drn[d].obj = o /\ Current(d) => ses[o].wake = d /\ HasReader(o)
    BY SessionAssumption DEF LaneInv, ChannelInv, Current, HasReader
  <2>2. HasReader(o) =>
          ses[o].wake \in Drainers /\ drn[ses[o].wake].obj = o /\ Current(ses[o].wake)
    BY Zenon DEF LaneInv, TypeOK, SessionRecord, ChannelInv, Current, HasReader, Displaced
  <2>3. ses[o].live <=> HasReader(o)
    BY Zenon DEF LaneInv, ChannelInv
  <2> QED BY Zenon, <2>1, <2>2, <2>3
<1> QED BY <1>1, LaneInvariance, PTL

(* A retired object is never served again, and no drainer stays parked on it.  *)
THEOREM LaneRetiredIsDead == Spec => []RetiredIsDead
<1>1. LaneInv => RetiredIsDead
  <2> SUFFICES ASSUME LaneInv, NEW o \in Objects, ses[o].retired
               PROVE  /\ bound # o /\ ~ses[o].live /\ ses[o].wake = Nil
                      /\ \A d \in Drainers : drn[d].obj = o /\ drn[d].pc = "park" => drn[d].closed
    BY Zenon DEF RetiredIsDead
  <2>1. bound # o /\ ~ses[o].live /\ ses[o].wake = Nil
    BY Zenon DEF LaneInv, ObjectsInv, LocalInv, SessionInv
  <2>2. \A d \in Drainers : drn[d].obj = o /\ Serving(d) => drn[d].closed
    BY <2>1, SessionAssumption DEF LaneInv, ChannelInv
  <2> QED BY Zenon, <2>1, <2>2 DEF Serving
<1> QED BY <1>1, LaneInvariance, PTL

(* Whatever the agent acks, the cursor stays below every retained op and never *)
(* passes the last number issued.                                              *)
THEOREM LaneCursorBelowRetained == Spec => []CursorBelowRetained
<1>1. LaneInv => CursorBelowRetained
  BY Zenon DEF LaneInv, LocalInv, SessionInv, CursorBelowRetained
<1> QED BY <1>1, LaneInvariance, PTL

(* The out-of-order set only holds numbers strictly past a gap.                *)
THEOREM LaneAbovePastGap == Spec => []AbovePastGap
<1>1. LaneInv => AbovePastGap
  BY Zenon DEF LaneInv, LocalInv, DrainerInv, AbovePastGap
<1> QED BY <1>1, LaneInvariance, PTL

-----------------------------------------------------------------------------
(* Every step keeps retention within the cap, given LaneInv.                  *)
LEMMA RetentionStep == LaneInv /\ RetentionBounded /\ [Next]_vars => RetentionBounded'
<1> SUFFICES ASSUME LaneInv, RetentionBounded, [Next]_vars PROVE RetentionBounded'
  OBVIOUS
<1>1. \A o \in Objects : Capped(ses[o]) /\ SessionInv(ses[o]) /\ ses[o] \in SessionRecord
  BY Zenon DEF RetentionBounded, Capped, LiveOf, LaneInv, LocalInv, SessionInv
<1>2. ASSUME NEW o \in Objects, NEW t, ses' = [ses EXCEPT ![o] = t], Capped(t)
      PROVE  RetentionBounded'
  <2>1. \A x \in Objects : Capped(ses'[x])
    BY Zenon, <1>1, <1>2 DEF LaneInv, TypeOK
  <2> QED BY Zenon, <2>1 DEF RetentionBounded, Capped, LiveOf
<1>3. CASE ses' = ses
  BY Zenon, <1>3 DEF RetentionBounded
<1>4. Cardinality({}) = 0
  BY Zenon, FS_EmptySet
<1>5. CASE Bind
  <2>1. \A e : LiveOf(NewSession(e)) = {}
    BY Zenon DEF LiveOf, NewSession
  <2>2. \A e : Capped(NewSession(e))
    BY <1>4, <2>1, SessionAssumption DEF Capped
  <2> QED BY Zenon, <1>2, <1>5, <2>2 DEF Bind
<1>6. CASE RetireTombstone
  <2>1. retiring \in Objects /\ ses' = [ses EXCEPT ![retiring] = Tombstoned(ses[retiring])]
    BY Zenon, <1>6 DEF RetireTombstone, LaneInv, TypeOK
  <2>2. Tombstoned(ses[retiring]).ops \subseteq ses[retiring].ops
    BY Zenon, <1>1, <2>1 DEF Tombstoned, SessionRecord
  <2> QED BY Zenon, <1>1, <1>2, <2>1, <2>2, CappedSubset
<1>7. CASE Restart
  <2>1. bound \in Objects /\ \E first \in ReplayOps :
          ses' = [ses EXCEPT ![bound] = Restarted(ses[bound], first, lastEpoch + 1)]
    BY Zenon, <1>7 DEF Restart, LaneInv, TypeOK
  <2> QED BY Zenon, <1>1, <1>2, <2>1, CappedRestart
<1>8. CASE HoldForReplay \/ \E o \in Objects, epoch \in 0..lastEpoch : ReleaseReplayBarrier(o, epoch)
  <2>1. \E o \in Objects, h \in BOOLEAN : ses' = [ses EXCEPT ![o] = [ses[o] EXCEPT !.held = h]]
    BY Zenon, <1>8 DEF HoldForReplay, ReleaseReplayBarrier, LaneInv, TypeOK
  <2>2. \A o \in Objects, h \in BOOLEAN : [ses[o] EXCEPT !.held = h].ops \subseteq ses[o].ops
    BY Zenon, <1>1 DEF SessionRecord
  <2> QED BY Zenon, <1>1, <1>2, <2>1, <2>2, CappedSubset
<1>9. CASE \E c \in Callers, op \in Ops, ifLive \in BOOLEAN : SendAppend(c, op, ifLive)
  <2>1. PICK c \in Callers, op \in Ops, ifLive \in BOOLEAN : SendAppend(c, op, ifLive)
    BY Zenon, <1>9
  <2>2. /\ snd[c] \in Objects /\ ~RetentionFull(ses[snd[c]], op)
        /\ ses' = [ses EXCEPT ![snd[c]] = Appended(ses[snd[c]], op)]
    BY Zenon, <2>1 DEF SendAppend, LaneInv, TypeOK
  <2> QED BY Zenon, <1>1, <1>2, <2>2, CappedAppend
<1>10. CASE \E o \in Objects, epoch \in 0..lastEpoch : \E acked \in 0..(ses[o].nextSeq + 1),
                named \in SUBSET Seqs(ses[o].ops) : AckControl(o, epoch, acked, named)
  <2>1. \E o \in Objects : \E cursor, named : ses' = [ses EXCEPT ![o] = Acked(ses[o], cursor, named)]
    BY Zenon, <1>10 DEF AckControl
  <2>2. \A o \in Objects : \A cursor, named : Acked(ses[o], cursor, named).ops \subseteq ses[o].ops
    BY Zenon, <1>1 DEF Acked, SessionRecord
  <2> QED BY Zenon, <1>1, <1>2, <2>1, <2>2, CappedSubset
<1>11. CASE \E d \in Drainers : ServeBind(d) \/ DrainExit(d)
  <2>1. PICK d \in Drainers : ServeBind(d) \/ DrainExit(d)
    BY Zenon, <1>11
  <2> DEFINE s == ses[drn[d].obj]
  <2>2. drn[d].obj \in Objects
    BY Zenon, <2>1 DEF ServeBind, DrainExit, LaneInv, ObjectsInv
  <2>3. Claimed(s, d).ops \subseteq s.ops /\ [s EXCEPT !.live = FALSE].ops \subseteq s.ops
    BY Zenon, <1>1, <2>2 DEF Claimed, SessionRecord
  <2>4. Capped(Claimed(s, d)) /\ Capped([s EXCEPT !.live = FALSE])
    BY Zenon, <1>1, <2>2, <2>3, CappedSubset
  <2>5. \/ ses' = ses
        \/ \E t \in {Claimed(s, d), [s EXCEPT !.live = FALSE]} :
             ses' = [ses EXCEPT ![drn[d].obj] = t]
    BY Zenon, <2>1 DEF ServeBind, DrainExit, ClearLive
  <2> QED BY Zenon, <1>2, <1>3, <2>2, <2>4, <2>5
<1> QED BY Zenon, <1>3, <1>5, <1>6, <1>7, <1>8, <1>9, <1>10, <1>11
        DEF Next, Drain, vars, RetireUnmap, SendResolve, SendRefuse, Serve, ServeRefuse,
            DrainTop, DrainCheck, DrainWrite, DrainWake, DrainDrop

(* However sends race each other, acks and restarts, an object retains at most *)
(* MaxRetained live ops.                                                       *)
THEOREM LaneRetentionBounded == Spec => []RetentionBounded
<1>1. Init => RetentionBounded
  <2>1. Cardinality({}) = 0 /\ \A e : {r \in NewSession(e).ops : r.op \in LiveOps} = {}
    BY Zenon, FS_EmptySet DEF NewSession
  <2> QED BY <2>1, SessionAssumption DEF Init, RetentionBounded
<1> QED BY <1>1, LaneInvariance, RetentionStep, PTL DEF Spec

(* Whatever the agent acks and however sends race, a session's cursor, its     *)
(* retention and each subscription's out-of-order set stay exact.              *)
THEOREM LaneWatermarkExact == Spec => []WatermarkExact
BY LaneCursorBelowRetained, LaneAbovePastGap, LaneRetentionBounded, PTL DEF WatermarkExact

(* A subscription passes over nothing, writes nothing twice and keeps live ops *)
(* in order.                                                                   *)
THEOREM LaneInOrderOnce == Spec => []InOrderOnce
BY LaneNothingSkipped, LaneOncePerSubscription, LaneLiveOrder, PTL DEF InOrderOnce

(* live names an undisplaced subscription, of which there is at most one, and  *)
(* a retired object is never served again.                                     *)
THEOREM LaneSessionsAccurate == Spec => []SessionsAccurate
BY LaneLiveIsAccurate, LaneRetiredIsDead, PTL DEF SessionsAccurate
=============================================================================
