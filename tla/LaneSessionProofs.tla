-------------------------- MODULE LaneSessionProofs --------------------------
(* What the operators of LaneSession preserve and yield: the lemmas on one     *)
(* session record that the proofs of ControlLane and ControlProtocol both cite.*)
EXTENDS LaneSession, FiniteSetTheorems, WellFoundedInduction, TLAPS

(* absorbContiguous stops at the first number that was not written, and every  *)
(* number it passed was.                                                       *)
LEMMA AbsorbContiguousSpec ==
    ASSUME NEW from \in 0..MaxSeq, NEW above \in SUBSET (1..MaxSeq)
    PROVE  LET n == AbsorbContiguous(from, above) IN
           /\ n \in {from} \union above /\ n \in 0..MaxSeq
           /\ n >= from /\ n + 1 \notin above
           /\ \A i \in (from + 1)..n : i \in above
<1> DEFINE T == {n \in Nat : n >= from /\ n + 1 \notin above}
<1>1. T \subseteq Nat /\ MaxSeq \in T
  BY SessionAssumption, SMT
<1>2. PICK n \in T : \A m \in T : ~(<<m, n>> \in OpToRel(<, Nat))
  <2> HIDE DEF T
  <2> QED BY Zenon, <1>1, WFMin, NatLessThanWellFounded
<1>3. \A m \in T : ~(m < n)
  BY Zenon, <1>1, <1>2 DEF OpToRel
<1>4. n \in Nat /\ n >= from /\ n + 1 \notin above
  BY Zenon, <1>2
<1>5. \A i \in (from + 1)..n : i \in above
  <2> SUFFICES ASSUME NEW i \in (from + 1)..n PROVE i \in above
    OBVIOUS
  <2>1. i - 1 \in Nat /\ i - 1 >= from /\ i - 1 < n /\ (i - 1) + 1 = i
    BY <1>4, SessionAssumption, SMT
  <2>2. i - 1 \notin T
    BY <1>3, <2>1
  <2> QED BY <2>1, <2>2
<1>6. n \in {from} \union above
  <2>1. CASE n = from
    BY <2>1
  <2>2. CASE n # from
    <3>1. n \in (from + 1)..n
      BY <1>4, <2>2, SessionAssumption, SMT
    <3> QED BY <1>5, <3>1
  <2> QED BY <2>1, <2>2
<1>7. AbsorbContiguous(from, above) \in {from} \union above
      /\ AbsorbContiguous(from, above) >= from
      /\ AbsorbContiguous(from, above) + 1 \notin above
      /\ \A i \in (from + 1)..AbsorbContiguous(from, above) : i \in above
  <2> HIDE DEF T
  <2> QED BY <1>4, <1>5, <1>6, Zenon DEF AbsorbContiguous
<1>8. {from} \union above \subseteq 0..MaxSeq
  BY SessionAssumption
<1> QED BY Zenon, <1>7, <1>8

(* The oldest op of a batch, which a drain cycle writes next, exists.          *)
LEMMA NextOfSpec ==
    ASSUME NEW batch \in SUBSET Retained, batch # {}
    PROVE  NextOf(batch) \in batch /\ \A q \in batch : NextOf(batch).seq <= q.seq
<1>1. Seqs(batch) \subseteq Nat /\ Seqs(batch) # {}
  BY SessionAssumption DEF Seqs, Retained
<1>2. PICK n \in Seqs(batch) : \A m \in Seqs(batch) : ~(<<m, n>> \in OpToRel(<, Nat))
  BY Zenon, <1>1, WFMin, NatLessThanWellFounded
<1>3. \A m \in Seqs(batch) : n <= m
  <2>1. \A m \in Seqs(batch) : ~(m < n)
    BY Zenon, <1>1, <1>2 DEF OpToRel
  <2> QED BY <1>1, <2>1
<1>4. PICK r \in batch : r.seq = n
  BY Zenon, <1>2 DEF Seqs
<1>5. \A q \in batch : r.seq <= q.seq
  BY <1>3, <1>4 DEF Seqs
<1> QED BY <1>5 DEF NextOf

-----------------------------------------------------------------------------
(* How each update of one object preserves its own invariant.                  *)

(* The idle drainer is well typed.                                            *)
LEMMA IdleType ==
    /\ Idle \in DrainerRecord /\ Idle.pc = "idle" /\ Idle.obj = Nil
<1>1. 0 \in 0..MaxSeq /\ 0 \in Nat
  BY SessionAssumption
<1>2. Idle \in DrainerRecord
  BY Zenon, <1>1 DEF Idle, DrainerRecord
<1> QED BY <1>2 DEF Idle

(* A session just bound retains nothing and serves nobody.                    *)
LEMMA NewSessionInv ==
    ASSUME NEW e \in Nat
    PROVE  LET s == NewSession(e) IN
           /\ s \in SessionRecord /\ SessionInv(s) /\ s.epoch = e /\ s.ops = {}
           /\ ~s.retired /\ s.sub = 0 /\ ~s.live /\ s.wake = Nil /\ s.nextSeq = 0 /\ s.cursor = 0
<1>1. 0 \in 0..MaxSeq /\ 0 \in Nat
  BY SessionAssumption
<1>2. NewSession(e) \in SessionRecord
  BY Zenon, <1>1 DEF NewSession, SessionRecord
<1>3. LET s == NewSession(e) IN
      /\ s.epoch = e /\ s.ops = {} /\ ~s.retired /\ s.sub = 0 /\ ~s.live /\ s.wake = Nil
      /\ s.nextSeq = 0 /\ s.cursor = 0
  BY DEF NewSession
<1>4. SessionInv(NewSession(e))
  BY <1>2, <1>3, FS_EmptySet DEF SessionInv
<1> QED BY Zenon, <1>2, <1>3, <1>4

(* A new subscription covers what was acked and has written nothing.           *)
LEMMA SubscribedInv ==
    ASSUME NEW s, SessionInv(s), NEW o \in Objects, NEW d \in Drainers
    PROVE  /\ SessionInv(Claimed(s, d)) \/ s.retired
           /\ Subscribed(o, s) \in DrainerRecord
           /\ DrainerInv(Subscribed(o, s)) /\ CurrentInv(Subscribed(o, s), Claimed(s, d))
<1> DEFINE q == Subscribed(o, s)
           t == Claimed(s, d)
<1>0. s \in SessionRecord /\ s.sub + 1 \in Nat /\ s.cursor \in 0..MaxSeq
  BY DEF SessionInv, SessionRecord
<1>1. /\ q \in DrainerRecord /\ q.pc = "top" /\ q.sent = s.cursor /\ q.above = {} /\ q.batch = {}
      /\ q.wrote = {}
  BY Zenon, <1>0, SessionAssumption DEF Subscribed, Idle, DrainerRecord
<1>2. /\ t \in SessionRecord /\ t.ops = s.ops /\ t.nextSeq = s.nextSeq /\ t.cursor = s.cursor
      /\ t.retired = s.retired
  BY Zenon, <1>0 DEF Claimed, SessionRecord
<1>3. SessionInv(t) \/ s.retired
  BY <1>2 DEF SessionInv
<1>4. DrainerInv(q)
  BY <1>1 DEF DrainerInv
<1>5. CurrentInv(q, t)
  <2> HIDE DEF q, t
  <2> QED BY <1>1, <1>2 DEF CurrentInv, Covers, SessionInv, SessionRecord, Retained
<1> QED BY <1>1, <1>3, <1>4, <1>5

(* An accepted op gets a number above everything issued, covered or collected; *)
(* only a live op under the barrier may stay without a signal, and it is not   *)
(* owed.                                                                       *)
LEMMA AppendedInv ==
    ASSUME NEW s, SessionInv(s), NEW op \in Ops, s.nextSeq < MaxSeq
    PROVE  /\ SessionInv(Appended(s, op))
           /\ \A q \in DrainerRecord :
                DrainerInv(q) /\ CurrentInv(q, s) /\ (q.token \/ ~Wakes(s, op))
                  => CurrentInv(q, Appended(s, op))
<1> DEFINE t == Appended(s, op)
           new == [seq |-> s.nextSeq + 1, op |-> op]
<1>1. s \in SessionRecord /\ s.nextSeq + 1 \in 1..MaxSeq /\ s.nextSeq + 1 \in 0..MaxSeq
  BY SessionAssumption DEF SessionInv, SessionRecord
<1>2. new \in Retained /\ new.seq = s.nextSeq + 1 /\ new.op = op
  BY <1>1 DEF Retained
<1>3. s.ops \union {new} \in SUBSET Retained
  BY <1>1, <1>2 DEF SessionRecord
<1>4. /\ t \in SessionRecord /\ t.held = s.held /\ t.ops = s.ops \union {new}
      /\ t.nextSeq = s.nextSeq + 1
      /\ t.cursor = s.cursor /\ t.retired = s.retired /\ t.live = s.live /\ t.wake = s.wake
  BY Zenon, <1>1, <1>3 DEF SessionRecord, Appended
<1>5. \A r \in s.ops : r.seq \in 1..MaxSeq
  BY <1>1 DEF SessionRecord, Retained
<1> HIDE DEF t, new
<1>6. SessionInv(t)
  <2>1. IsFiniteSet(t.ops)
    BY <1>4, FS_AddElement DEF SessionInv
  <2>2. \A r \in s.ops : r.seq < new.seq
    BY <1>1, <1>2, <1>5 DEF SessionInv, SessionRecord
  <2>3. t.cursor <= t.nextSeq
    BY <1>1, <1>4 DEF SessionInv, SessionRecord
  <2>4. \A r \in t.ops : t.cursor < r.seq /\ r.seq <= t.nextSeq
    BY <1>1, <1>2, <1>4, <1>5 DEF SessionInv, SessionRecord
  <2>5. \A r, q \in t.ops : r.seq = q.seq => r = q
    BY <1>1, <1>2, <1>4, <1>5, <2>2 DEF SessionInv
  <2> QED BY <1>4, <2>1, <2>3, <2>4, <2>5 DEF SessionInv
<1>7. ASSUME NEW q \in DrainerRecord, DrainerInv(q), CurrentInv(q, s), q.token \/ ~Wakes(s, op)
      PROVE  CurrentInv(q, t)
  <2>1. /\ q.sent \in 0..MaxSeq /\ q.above \subseteq 1..MaxSeq
        /\ q.batch \subseteq Retained /\ q.wrote \subseteq Retained
    BY DEF DrainerRecord
  <2>2. s.nextSeq \in Nat
    BY <1>1, SessionAssumption DEF SessionRecord
  <2>3. ~Covers(q, new.seq)
    BY <1>2, <1>7, <2>1, <2>2 DEF CurrentInv, Covers
  <2>4. \A b \in q.batch : b.seq < new.seq
    BY <1>2, <1>7, <2>1, <2>2 DEF CurrentInv, Retained
  <2>5. \A w \in q.wrote : w.seq < new.seq
    BY <1>2, <1>7, <2>1, <2>2 DEF CurrentInv, DrainerInv, Covers, Retained
  <2>6. ~q.token => Owed(q, t) = Owed(q, s)
    BY <1>2, <1>4, <1>7 DEF Owed, CollectBatch, Wakes
  <2>7. /\ q.sent <= t.nextSeq /\ \A n \in q.above : n <= t.nextSeq
        /\ \A b \in q.batch : b.seq <= t.nextSeq
    BY <1>4, <1>7, <2>1, <2>2 DEF CurrentInv, Retained
  <2>8. /\ \A b \in q.batch, r \in t.ops : b.seq = r.seq => b = r
        /\ \A r \in t.ops : Covers(q, r.seq) => r \in q.wrote
    BY <1>4, <1>7, <2>1, <2>3, <2>4 DEF CurrentInv, Retained
  <2>9. /\ \A y \in q.wrote, r \in t.ops :
             y.op \in LiveOps /\ r.op \in LiveOps /\ r.seq < y.seq => Covers(q, r.seq)
        /\ \A x \in q.batch, r \in t.ops :
             x.op \in LiveOps /\ r.op \in LiveOps /\ r.seq < x.seq /\ ~Covers(q, r.seq)
               => r \in q.batch
    BY <1>2, <1>4, <1>7, <2>1, <2>4, <2>5 DEF CurrentInv, Retained
  <2> QED BY <1>7, <2>6, <2>7, <2>8, <2>9 DEF CurrentInv
<1> QED BY <1>6, <1>7 DEF t

(* An ack only removes ops and moves the cursor, which stays below every op    *)
(* left and at most at the last number issued.                                 *)
LEMMA AckedInv ==
    ASSUME NEW s, SessionInv(s), NEW acked \in Nat, NEW named
    PROVE  LET t == Acked(s, AdvancedCursor(s, acked), named) IN
           /\ SessionInv(t)
           /\ \A q \in DrainerRecord : CurrentInv(q, s) => CurrentInv(q, t)
<1> DEFINE cursor == AdvancedCursor(s, acked)
           t == Acked(s, cursor, named)
           left == {r \in s.ops : r.seq > cursor /\ r.seq \notin named}
<1>1. s \in SessionRecord /\ s.nextSeq \in 0..MaxSeq /\ s.cursor \in 0..MaxSeq
  BY DEF SessionInv, SessionRecord
<1>2. cursor \in 0..MaxSeq /\ cursor <= s.nextSeq
  BY <1>1, SessionAssumption DEF AdvancedCursor, Clamp, SessionInv
<1> HIDE DEF cursor
<1>3. left \subseteq s.ops /\ left \subseteq Retained
  BY SMTT(60), <1>1 DEF SessionRecord
<1>4. /\ t \in SessionRecord /\ t.held = s.held /\ t.ops = left /\ t.nextSeq = s.nextSeq
      /\ t.cursor = cursor /\ t.retired = s.retired /\ t.live = s.live /\ t.wake = s.wake
  BY Zenon, <1>1, <1>2, <1>3 DEF SessionRecord, Acked
<1> HIDE DEF t
<1>5. SessionInv(t)
  <2>1. IsFiniteSet(t.ops)
    BY <1>3, <1>4, FS_Subset DEF SessionInv
  <2>2. \A r \in t.ops : t.cursor < r.seq /\ r.seq <= t.nextSeq
    BY <1>2, <1>3, <1>4 DEF SessionInv, Retained
  <2> QED BY <1>2, <1>3, <1>4, <2>1, <2>2 DEF SessionInv
<1>6. ASSUME NEW q \in DrainerRecord, CurrentInv(q, s)
      PROVE  CurrentInv(q, t)
  <2>1. Owed(q, t) \subseteq Owed(q, s)
    BY <1>3, <1>4 DEF Owed, CollectBatch
  <2> QED BY <1>3, <1>4, <1>6, <2>1 DEF CurrentInv
<1> QED BY <1>5, <1>6 DEF t, cursor

(* Clearing live, and the tombstone.                                           *)
LEMMA TombstonedInv ==
    ASSUME NEW s, SessionInv(s)
    PROVE  /\ SessionInv(Tombstoned(s))
           /\ SessionInv([s EXCEPT !.live = FALSE])
<1>1. s \in SessionRecord /\ s.sub + 1 \in Nat
  BY DEF SessionInv, SessionRecord
<1>2. LET t == Tombstoned(s) IN
      /\ t \in SessionRecord /\ t.ops = {} /\ t.nextSeq = s.nextSeq
      /\ t.cursor = s.cursor /\ t.live = FALSE /\ t.wake = Nil
  BY Zenon, <1>1 DEF SessionRecord, Tombstoned
<1>3. SessionInv(Tombstoned(s))
  BY <1>2, FS_EmptySet DEF SessionInv
<1>4. LET t == [s EXCEPT !.live = FALSE] IN
      /\ t \in SessionRecord /\ t.ops = s.ops /\ t.nextSeq = s.nextSeq /\ t.retired = s.retired
      /\ t.cursor = s.cursor /\ t.live = FALSE /\ t.wake = s.wake
  BY Zenon, <1>1 DEF SessionRecord
<1>5. SessionInv([s EXCEPT !.live = FALSE])
  BY <1>4 DEF SessionInv
<1> QED BY <1>3, <1>5

(* Ranks number the kept ops 1..n without a tie.                               *)
LEMMA RankSpec ==
    ASSUME NEW R \in SUBSET Retained, IsFiniteSet(R), \A r, q \in R : r.seq = q.seq => r = q
    PROVE  /\ \A r \in R : Rank(r, R) \in 1..Cardinality(R)
           /\ \A r, q \in R : Rank(r, R) = Rank(q, R) => r = q
<1> DEFINE Below(r) == {p \in R : p.seq <= r.seq}
<1>1. \A r \in R : r.seq \in Nat
  BY SessionAssumption DEF Retained
<1>2. ASSUME NEW r \in R
      PROVE  /\ IsFiniteSet(Below(r)) /\ Cardinality(Below(r)) \in 1..Cardinality(R)
             /\ Cardinality(Below(r)) \in Nat
  <2>1. Below(r) \subseteq R /\ r \in Below(r)
    BY <1>1
  <2> HIDE DEF Below
  <2>2. IsFiniteSet(Below(r)) /\ Cardinality(Below(r)) <= Cardinality(R)
    BY <2>1, FS_Subset
  <2>3. Cardinality(Below(r)) \in Nat /\ Cardinality(R) \in Nat
    BY <2>2, FS_CardinalityType
  <2>4. Cardinality(Below(r)) # 0
    BY <2>1, <2>2, FS_EmptySet
  <2> QED BY <2>2, <2>3, <2>4
<1>3. ASSUME NEW r \in R, NEW q \in R, r.seq < q.seq
      PROVE  Cardinality(Below(r)) < Cardinality(Below(q))
  <2>1. Below(r) \subseteq Below(q)
    BY <1>1, <1>3
  <2>2. q \in Below(q) /\ q \notin Below(r)
    BY <1>1, <1>3
  <2> HIDE DEF Below
  <2>3. Below(r) # Below(q)
    BY <2>2
  <2> QED BY <1>2, <2>1, <2>3, FS_Subset
<1>4. \A r, q \in R : r # q => r.seq < q.seq \/ q.seq < r.seq
  BY <1>1
<1>5. \A r \in R : Rank(r, R) = Cardinality(Below(r))
  BY DEF Rank
<1> HIDE DEF Below
<1>6. \A r, q \in R : Rank(r, R) = Rank(q, R) => r = q
  BY <1>2, <1>3, <1>4, <1>5
<1> QED BY <1>2, <1>5, <1>6

(* Restart numbers its own op 1 and the kept ops from 2.                       *)
LEMMA RestartedInv ==
    ASSUME NEW s, SessionInv(s), NEW first \in ReplayOps, NEW epoch \in Nat,
           Cardinality(Kept(s)) < MaxSeq
    PROVE  SessionInv(Restarted(s, first, epoch))
<1> DEFINE K == Kept(s)
           n == Cardinality(K)
           f == [r \in K |-> [seq |-> 1 + Rank(r, K), op |-> r.op]]
           F == {[seq |-> 1 + Rank(r, K), op |-> r.op] : r \in K}
           head == [seq |-> 1, op |-> first]
           t == Restarted(s, first, epoch)
<1>1. s \in SessionRecord /\ s.sub + 1 \in Nat /\ s.ops \subseteq Retained
  BY DEF SessionInv, SessionRecord
<1>2. K \in SUBSET Retained /\ K \subseteq s.ops
  BY <1>1 DEF Kept
<1>3. IsFiniteSet(K) /\ n \in Nat
  BY <1>2, FS_Subset, FS_CardinalityType DEF SessionInv
<1>4. \A r, q \in K : r.seq = q.seq => r = q
  BY <1>2 DEF SessionInv
<1>5. /\ \A r \in K : Rank(r, K) \in 1..n
      /\ \A r, q \in K : Rank(r, K) = Rank(q, K) => r = q
  <2> HIDE DEF K
  <2> QED BY <1>2, <1>3, <1>4, RankSpec
<1>6. n < MaxSeq
  OBVIOUS
<1>7. t.ops = {head} \union F /\ t.nextSeq = 1 + n /\ t.cursor = 0 /\ t.retired = s.retired
      /\ t.live = FALSE /\ t.wake = Nil
  BY <1>1 DEF Restarted, Renumbered, SessionRecord
<1> HIDE DEF K, n
<1>8. IsFiniteSet({head} \union F)
  <2>1. f \in Surjection(K, F)
    BY DEF Surjection
  <2>2. IsFiniteSet(F)
    <3> HIDE DEF f, F
    <3> QED BY <1>3, <2>1, FS_Surjection
  <2> QED BY Zenon, <2>2, FS_Union, FS_Singleton
<1>9. \A x \in F : x \in Retained /\ x.seq \in 2..(1 + n)
  <2> SUFFICES ASSUME NEW r \in K
               PROVE  LET x == [seq |-> 1 + Rank(r, K), op |-> r.op]
                      IN  x \in Retained /\ x.seq \in 2..(1 + n)
    OBVIOUS
  <2>1. 1 + Rank(r, K) \in 2..(1 + n) /\ 1 + Rank(r, K) \in 1..MaxSeq
    BY <1>3, <1>5, <1>6, SessionAssumption
  <2> QED BY <1>2, <2>1 DEF Retained
<1>10. head \in Retained /\ head.seq = 1
  BY <1>3, <1>6, SessionAssumption DEF Retained, Ops
<1>11. \A x, y \in {head} \union F : x.seq = y.seq => x = y
  <2>1. ASSUME NEW r \in K, NEW q \in K, 1 + Rank(r, K) = 1 + Rank(q, K)
        PROVE  r = q
    <3>1. Rank(r, K) = Rank(q, K)
      BY <1>3, <1>5, <2>1
    <3> QED BY <1>5, <3>1
  <2>2. \A x, y \in F : x.seq = y.seq => x = y
    BY <2>1
  <2>3. \A x \in F : x.seq # head.seq
    BY <1>3, <1>9, <1>10
  <2> HIDE DEF F, head
  <2> QED BY <2>2, <2>3
<1>12. \A x \in {head} \union F : 0 < x.seq /\ x.seq <= 1 + n
  BY <1>3, <1>9, <1>10
<1>13. t \in SessionRecord
  <2>1. {head} \union F \in SUBSET Retained
    BY <1>9, <1>10
  <2>2. Renumbered(s, first) = {head} \union F
    BY DEF Renumbered, K
  <2>3. 1 + n \in 0..MaxSeq /\ 0 \in 0..MaxSeq
    BY <1>3, <1>6, SessionAssumption
  <2> HIDE DEF F, head
  <2> QED BY Zenon, <1>1, <2>1, <2>2, <2>3 DEF Restarted, SessionRecord, K, n
<1> HIDE DEF t, F, head
<1>14. SessionInv(t)
  BY <1>3, <1>7, <1>8, <1>11, <1>12, <1>13 DEF SessionInv
<1> QED BY <1>14 DEF t


-----------------------------------------------------------------------------
(* What the operations keep and yield of a session's and a drainer's fields,   *)
(* whatever the drainer has written.                                           *)

(* An append issues the next number and leaves the rest alone.                *)
LEMMA AppendedFields ==
    ASSUME NEW s \in SessionRecord, NEW op
    PROVE  LET t == Appended(s, op) IN
           /\ t.ops = s.ops \union {[seq |-> s.nextSeq + 1, op |-> op]}
           /\ t.nextSeq = s.nextSeq + 1 /\ t.cursor = s.cursor
           /\ t.retired = s.retired /\ t.epoch = s.epoch
BY Zenon DEF Appended, SessionRecord

(* An ack drops the ops it covers, and no other.                              *)
LEMMA AckedFields ==
    ASSUME NEW s, SessionInv(s), NEW acked \in Nat, NEW named
    PROVE  LET t == Acked(s, AdvancedCursor(s, acked), named) IN
           /\ t.ops \subseteq s.ops
           /\ \A r \in s.ops : r \in t.ops \/ r.seq <= acked \/ r.seq \in named
           /\ t.nextSeq = s.nextSeq /\ t.retired = s.retired /\ t.epoch = s.epoch
<1> DEFINE cursor == AdvancedCursor(s, acked)
           t == Acked(s, cursor, named)
<1>1. s \in SessionRecord /\ s.nextSeq \in 0..MaxSeq /\ s.cursor \in 0..MaxSeq
  BY Zenon DEF SessionInv, SessionRecord
<1>2. /\ t.ops = {r \in s.ops : r.seq > cursor /\ r.seq \notin named}
      /\ t.nextSeq = s.nextSeq /\ t.retired = s.retired /\ t.epoch = s.epoch
  BY Zenon, <1>1 DEF Acked, SessionRecord
<1>3. ASSUME NEW r \in s.ops, ~(r.seq > cursor)
      PROVE  r.seq <= acked
  <2>1. r.seq \in 1..MaxSeq /\ s.cursor < r.seq /\ r.seq <= s.nextSeq
    BY <1>1 DEF SessionInv, SessionRecord, Retained
  <2> QED BY <1>1, <1>3, <2>1, SessionAssumption DEF AdvancedCursor, Clamp
<1> HIDE DEF cursor, t
<1>4. \A r \in s.ops : r \in t.ops \/ r.seq <= acked \/ r.seq \in named
  BY Zenon, <1>2, <1>3
<1> QED BY Zenon, <1>2, <1>4 DEF t, cursor

(* Claiming a session and clearing live leave its ops alone.                  *)
LEMMA ClaimedFields ==
    ASSUME NEW s \in SessionRecord, NEW d
    PROVE  \A t \in {Claimed(s, d), [s EXCEPT !.live = FALSE]} :
             /\ t.ops = s.ops /\ t.nextSeq = s.nextSeq /\ t.cursor = s.cursor
             /\ t.retired = s.retired /\ t.epoch = s.epoch
BY Zenon DEF Claimed, SessionRecord

(* Restart puts its own op first and renumbers the live ops, each once.       *)
LEMMA RestartedFields ==
    ASSUME NEW s, SessionInv(s), NEW first \in ReplayOps, NEW epoch,
           \A r, q \in s.ops : r.op = q.op /\ r.op \in LiveOps => r = q
    PROVE  LET t == Restarted(s, first, epoch) IN
           /\ t.cursor = 0 /\ t.retired = s.retired /\ t.epoch = epoch
           /\ [seq |-> 1, op |-> first] \in t.ops
           /\ \A x \in t.ops : x.op \in LiveOps => \E r \in s.ops : r.op = x.op
           /\ \A x, y \in t.ops : x.op = y.op /\ x.op \in LiveOps => x = y
           /\ \A r \in s.ops : r.op \in LiveOps => \E x \in t.ops : x.op = r.op
<1> DEFINE K == Kept(s)
           New(r) == [seq |-> 1 + Rank(r, K), op |-> r.op]
           head == [seq |-> 1, op |-> first]
           t == Restarted(s, first, epoch)
<1>1. s \in SessionRecord /\ s.ops \subseteq Retained
  BY Zenon DEF SessionInv, SessionRecord
<1>2. /\ t.ops = Renumbered(s, first)
      /\ t.cursor = 0 /\ t.retired = s.retired /\ t.epoch = epoch
  BY Zenon, <1>1 DEF Restarted, SessionRecord
<1>3. Renumbered(s, first) = {head} \union {New(r) : r \in K}
  BY Zenon DEF Renumbered
<1>4. head.op = first /\ \A r : New(r).op = r.op
  BY Zenon
<1>5. first \notin LiveOps
  BY Zenon, SessionAssumption
<1>6. K \subseteq s.ops /\ \A r \in s.ops : r.op \in LiveOps => r \in K
  BY Zenon, SessionAssumption DEF Kept
<1> HIDE DEF K, New, head, t
<1>7. \A x \in t.ops : x.op \in LiveOps => \E r \in K : x = New(r)
  BY <1>2, <1>3, <1>4, <1>5
<1>8. \A r \in K : New(r) \in t.ops
  BY Zenon, <1>2, <1>3
<1>9. \A x, y \in t.ops : x.op = y.op /\ x.op \in LiveOps => x = y
  BY <1>4, <1>6, <1>7
<1>10. /\ \A x \in t.ops : x.op \in LiveOps => \E r \in s.ops : r.op = x.op
       /\ \A r \in s.ops : r.op \in LiveOps => \E x \in t.ops : x.op = r.op
  BY Zenon, <1>4, <1>6, <1>7, <1>8
<1> QED BY Zenon, <1>2, <1>3, <1>9, <1>10 DEF t, head

(* The top of a drain cycle collects retained ops, and moves the watermark     *)
(* only where the agent acked.                                                 *)
LEMMA CollectedFields ==
    ASSUME NEW q \in DrainerRecord, NEW s, SessionInv(s)
    PROVE  LET c == Collected(q, s) IN
           /\ c \in DrainerRecord /\ c.batch = CollectBatch(s, c.sent, c.above)
           /\ c.pc = IF c.batch = {} THEN "park" ELSE "check"
           /\ c.mine = q.mine
           /\ s.cursor = 0 => c.sent = q.sent /\ c.above = q.above
<1> DEFINE jump == q.sent < s.cursor
           sent == IF jump THEN AbsorbJump(s.cursor, q.above) ELSE q.sent
           above == IF jump THEN AboveFrom(sent, q.above) ELSE q.above
           batch == CollectBatch(s, sent, above)
           pc == IF batch = {} THEN "park" ELSE "check"
           c == Collected(q, s)
<1>1. /\ q.sent \in 0..MaxSeq /\ q.above \in SUBSET (1..MaxSeq) /\ s.cursor \in 0..MaxSeq
      /\ s.ops \subseteq Retained
  BY Zenon DEF DrainerRecord, SessionInv, SessionRecord
<1>2. AboveFrom(s.cursor, q.above) \in SUBSET (1..MaxSeq)
  BY Zenon, <1>1 DEF AboveFrom
<1>3. AbsorbJump(s.cursor, q.above) \in 0..MaxSeq
  BY Zenon, <1>1, <1>2, AbsorbContiguousSpec DEF AbsorbJump
<1>4. sent \in 0..MaxSeq /\ above \in SUBSET (1..MaxSeq)
  BY Zenon, <1>1, <1>3 DEF AboveFrom
<1>5. s.cursor = 0 => sent = q.sent /\ above = q.above
  BY <1>1, SessionAssumption
<1>6. c = [q EXCEPT !.pc = pc, !.sent = sent, !.above = above, !.batch = batch]
  BY Zenon DEF Collected
<1>7. batch \in SUBSET Retained /\ pc \in {"park", "check"}
  BY Zenon, <1>1 DEF CollectBatch
<1> HIDE DEF sent, above, batch, pc, c
<1>8. /\ c \in DrainerRecord /\ c.batch = batch /\ c.sent = sent /\ c.above = above /\ c.pc = pc
      /\ c.mine = q.mine
  BY Zenon, <1>4, <1>6, <1>7 DEF DrainerRecord
<1> QED BY Zenon, <1>5, <1>8 DEF c, batch, pc

(* A write takes the oldest op out of the batch.                              *)
LEMMA WrittenFields ==
    ASSUME NEW q \in DrainerRecord, q.batch # {}
    PROVE  LET w == [Written(q) EXCEPT !.wrote = {}]
               r == NextOf(q.batch) IN
           /\ w \in DrainerRecord /\ w.batch = q.batch \ {r}
           /\ w.pc = IF w.batch = {} THEN "park" ELSE "check"
           /\ r \in q.batch /\ r \in Retained /\ \A b \in q.batch : r.seq <= b.seq
<1> DEFINE r == NextOf(q.batch)
           rest == q.batch \ {r}
           sent == SentAfter(q.sent, q.above, r.seq)
           above == AboveFrom(sent, q.above \union {r.seq})
           pc == IF rest = {} THEN "park" ELSE "check"
           w == [Written(q) EXCEPT !.wrote = {}]
<1>1. /\ q.sent \in 0..MaxSeq /\ q.above \in SUBSET (1..MaxSeq) /\ q.batch \in SUBSET Retained
  BY Zenon DEF DrainerRecord
<1>2. r \in q.batch /\ \A b \in q.batch : r.seq <= b.seq
  BY Zenon, <1>1, NextOfSpec
<1>3. r \in Retained /\ r.seq \in 1..MaxSeq /\ r.seq \in 0..MaxSeq
  BY <1>1, <1>2 DEF Retained
<1> HIDE DEF r
<1>4. sent \in 0..MaxSeq
  BY Zenon, <1>1, <1>3, AbsorbContiguousSpec DEF SentAfter
<1>5. above \in SUBSET (1..MaxSeq) /\ rest \in SUBSET Retained /\ pc \in {"park", "check"}
  BY Zenon, <1>1, <1>3 DEF AboveFrom
<1>6. w = [q EXCEPT !.wrote = {}, !.batch = rest, !.sent = sent, !.above = above, !.pc = pc]
  BY DEF Written, r, DrainerRecord
<1> HIDE DEF sent, above, rest, pc, w
<1>7. w \in DrainerRecord /\ w.batch = rest /\ w.pc = pc
  BY Zenon, <1>4, <1>5, <1>6 DEF DrainerRecord
<1> QED BY Zenon, <1>2, <1>3, <1>7 DEF w, rest, pc, r
=============================================================================
