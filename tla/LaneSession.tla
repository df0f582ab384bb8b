---------------------------- MODULE LaneSession ----------------------------
(* The values the Runner's control producer works on                           *)
(* (go/internal/runner/gateway/control.go): the controlSession record and what *)
(* each critical section makes of it, and the state of the drainer that writes *)
(* a session's retained ops to one subscription.                               *)
EXTENDS Integers, FiniteSets

CONSTANTS
    Objects,      \* controlSession objects the producer can allocate
    Drainers,     \* Control subscriptions (one serve goroutine each)
    LiveOps,      \* steer, deliver, prompt, ... : held by the replay barrier
    ReplayOps,    \* replay_complete: exempt from the barrier and from the cap
    Nil,          \* no object, no wake channel
    MaxRetained,  \* maxRetainedOps
    MaxSeq        \* bound on the sequence numbers one object issues

ASSUME SessionAssumption ==
    /\ Nil \notin Objects \union Drainers
    /\ LiveOps \intersect ReplayOps = {}
    /\ MaxRetained \in Nat \ {0} /\ MaxSeq \in Nat

Ops == LiveOps \union ReplayOps
Retained == [seq : 1..MaxSeq, op : Ops]
Seqs(R) == {r.seq : r \in R}

(* An object nobody allocated yet, and the one Bind allocates with epoch e.    *)
NewSession(e) ==
    [nextSeq |-> 0, ops |-> {}, held |-> FALSE, sub |-> 0, wake |-> Nil,
     live |-> FALSE, retired |-> FALSE, cursor |-> 0, epoch |-> e]

(* A drainer that serves no subscription.  wrote is a history variable: what   *)
(* this subscription has written.                                              *)
Idle == [pc |-> "idle", obj |-> Nil, mine |-> 0, sent |-> 0, above |-> {},
         batch |-> {}, token |-> FALSE, closed |-> FALSE, wrote |-> {}]

-----------------------------------------------------------------------------
(* Retire, and Restart: replay_complete becomes sequence number 1, then every  *)
(* unacked live op in its order, renumbered from 2.                            *)
Tombstoned(s) ==
    [s EXCEPT !.sub = @ + 1, !.live = FALSE, !.retired = TRUE, !.ops = {}, !.wake = Nil]

Kept(s) == {r \in s.ops : r.op \notin ReplayOps}
Rank(r, R) == Cardinality({q \in R : q.seq <= r.seq})
Renumbered_ReplayLast(s, first) ==
    {[seq |-> 1 + Cardinality(Kept(s)), op |-> first]}
      \union {[seq |-> Rank(r, Kept(s)), op |-> r.op] : r \in Kept(s)}
Renumbered(s, first) ==
    {[seq |-> 1, op |-> first]}
      \union {[seq |-> 1 + Rank(r, Kept(s)), op |-> r.op] : r \in Kept(s)}
Restarted(s, first, epoch) ==
    [s EXCEPT !.epoch = epoch, !.sub = @ + 1, !.live = FALSE, !.wake = Nil,
              !.ops = Renumbered(s, first), !.nextSeq = 1 + Cardinality(Kept(s)),
              !.cursor = 0, !.held = FALSE]

-----------------------------------------------------------------------------
(* Send: the cap, the wake and the append.                                     *)
RetentionFull(s, op) == Cardinality(s.ops) >= MaxRetained /\ op \notin ReplayOps

(* A live op under the barrier wakes nobody; a replay op always does.          *)
Wakes_NotUnderBarrier(s, op) == ~s.held
Wakes(s, op) == ~s.held \/ op \in ReplayOps

Appended(s, op) ==
    [s EXCEPT !.nextSeq = @ + 1, !.ops = @ \union {[seq |-> s.nextSeq + 1, op |-> op]}]

-----------------------------------------------------------------------------
(* AckControl: the cursor only advances and never past the last number issued. *)
Clamp(s, acked) == IF acked > s.nextSeq THEN s.nextSeq ELSE acked
AdvancedCursor(s, acked) ==
    IF Clamp(s, acked) > s.cursor THEN Clamp(s, acked) ELSE s.cursor
Fenced(s, epoch) == s.epoch # epoch
Acked(s, cursor, named) ==
    [s EXCEPT !.cursor = cursor, !.ops = {r \in @ : r.seq > cursor /\ r.seq \notin named}]

-----------------------------------------------------------------------------
(* serve.  sent is the drainer's contiguous watermark, above the sequence      *)
(* numbers it wrote past the watermark.                                        *)
AbsorbContiguous(from, above) ==
    CHOOSE n \in {from} \union above :
       /\ n >= from /\ n + 1 \notin above
       /\ \A i \in (from + 1)..n : i \in above

AboveFrom(n, above) == {i \in above : i > n}

AbsorbJump_NoAbsorb(from, above) == from
(* absorbJump: what the jump strands below the new watermark is dropped.       *)
AbsorbJump(from, above) == AbsorbContiguous(from, AboveFrom(from, above))

CollectBatch(s, sent, above) ==
    {r \in s.ops : /\ r.seq > sent /\ r.seq \notin above
                   /\ s.held => r.op \in ReplayOps}

(* The op a drain cycle writes next: the batch is a slice in ascending order.  *)
NextOf(batch) == CHOOSE r \in batch : \A q \in batch : r.seq <= q.seq

(* The watermark after writing seq, and the numbers left above it.             *)
SentAfter_HighWater(sent, above, seq) == seq
SentAfter(sent, above, seq) ==
    IF seq = sent + 1 THEN AbsorbContiguous(seq, above) ELSE sent

(* A subscription takes the session over, starting from the acked cursor.      *)
Claimed(s, d) == [s EXCEPT !.sub = @ + 1, !.wake = d, !.live = TRUE]
Subscribed_FromTail(o, s) ==
    [Idle EXCEPT !.pc = "top", !.obj = o, !.mine = s.sub + 1, !.sent = s.nextSeq,
                 !.token = TRUE]
Subscribed(o, s) ==
    [Idle EXCEPT !.pc = "top", !.obj = o, !.mine = s.sub + 1, !.sent = s.cursor,
                 !.token = TRUE]

(* The top of a drain cycle: absorb the acked cursor, then collect.            *)
Collected(q, s) ==
    LET jump == q.sent < s.cursor
        sent == IF jump THEN AbsorbJump(s.cursor, q.above) ELSE q.sent
        above == IF jump THEN AboveFrom(sent, q.above) ELSE q.above
        batch == CollectBatch(s, sent, above)
    IN  [q EXCEPT !.pc = IF batch = {} THEN "park" ELSE "check",
                  !.sent = sent, !.above = above, !.batch = batch]

(* One op of the batch is written.                                             *)
Written(q) ==
    LET r == NextOf(q.batch)
        rest == q.batch \ {r}
        sent == SentAfter(q.sent, q.above, r.seq)
    IN  [q EXCEPT !.wrote = @ \union {r}, !.batch = rest, !.sent = sent,
                  !.above = AboveFrom(sent, @ \union {r.seq}),
                  !.pc = IF rest = {} THEN "park" ELSE "check"]

(* Signalling a drainer, and closing its wake channel under it.                *)
Woken(q) == [q EXCEPT !.token = TRUE]
Closed(q) == [q EXCEPT !.closed = TRUE]

-----------------------------------------------------------------------------
(* Well-formed sessions and drainers: what every operation above keeps true.   *)
SessionRecord ==
    [nextSeq : 0..MaxSeq, ops : SUBSET Retained, held : BOOLEAN, sub : Nat,
     wake : Drainers \union {Nil}, live : BOOLEAN, retired : BOOLEAN,
     cursor : 0..MaxSeq, epoch : Nat]
DrainerRecord ==
    [pc : {"idle", "resolved", "top", "check", "write", "park", "exit"},
     obj : Objects \union {Nil}, mine : Nat, sent : 0..MaxSeq, above : SUBSET (1..MaxSeq),
     batch : SUBSET Retained, token : BOOLEAN, closed : BOOLEAN, wrote : SUBSET Retained]

(* One object: its retained ops have distinct numbers, past its acked cursor   *)
(* and among the numbers it issued.                                            *)
SessionInv(s) ==
    /\ s \in SessionRecord /\ IsFiniteSet(s.ops)
    /\ s.retired => ~s.live /\ s.wake = Nil
    /\ s.cursor <= s.nextSeq
    /\ \A r \in s.ops : s.cursor < r.seq /\ r.seq <= s.nextSeq
    /\ \A r, q \in s.ops : r.seq = q.seq => r = q

Covers(q, n) == n <= q.sent \/ n \in q.above
Owed(q, s) == CollectBatch(s, q.sent, q.above)

(* One drainer, displaced or not: what it covers is what it wrote or was acked,*)
(* and what it has collected is still to be written, above every live op       *)
(* written so far.                                                             *)
DrainerInv(q) ==
    /\ q.pc \in {"top", "park"} => q.batch = {}
    /\ q.pc \in {"check", "write"} => q.batch # {}
    /\ q.sent + 1 \notin q.above
    /\ \A n \in q.above : n > q.sent
    /\ \A b \in q.batch : ~Covers(q, b.seq)
    /\ \A b, c \in q.batch : b.seq = c.seq => b = c
    /\ \A w \in q.wrote : Covers(q, w.seq)
    /\ \A x \in q.batch, y \in q.wrote : x.op \in LiveOps /\ y.op \in LiveOps => y.seq < x.seq

(* The current subscription and the object it drains: a retained op it covers  *)
(* was written; one it owes is in its batch unless a token is pending; and no  *)
(* live op is left behind a live op that was written or collected.             *)
CurrentInv(q, s) ==
    /\ q.sent <= s.nextSeq
    /\ \A n \in q.above : n <= s.nextSeq
    /\ \A b \in q.batch : b.seq <= s.nextSeq
    /\ \A b \in q.batch, r \in s.ops : b.seq = r.seq => b = r
    /\ \A r \in s.ops : Covers(q, r.seq) => r \in q.wrote
    /\ q.pc \in {"check", "write", "park"} /\ ~q.token => Owed(q, s) \subseteq q.batch
    /\ \A y \in q.wrote, r \in s.ops :
         y.op \in LiveOps /\ r.op \in LiveOps /\ r.seq < y.seq => Covers(q, r.seq)
    /\ \A x \in q.batch, r \in s.ops :
         x.op \in LiveOps /\ r.op \in LiveOps /\ r.seq < x.seq /\ ~Covers(q, r.seq)
           => r \in q.batch
=============================================================================
