---------------------------- MODULE ControlLane ----------------------------
(* The Runner's control producer (go/internal/runner/gateway/control.go): it   *)
(* stamps every control op of a session with a sequence number, retains it     *)
(* until the agent acknowledges it, and drains it to the current subscription. *)
(*                                                                             *)
(* One session id is modelled.  The producer's map holds at most one control   *)
(* session object for it (bound); a goroutine that resolved an object keeps    *)
(* its pointer, so objects outlive their map entry.  Every action is one       *)
(* critical section of the code: what happens between two sections of one call *)
(* is what the interleavings explore.                                          *)
EXTENDS LaneSession

CONSTANTS
    Callers,      \* goroutines calling Send or SendIfLive
    MaxEpoch,     \* bound on Bind and Restart
    MaxSub        \* bound on the subscriptions one object serves

ASSUME LaneAssumption ==
    MaxEpoch \in Nat /\ MaxSub \in Nat

VARIABLES
    bound,      \* the producer's map entry for the session id
    retiring,   \* the object a Retire unmapped and has not yet tombstoned
    lastEpoch,  \* the producer-wide epoch counter
    ses,        \* the state of every control session object
    drn,        \* the state of every subscription's drainer and its wake channel
    snd         \* the object each Send in flight has resolved

vars == <<bound, retiring, lastEpoch, ses, drn, snd>>

Init ==
    /\ bound = Nil /\ retiring = Nil /\ lastEpoch = 0
    /\ ses = [o \in Objects |-> NewSession(0)]
    /\ drn = [d \in Drainers |-> Idle]
    /\ snd = [c \in Callers |-> Nil]

-----------------------------------------------------------------------------
(* The wake channel of a subscription is a one-slot edge trigger owned by its  *)
(* drainer; ses[o].wake names the drainer whose channel the object signals.    *)
(* A drainer that returned leaves its channel behind with no reader.           *)
Serving(d) == drn[d].pc \in {"top", "check", "write", "park", "exit"}
HasReader(o) == ses[o].wake # Nil /\ Serving(ses[o].wake)

Signal(o) == IF HasReader(o) THEN [drn EXCEPT ![ses[o].wake] = Woken(@)] ELSE drn

CloseWake(o) == IF HasReader(o) THEN [drn EXCEPT ![ses[o].wake] = Closed(@)] ELSE drn

-----------------------------------------------------------------------------
(* The session lifecycle.  Its callers hold the container lock, so Bind,       *)
(* Restart and the two sections of a Retire never overlap.                     *)

Bind ==
    /\ bound = Nil /\ retiring = Nil /\ lastEpoch < MaxEpoch
    /\ \E o \in Objects :
         /\ ses[o].epoch = 0
         /\ bound' = o
         /\ lastEpoch' = lastEpoch + 1
         /\ ses' = [ses EXCEPT ![o] = NewSession(lastEpoch + 1)]
    /\ UNCHANGED <<retiring, drn, snd>>

RetireUnmap ==
    /\ bound # Nil /\ retiring = Nil
    /\ retiring' = bound
    /\ bound' = Nil
    /\ UNCHANGED <<lastEpoch, ses, drn, snd>>

RetireTombstone ==
    /\ retiring # Nil
    /\ ses' = [ses EXCEPT ![retiring] = Tombstoned(@)]
    /\ drn' = CloseWake(retiring)
    /\ retiring' = Nil
    /\ UNCHANGED <<bound, lastEpoch, snd>>

Restart ==
    /\ bound # Nil /\ retiring = Nil
    /\ lastEpoch < MaxEpoch /\ Cardinality(Kept(ses[bound])) < MaxSeq
    /\ \E first \in ReplayOps :
         ses' = [ses EXCEPT ![bound] = Restarted(@, first, lastEpoch + 1)]
    /\ lastEpoch' = lastEpoch + 1
    /\ drn' = CloseWake(bound)
    /\ UNCHANGED <<bound, retiring, snd>>

HoldForReplay ==
    /\ bound # Nil
    /\ ses' = [ses EXCEPT ![bound] = [@ EXCEPT !.held = TRUE]]
    /\ UNCHANGED <<bound, retiring, lastEpoch, drn, snd>>

-----------------------------------------------------------------------------
(* Send and SendIfLive: resolve the object, then append under its lock.  The   *)
(* op matters only at the append, so it is chosen there; so is whether the     *)
(* call is a SendIfLive, which is refused while no subscription is live.       *)

SendResolve(c) ==
    /\ snd[c] = Nil /\ bound # Nil
    /\ snd' = [snd EXCEPT ![c] = bound]
    /\ UNCHANGED <<bound, retiring, lastEpoch, ses, drn>>

SendRefuse(c, op, ifLive) ==
    /\ snd[c] # Nil
    /\ (ifLive /\ ~ses[snd[c]].live) \/ RetentionFull(ses[snd[c]], op)
    /\ snd' = [snd EXCEPT ![c] = Nil]
    /\ UNCHANGED <<bound, retiring, lastEpoch, ses, drn>>

SendAppend(c, op, ifLive) ==
    LET o == snd[c]
        s == ses[o]
    IN
    /\ o # Nil
    /\ ifLive => s.live
    /\ ~RetentionFull(s, op)
    /\ s.nextSeq < MaxSeq
    /\ ses' = [ses EXCEPT ![o] = Appended(s, op)]
    /\ drn' = IF Wakes(s, op) THEN Signal(o) ELSE drn
    /\ snd' = [snd EXCEPT ![c] = Nil]
    /\ UNCHANGED <<bound, retiring, lastEpoch>>

-----------------------------------------------------------------------------
(* Acks.  The agent is the untrusted side: it may name any epoch issued so     *)
(* far, any cursor and any sequence numbers.  A call resolves its object, then *)
(* locks it, so it may reach any object that was ever bound.  AckControl reads *)
(* retention in one section and prunes in a later one; one step stands for     *)
(* both, because an op appended between them is one the caller names or does   *)
(* not name, and a Restart between them changes the epoch the second checks.   *)
(* A number that is not retained names nothing (boundedAboveSet).              *)

AckControl(o, epoch, acked, named) ==
    /\ ses[o].epoch > 0 /\ ~Fenced(ses[o], epoch)
    /\ LET cursor == AdvancedCursor(ses[o], acked)
       IN  ses' = [ses EXCEPT ![o] = Acked(@, cursor, named)]
    /\ UNCHANGED <<bound, retiring, lastEpoch, drn, snd>>

ReleaseReplayBarrier(o, epoch) ==
    /\ ses[o].epoch > 0 /\ ~Fenced(ses[o], epoch)
    /\ ses' = [ses EXCEPT ![o] = [@ EXCEPT !.held = FALSE]]
    /\ drn' = Signal(o)
    /\ UNCHANGED <<bound, retiring, lastEpoch, snd>>

-----------------------------------------------------------------------------
(* A subscription: serve.                                                      *)

Displaced(d) == ses[drn[d].obj].sub # drn[d].mine

Serve(d) ==
    /\ drn[d].pc = "idle" /\ bound # Nil
    /\ drn' = [drn EXCEPT ![d] = [@ EXCEPT !.pc = "resolved", !.obj = bound]]
    /\ UNCHANGED <<bound, retiring, lastEpoch, ses, snd>>

(* serve re-checks the tombstone under the object's lock.                      *)
Refused(d) == ses[drn[d].obj].retired

ServeRefuse(d) ==
    /\ drn[d].pc = "resolved" /\ Refused(d)
    /\ drn' = [drn EXCEPT ![d] = Idle]
    /\ UNCHANGED <<bound, retiring, lastEpoch, ses, snd>>

ServeBind(d) ==
    LET o == drn[d].obj IN
    /\ drn[d].pc = "resolved" /\ ~Refused(d)
    /\ ses[o].sub < MaxSub
    /\ ses' = [ses EXCEPT ![o] = Claimed(@, d)]
    /\ drn' = [CloseWake(o) EXCEPT ![d] = Subscribed(o, ses[o])]
    /\ UNCHANGED <<bound, retiring, lastEpoch, snd>>

(* The top of a drain cycle.                                                 *)
DrainTop(d) ==
    /\ drn[d].pc = "top"
    /\ drn' = [drn EXCEPT ![d] = IF Displaced(d) THEN Idle ELSE Collected(@, ses[drn[d].obj])]
    /\ UNCHANGED <<bound, retiring, lastEpoch, ses, snd>>

DrainCheck_OnceReleased(d) ==
    /\ drn[d].pc = "check"
    /\ drn' = [drn EXCEPT ![d] = IF Displaced(d) THEN Idle
                                 ELSE [@ EXCEPT !.pc = IF ses[drn[d].obj].held THEN "top" ELSE "write"]]
    /\ UNCHANGED <<bound, retiring, lastEpoch, ses, snd>>
DrainCheck(d) ==
    /\ drn[d].pc = "check"
    /\ drn' = [drn EXCEPT ![d] = IF Displaced(d) THEN Idle ELSE [@ EXCEPT !.pc = "write"]]
    /\ UNCHANGED <<bound, retiring, lastEpoch, ses, snd>>

(* sink.Send, outside the lock.                                                *)
DrainWrite(d) ==
    /\ drn[d].pc = "write"
    /\ drn' = [drn EXCEPT ![d] = Written(@)]
    /\ UNCHANGED <<bound, retiring, lastEpoch, ses, snd>>

DrainWake(d) ==
    /\ drn[d].pc = "park" /\ (drn[d].token \/ drn[d].closed)
    /\ drn' = [drn EXCEPT ![d] = [@ EXCEPT !.pc = "top", !.token = FALSE]]
    /\ UNCHANGED <<bound, retiring, lastEpoch, ses, snd>>

(* A failed write, or the subscription's context ending while it is parked.    *)
DrainDrop(d) ==
    /\ drn[d].pc \in {"write", "park"}
    /\ drn' = [drn EXCEPT ![d] = [@ EXCEPT !.pc = "exit"]]
    /\ UNCHANGED <<bound, retiring, lastEpoch, ses, snd>>

(* serve's deferred section: only the current subscription clears live.        *)
ClearLive_Always(d) == [ses EXCEPT ![drn[d].obj] = [@ EXCEPT !.live = FALSE]]
ClearLive(d) ==
    IF Displaced(d) THEN ses ELSE [ses EXCEPT ![drn[d].obj] = [@ EXCEPT !.live = FALSE]]

DrainExit(d) ==
    /\ drn[d].pc = "exit"
    /\ ses' = ClearLive(d)
    /\ drn' = [drn EXCEPT ![d] = Idle]
    /\ UNCHANGED <<bound, retiring, lastEpoch, snd>>

Drain(d) == DrainTop(d) \/ DrainCheck(d) \/ DrainWrite(d) \/ DrainWake(d) \/ DrainExit(d)

-----------------------------------------------------------------------------
Next ==
    \/ Bind \/ RetireUnmap \/ RetireTombstone \/ Restart \/ HoldForReplay
    \/ \E c \in Callers : SendResolve(c)
    \/ \E c \in Callers, op \in Ops, ifLive \in BOOLEAN :
         SendRefuse(c, op, ifLive) \/ SendAppend(c, op, ifLive)
    \/ \E o \in Objects, epoch \in 0..lastEpoch :
         \/ \E acked \in 0..(ses[o].nextSeq + 1), named \in SUBSET Seqs(ses[o].ops) :
              AckControl(o, epoch, acked, named)
         \/ ReleaseReplayBarrier(o, epoch)
    \/ \E d \in Drainers : Serve(d) \/ ServeRefuse(d) \/ ServeBind(d) \/ Drain(d) \/ DrainDrop(d)

Spec == Init /\ [][Next]_vars
LiveSpec == Spec /\ \A d \in Drainers : WF_vars(Drain(d))
-----------------------------------------------------------------------------
(* The type invariant.                                                         *)
TypeOK ==
    /\ bound \in Objects \union {Nil} /\ retiring \in Objects \union {Nil}
    /\ lastEpoch \in 0..MaxEpoch
    /\ ses \in [Objects -> SessionRecord]
    /\ drn \in [Drainers -> DrainerRecord]
    /\ snd \in [Callers -> Objects \union {Nil}]

Current(d) == Serving(d) /\ ~Displaced(d)
OwedTo(d) == CollectBatch(ses[drn[d].obj], drn[d].sent, drn[d].above)

(* No lost wakeup (the wake field's comment in controlSession): a drainer that *)
(* is the current subscription and parks with no token pending owes nothing.   *)
NoLostWake ==
    \A d \in Drainers :
       Current(d) /\ drn[d].pc = "park" /\ ~drn[d].token => OwedTo(d) = {}

(* serve's watermark never passes over an op: whatever is still retained at or *)
(* below sent, or recorded in above, was written by this very subscription,    *)
(* however the agent's acks move the cursor under it.                          *)
NothingSkipped ==
    \A d \in Drainers : Current(d) =>
       \A r \in ses[drn[d].obj].ops :
          r.seq <= drn[d].sent \/ r.seq \in drn[d].above => r \in drn[d].wrote

(* One subscription writes an op at most once.                                 *)
OncePerSubscription ==
    \A d \in Drainers : drn[d].pc \in {"check", "write"} =>
       Seqs(drn[d].batch) \intersect Seqs(drn[d].wrote) = {}

(* Ordering (the header's first invariant): the barrier lets replay ops        *)
(* overtake, but no live op is written after a live op with a higher number.   *)
LiveOrder ==
    \A d \in Drainers : drn[d].pc \in {"check", "write"} =>
       \A x \in drn[d].batch, y \in drn[d].wrote :
          x.op \in LiveOps /\ y.op \in LiveOps => y.seq < x.seq

(* live, which SendIfLive trusts, is true exactly while the object has an      *)
(* undisplaced subscription, and it never has two.                             *)
LiveIsAccurate ==
    \A o \in Objects :
       /\ ses[o].live <=> \E d \in Drainers : drn[d].obj = o /\ Current(d)
       /\ \A d, e \in Drainers :
            drn[d].obj = o /\ drn[e].obj = o /\ Current(d) /\ Current(e) => d = e

(* The tombstone: a retired object is never served again, nothing signals it   *)
(* and no drainer stays parked on it forever.                                  *)
RetiredIsDead ==
    \A o \in Objects : ses[o].retired =>
       /\ bound # o /\ ~ses[o].live /\ ses[o].wake = Nil
       /\ \A d \in Drainers : drn[d].obj = o /\ drn[d].pc = "park" => drn[d].closed

(* AckControl's clamp: whatever the agent acks, the cursor stays below every   *)
(* retained op and never passes the last number issued, so no op accepted      *)
(* later is invisible to a later subscription.                                 *)
CursorBelowRetained ==
    \A o \in Objects :
       /\ ses[o].cursor <= ses[o].nextSeq
       /\ \A r \in ses[o].ops : ses[o].cursor < r.seq /\ r.seq <= ses[o].nextSeq
       /\ \A r, q \in ses[o].ops : r.seq = q.seq => r = q

(* The out-of-order set only holds numbers strictly past a gap (serve's        *)
(* comment on absorbJump: otherwise above grows without bound).                *)
AbovePastGap ==
    \A d \in Drainers : Serving(d) =>
       /\ drn[d].sent + 1 \notin drn[d].above
       /\ \A n \in drn[d].above : n > drn[d].sent

(* The cap: however sends race, an object retains at most MaxRetained live     *)
(* ops, and the barrier's own release is never refused.                        *)
RetentionBounded ==
    \A o \in Objects : Cardinality({r \in ses[o].ops : r.op \in LiveOps}) <= MaxRetained

(* The bookkeeping of a session is exact: its cursor, its retention and the    *)
(* out-of-order set of each subscription (AckControl, send, absorbJump).       *)
WatermarkExact == CursorBelowRetained /\ AbovePastGap /\ RetentionBounded

(* What one subscription writes: every op it passes, once, live ops in order.  *)
InOrderOnce == NothingSkipped /\ OncePerSubscription /\ LiveOrder

(* What SendIfLive and a drainer may conclude from live and retired.           *)
SessionsAccurate == LiveIsAccurate /\ RetiredIsDead

(* Every op the current subscription owes is written, unless the subscription  *)
(* or its claim to the op ends first.                                          *)
EventuallyDrained == \A d \in Drainers : []<>~(Current(d) /\ drn[d].pc # "exit" /\ OwedTo(d) # {})
=============================================================================
