--------------------------- MODULE ControlLaneInv ---------------------------
(* The inductive invariant of ControlLane, stated object by object and         *)
(* drainer by drainer.                                                         *)
EXTENDS ControlLane

(* At most one object is neither unallocated nor retired: the one bound or the *)
(* one being retired.                                                          *)
ObjectsInv ==
    /\ bound = Nil \/ retiring = Nil
    /\ \A o \in Objects :
         /\ ses[o].epoch = 0 => ses[o] = NewSession(0)
         /\ o = bound \/ o = retiring <=> ses[o].epoch > 0 /\ ~ses[o].retired
    /\ \A d \in Drainers :
         /\ drn[d].pc # "idle" => drn[d].obj \in Objects
         /\ drn[d].obj \in Objects => ses[drn[d].obj].epoch > 0
    /\ \A c \in Callers : snd[c] # Nil => ses[snd[c]].epoch > 0

(* A wake channel with a reader belongs to the current subscription, and every *)
(* displaced drainer finds its own channel closed.                             *)
ChannelInv ==
    /\ \A o \in Objects :
         /\ ses[o].live <=> HasReader(o)
         /\ HasReader(o) => drn[ses[o].wake].obj = o /\ drn[ses[o].wake].mine = ses[o].sub
    /\ \A d \in Drainers : Serving(d) =>
         /\ drn[d].mine <= ses[drn[d].obj].sub
         /\ Displaced(d) => drn[d].closed
         /\ ~Displaced(d) => ses[drn[d].obj].wake = d

LocalInv ==
    /\ \A o \in Objects : SessionInv(ses[o])
    /\ \A d \in Drainers : Serving(d) => DrainerInv(drn[d])
    /\ \A d \in Drainers : Current(d) => CurrentInv(drn[d], ses[drn[d].obj])

LaneInv == TypeOK /\ ObjectsInv /\ ChannelInv /\ LocalInv
=============================================================================
