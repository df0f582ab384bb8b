---------------------------- MODULE MCDelivery ----------------------------
(* The delivery state kept by the store and by the consumer, model-checked in  *)
(* one run: part says which of them a behaviour is about.                      *)
EXTENDS DeliveryCursor

CONSTANTS m1, m2, MaxClock, MaxTurn, MaxProc

VARIABLES part, load, pace, clock, proc, frames, bound, msg, event, gen, settle, held, queue, prune, fired, raced
hold == <<pace, clock, proc, frames, bound, msg, event, gen, settle, held, queue, prune, fired, raced>>

Hold == INSTANCE SettleHold WITH Msgs <- {m1, m2}, First <- m1, load <- pace

(* Bounded instances of the cursors: acks over two channels with no            *)
(* membership change, or one channel or one DM whose membership changes.       *)
Plain == Channels \ DMs
Loads ==
    {[used |-> Plain, managed |-> {}, seqs |-> MaxSeq]}
      \union {[used |-> {c}, managed |-> {c}, seqs |-> MaxSeq - 1] : c \in Managed}

MCInit ==
    /\ Init /\ load \in Loads
    /\ \A c \in Plain \ load.used : chan[c].member <=> c \in Home
MCNext ==
    /\ Next
    /\ nextSeq' <= load.seqs /\ \A m \in open' : m.chan \in load.used
    /\ \A c \in Channels \ load.managed :
         /\ chan'[c] = chan[c] /\ upd'[c] = Nil /\ pol'[c] = Nil /\ c \notin reopening'
    /\ UNCHANGED load

DeliveryInit ==
    \/ part = "cursor" /\ MCInit
       /\ pace = Nil /\ clock = Nil /\ proc = Nil /\ frames = Nil /\ bound = Nil
       /\ msg = Nil /\ event = Nil /\ gen = Nil /\ settle = Nil /\ held = Nil
       /\ queue = Nil /\ prune = Nil /\ fired = Nil /\ raced = Nil
    \/ /\ part = "hold" /\ Hold!MCInit
       /\ Init /\ load = Nil /\ reach = {} /\ \A c \in Plain : chan[c].member <=> c \in Home
CursorNext == part = "cursor" /\ MCNext /\ UNCHANGED <<part, hold>>
HoldNext == part = "hold" /\ Hold!MCNext /\ UNCHANGED <<part, vars, load>>
DeliverySpec == DeliveryInit /\ [][CursorNext \/ HoldNext]_<<part, vars, load, hold>>

(* The held registry is sound: every held post has an identity that its settle *)
(* will release, in commit order, and no post is stranded while its author is  *)
(* idle and every edge has been drained.                                       *)
HeldSound == part = "hold" => Hold!HeldSound
(* A held post goes out only once the turn that made it is over.               *)
FiredSettled == [][(part = "hold" /\ raced = {}) => \A m \in fired' \ fired : Hold!Over(m)]_hold
=============================================================================
