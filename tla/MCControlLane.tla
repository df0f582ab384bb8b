--------------------------- MODULE MCControlLane ---------------------------
(* ControlLane under one of three loads, which keep it small: one subscription *)
(* at a time against three ops and their acks, or against two ops and a        *)
(* Restart, and two subscriptions that displace each other around one op.      *)
EXTENDS ControlLane

CONSTANT First       \* the drainer that may subscribe under every load

VARIABLE load

Loads == {[ops |-> 3, binds |-> 1, subs |-> {First}],
          [ops |-> 2, binds |-> 2, subs |-> {First}],
          [ops |-> 1, binds |-> 1, subs |-> Drainers]}
MCInit == Init /\ load \in Loads
MCNext ==
    /\ Next /\ UNCHANGED load
    /\ lastEpoch' <= load.binds
    /\ \A o \in Objects : ses'[o].nextSeq <= load.ops
    /\ \A d \in Drainers \ load.subs : drn'[d] = Idle
(* The loads bound sends, binds and subscriptions, which nothing makes fair.   *)
MCSpec == MCInit /\ [][MCNext]_<<vars, load>> /\ \A d \in Drainers : WF_vars(Drain(d))
=============================================================================
