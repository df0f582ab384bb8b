------------------------- MODULE MCControlProtocol -------------------------
(* Bounded instances of ControlProtocol for TLC.  Each behaviour runs under    *)
(* one load: the ops that may be delivered to it, and how many faults and      *)
(* rejected prompts it meets.  It is followed until an epoch is read late.     *)
EXTENDS ControlProtocol

VARIABLE load

(* An immediate and a turn-end op without faults; a turn-end op alone under    *)
(* faults and a rejected prompt; an immediate op that overtakes a pulled one.  *)
Loads ==
    {[ops |-> Immediate \union TurnEnd, faults |-> 0, rejects |-> 0],
     [ops |-> TurnEnd, faults |-> MaxFaults, rejects |-> MaxRejects],
     [ops |-> Immediate \union Pulled, faults |-> 0, rejects |-> 0]}

MCInit == Init /\ load \in Loads
MCNext ==
    /\ ~late /\ Next
    /\ sent' \subseteq load.ops /\ faults' <= load.faults /\ rejects' <= load.rejects
    /\ UNCHANGED load
MCSpec == MCInit /\ [][MCNext]_<<vars, load>>

(* For liveness: one op at a time, pulled or at a turn's end.  The loads bound *)
(* only deliveries, faults and rejected prompts, which nothing makes fair.     *)
MCLiveInit ==
    /\ Init
    /\ load \in {[ops |-> Pulled, faults |-> MaxFaults, rejects |-> 0],
                 [ops |-> TurnEnd, faults |-> 0, rejects |-> MaxRejects]}
MCLiveSpec == MCLiveInit /\ [][MCNext]_<<vars, load>> /\ Fairness
=============================================================================
