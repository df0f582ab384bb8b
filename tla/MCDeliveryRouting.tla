------------------------- MODULE MCDeliveryRouting -------------------------
(* A bounded instance of DeliveryRouting for TLC: four messages, each in a     *)
(* channel of its own, and the loads that say which are posted and how many    *)
(* faults the behaviour meets.  The loads bound only posts and faults, which   *)
(* nothing makes fair.                                                         *)
EXTENDS DeliveryRouting

CONSTANTS o, s, out, sub, ask, both
VARIABLE load

MCMentioned == [m \in {out, sub, ask, both} |-> IF m = out THEN {o} ELSE IF m = both THEN {s} ELSE {}]
MCSwept == [m \in {out, sub, ask, both} |-> IF m \in {sub, both} THEN {s} ELSE {}]
MCAsker == [m \in {out, sub, ask, both} |-> IF m = ask THEN {o} ELSE {}]

(* One message and at most one fault of any kind, or two lost sessions.        *)
Loads ==
    {[posts |-> {m}, faults |-> 1, lossOnly |-> FALSE] : m \in {out, sub, ask}}
      \union {[posts |-> {both}, faults |-> 0, lossOnly |-> FALSE],
              [posts |-> {sub}, faults |-> 2, lossOnly |-> TRUE]}

MCInit == Init /\ load \in Loads
MCNext ==
    /\ Next
    /\ db'.posted \subseteq load.posts /\ faults' <= load.faults
    /\ \A a \in hub'.live : \E m \in load.posts : a \in Mentioned[m] \union Swept[m] \union Asker[m]
    /\ load.lossOnly => hub'.attached /\ excused' = {} /\ db'.posted \ db.posted \subseteq db'.queued
    /\ UNCHANGED load
MCSpec == MCInit /\ [][MCNext]_<<routing, load>> /\ Fairness
=============================================================================
