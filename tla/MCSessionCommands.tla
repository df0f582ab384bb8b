------------------------- MODULE MCSessionCommands -------------------------
(* Bounded instances of SessionCommands for TLC: either every kind of frame on *)
(* one enrollment, retried up to MaxTries times, or commands alone over every  *)
(* enrollment.                                                                 *)
EXTENDS SessionCommands

VARIABLE load

Loads ==
    {[sends |-> Delivers, signals |-> TRUE, enroll |-> 1, tries |-> MaxTries],
     [sends |-> {}, signals |-> FALSE, enroll |-> MaxEnroll, tries |-> MaxTries - 1]}

MCInit == Init /\ load \in Loads
MCNext ==
    /\ Next
    /\ cur' <= load.enroll /\ sentOps' \subseteq load.sends
    /\ \A c \in Callers : caller'[c].tries <= load.tries
    /\ load.signals \/ \A e \in Enrollments : Range(rt'[e].queue) \cap Signals = {}
    /\ UNCHANGED load
(* The loads bound only what SessionCommands' fairness does not ask for.       *)
MCSpec == MCInit /\ [][MCNext]_<<vars, load>> /\ Fairness
=============================================================================
