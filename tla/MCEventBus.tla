----------------------------- MODULE MCEventBus ----------------------------
(* A bounded instance of EventBus for TLC: at most MaxEpoch boots and MaxDrops *)
(* connections lost, and a client that may not see one of the changes.         *)
EXTENDS EventBus

CONSTANTS MaxEpoch, MaxDrops

VARIABLE drops
mcvars == <<vars, drops>>

MCVisible == [c \in Clients |-> Changes \ {CHOOSE x \in Changes : TRUE}]

Works ==
    \/ \E x \in Changes : Commit(x) \/ Publish(x)
    \/ \E c \in Clients : Reads(c)
    \/ Close
    \/ epoch < MaxEpoch /\ Restart
Drop(c) == drops < MaxDrops /\ HangUp(c) /\ drops' = drops + 1
MCNext == (Works /\ UNCHANGED drops) \/ \E c \in Clients : Drop(c)

MCInit == Init /\ drops = 0
MCSpec == MCInit /\ [][MCNext]_mcvars /\ Fairness
=============================================================================
