---------------------------- MODULE EventFeed ------------------------------
(* What the event bus promises a client, whatever streams, buffers and         *)
(* reconnects lie between: within one boot of the Server it is taken through   *)
(* the published events one by one, in order; when it comes back it is put     *)
(* back at most over events it may not see; and where that cannot be done it   *)
(* is told so, and starts again.                                               *)
EXTENDS Integers, Sequences

CONSTANTS Changes, Clients, Visible

VARIABLES
    log,   \* the changes published since the Server booted
    pos    \* [Clients -> how far each has been taken, -1 when nowhere]
feed == <<log, pos>>

Init == log = << >> /\ pos = [c \in Clients |-> -1]

Publish(x) == log' = Append(log, x) /\ UNCHANGED pos

Moved(c, k) == pos' = [pos EXCEPT ![c] = k] /\ UNCHANGED log

Advance(c) == pos[c] \in 0..(Len(log) - 1) /\ Moved(c, pos[c] + 1)

Rewind(c) ==
    /\ pos[c] > 0
    /\ \E k \in 0..pos[c] :
         /\ \A i \in (k + 1)..pos[c] : log[i] \notin Visible[c]
         /\ Moved(c, k)

Start(c) == pos[c] = -1 /\ \E k \in 0..Len(log) : Moved(c, k)

Lose(c) == pos[c] # -1 /\ Moved(c, -1)

Boot == log' = << >> /\ pos' = [c \in Clients |-> -1]

Next ==
    \/ \E x \in Changes : Publish(x)
    \/ \E c \in Clients : Advance(c) \/ Rewind(c) \/ Start(c) \/ Lose(c)
    \/ Boot

Spec == Init /\ [][Next]_feed
=============================================================================
