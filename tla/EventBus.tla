----------------------------- MODULE EventBus ------------------------------
(* The Server's event bus (go/events), the streams SubscribeComms and          *)
(* SubscribeEvents serve from it, and the clients' side of the protocol        *)
(* (apps/ui/src/live): a ring of the last events, a bounded live buffer for    *)
(* each stream, cursors, and a resync where a cursor cannot be served.         *)
(*                                                                             *)
(* An event is a change of the store, committed first and published second, so *)
(* publishes may overtake each other.  The ring always holds consecutive       *)
(* seqs and is kept as its oldest one, low.  An epoch nonce is modelled as a   *)
(* fresh number: two boots never share one.                                    *)
EXTENDS Integers, Sequences, FiniteSets

CONSTANTS
    Changes,
    Clients,
    Visible,       \* [Clients -> the changes each may see]
    RingCapacity,
    BufferCapacity,
    Nil

Streams == [at : Nat \union {-1}, replay : Seq(Nat), live : Seq(Nat),
            open : BOOLEAN, lagged : BOOLEAN, boundary : BOOLEAN]
ASSUME NilAssumption == Nil \notin Streams
ASSUME CapacityAssumption == RingCapacity \in Nat \ {0} /\ BufferCapacity \in Nat \ {0}

VARIABLES
    committed, \* the changes in the store
    unpublished, \* committed by a handler that has not published yet
    log,       \* the events of this boot, by seq
    low,       \* the oldest seq the ring retains
    epoch, closed,
    stream,    \* [Clients -> Nil or the open stream]
    client     \* [Clients -> cursor, epoch, and the changes it knows]
bus == <<log, low, epoch, closed>>
vars == <<committed, unpublished, bus, stream, client>>

NoClient == [cursor |-> 0, epoch |-> 0, view |-> {}]

Init ==
    /\ committed = {} /\ unpublished = {}
    /\ log = << >> /\ low = 1 /\ epoch = 1 /\ closed = FALSE
    /\ stream = [c \in Clients |-> Nil]
    /\ client = [c \in Clients |-> NoClient]

-----------------------------------------------------------------------------
Commit(x) ==
    /\ x \notin committed
    /\ committed' = committed \union {x} /\ unpublished' = unpublished \union {x}
    /\ UNCHANGED <<bus, stream, client>>

(* A send that does not block, or the subscriber is dropped as lagged.         *)
Offered(s, seq) ==
    IF s = Nil \/ ~s.open THEN s
    ELSE IF Len(s.live) < BufferCapacity THEN [s EXCEPT !.live = Append(@, seq)]
    ELSE [s EXCEPT !.open = FALSE, !.lagged = TRUE]

Low(l, head) == IF head - l = RingCapacity THEN l + 1 ELSE l

Publish(x) ==
    LET seq == Len(log) + 1 IN
    /\ x \in unpublished
    /\ unpublished' = unpublished \ {x}
    /\ log' = Append(log, x) /\ low' = Low(low, seq)
    /\ stream' = [c \in Clients |-> Offered(stream[c], seq)]
    /\ UNCHANGED <<committed, epoch, closed, client>>

-----------------------------------------------------------------------------
(* The seqs after since that the ring retains, oldest first.                   *)
Replay_Inclusive(since) ==
    LET from == IF since < low THEN low - 1 ELSE since - 1 IN
    [at |-> from, replay |-> [i \in 1..(Len(log) - from) |-> from + i]]
Replay(since) ==
    LET from == IF since < low THEN low - 1 ELSE since IN
    [at |-> from, replay |-> [i \in 1..(Len(log) - from) |-> from + i]]

NewStream(since) ==
    [at |-> Replay(since).at, replay |-> Replay(since).replay, live |-> << >>,
     open |-> TRUE, lagged |-> FALSE, boundary |-> since = 0]

(* The stream handed out once the bus is closed: it stands nowhere, and ends.  *)
TerminalStream(since) ==
    [at |-> -1, replay |-> << >>, live |-> << >>,
     open |-> FALSE, lagged |-> FALSE, boundary |-> since = 0]

Underflow(since, reqEpoch) ==
    since > 0 /\ (reqEpoch # epoch \/ since > Len(log) \/ since + 1 < low)

Resynced_KeepsCursor(c) == client' = [client EXCEPT ![c].epoch = 0]
Resynced(c) == client' = [client EXCEPT ![c] = NoClient]

Subscribe(c) ==
    LET since == client[c].cursor IN
    /\ stream[c] = Nil
    /\ \/ closed /\ stream' = [stream EXCEPT ![c] = TerminalStream(since)] /\ UNCHANGED client
       \/ /\ ~closed /\ Underflow(since, client[c].epoch)
          /\ Resynced(c) /\ UNCHANGED stream
       \/ /\ ~closed /\ ~Underflow(since, client[c].epoch)
          /\ stream' = [stream EXCEPT ![c] = NewStream(since)] /\ UNCHANGED client
    /\ UNCHANGED <<committed, unpublished, bus>>

(* The boundary frame of a cold start: the client reads the store through it,  *)
(* already subscribed.  A read that fails ends the stream, the cursor still 0. *)
Boundary_NoRead(c) ==
    /\ stream[c] # Nil /\ stream[c].boundary
    /\ stream' = [stream EXCEPT ![c].boundary = FALSE]
    /\ client' = [client EXCEPT ![c] = [@ EXCEPT !.epoch = epoch]]
    /\ UNCHANGED <<committed, unpublished, bus>>
Boundary(c) ==
    /\ stream[c] # Nil /\ stream[c].boundary
    /\ stream' = [stream EXCEPT ![c].boundary = FALSE]
    /\ client' = [client EXCEPT ![c] = [@ EXCEPT !.epoch = epoch, !.view = committed \cap Visible[c]]]
    /\ UNCHANGED <<committed, unpublished, bus>>

(* One event of the replay, then of the live tail.  One the client may not see *)
(* is passed over and leaves its cursor where it was.                          *)
Received(k, c, seq) ==
    IF log[seq] \notin Visible[c] THEN k
    ELSE [k EXCEPT !.cursor = IF seq > @ THEN seq ELSE @, !.epoch = epoch, !.view = @ \union {log[seq]}]

Forward(c) ==
    LET s == stream[c] IN
    /\ s # Nil /\ ~s.boundary
    /\ \/ /\ s.replay # << >>
          /\ stream' = [stream EXCEPT ![c] = [s EXCEPT !.replay = Tail(@), !.at = Head(s.replay)]]
          /\ client' = [client EXCEPT ![c] = Received(@, c, Head(s.replay))]
       \/ /\ s.replay = << >> /\ s.live # << >>
          /\ stream' = [stream EXCEPT ![c] = [s EXCEPT !.live = Tail(@), !.at = Head(s.live)]]
          /\ client' = [client EXCEPT ![c] = Received(@, c, Head(s.live))]
    /\ UNCHANGED <<committed, unpublished, bus>>

(* The live channel is closed and drained: a lagged stream ends with a resync, *)
(* one the bus closed ends silently.                                           *)
StreamEnd(c) ==
    LET s == stream[c] IN
    /\ s # Nil /\ ~s.open /\ ~s.boundary /\ s.replay = << >> /\ s.live = << >>
    /\ stream' = [stream EXCEPT ![c] = Nil]
    /\ IF s.lagged THEN Resynced(c) ELSE UNCHANGED client
    /\ UNCHANGED <<committed, unpublished, bus>>

(* The client hangs up, a send fails, or a visibility read does.               *)
HangUp(c) ==
    /\ stream[c] # Nil
    /\ stream' = [stream EXCEPT ![c] = Nil]
    /\ UNCHANGED <<committed, unpublished, bus, client>>

-----------------------------------------------------------------------------
Close ==
    /\ ~closed /\ closed' = TRUE
    /\ stream' = [c \in Clients |-> IF stream[c] = Nil THEN Nil ELSE [stream[c] EXCEPT !.open = FALSE]]
    /\ UNCHANGED <<committed, unpublished, log, low, epoch, client>>

(* The process ends, closed or not, and another boots with an empty ring.      *)
Restart ==
    /\ log' = << >> /\ low' = 1 /\ epoch' = epoch + 1 /\ closed' = FALSE
    /\ unpublished' = {}
    /\ stream' = [c \in Clients |-> Nil]
    /\ UNCHANGED <<committed, client>>

Reads(c) == Subscribe(c) \/ Boundary(c) \/ Forward(c) \/ StreamEnd(c)
Next ==
    \/ \E x \in Changes : Commit(x) \/ Publish(x)
    \/ \E c \in Clients : Reads(c) \/ HangUp(c)
    \/ Close \/ Restart

Spec == Init /\ [][Next]_vars

(* A handler publishes what it committed, a client keeps subscribing and       *)
(* reading; nobody has to commit, hang up, close or restart.                   *)
Fairness ==
    /\ \A x \in Changes : WF_vars(Publish(x))
    /\ \A c \in Clients : WF_vars(Reads(c))

-----------------------------------------------------------------------------
(* The type invariant.                                                         *)
TypeOK ==
    /\ committed \subseteq Changes /\ unpublished \subseteq committed
    /\ log \in Seq(committed) /\ low \in 1..(Len(log) + 1)
    /\ epoch \in Nat \ {0} /\ closed \in BOOLEAN
    /\ stream \in [Clients -> Streams \union {Nil}]
    /\ client \in [Clients -> [cursor : Nat, epoch : 0..epoch, view : SUBSET committed]]
    /\ \A c \in Clients : stream[c] # Nil => Len(stream[c].live) <= BufferCapacity

(* What a stream still holds is exactly the run of events after the one it     *)
(* forwarded last, up to the newest while it is open: the handoff from replay  *)
(* to live and the drop of a lagged stream leave no gap and no repeat.         *)
Last(s) == s.at + Len(s.replay) + Len(s.live)
Run(s, head) ==
    /\ \A i \in 1..Len(s.replay) : s.replay[i] = s.at + i
    /\ \A i \in 1..Len(s.live) : s.live[i] = s.at + Len(s.replay) + i
    /\ Last(s) <= head
    /\ s.open => Last(s) = head
Consecutive == \A c \in Clients : stream[c] # Nil => Run(stream[c], Len(log))

(* Where a client stands in this boot's events; -1 when it has to start again. *)
Position(c) ==
    IF stream[c] # Nil /\ stream[c].at # -1 THEN stream[c].at
    ELSE IF client[c].cursor > 0 /\ client[c].epoch = epoch THEN client[c].cursor
    ELSE -1

Feed == INSTANCE EventFeed WITH pos <- [c \in Clients |-> Position(c)]
(* The streams, buffers and reconnects implement the promised feed.            *)
FeedSpec == Feed!Spec

(* A client that read the store in this boot misses only changes nobody has *)
(* published yet, or that lie ahead of it: events are either in the store when *)
(* it reads or on the stream it opened before.                                 *)
Ahead(c, x) == \E i \in DOMAIN log : log[i] = x /\ i > Position(c)
Synced(c) == Position(c) # -1 /\ (stream[c] # Nil => ~stream[c].boundary)
NothingMissed ==
    \A c \in Clients : Synced(c) =>
       \A x \in (committed \cap Visible[c]) \ client[c].view : x \in unpublished \/ Ahead(c, x)

(* Once the faults stop, every client knows every change it may see, unless    *)
(* the Server is shutting down: a lagged or evicted client is told, comes back *)
(* and is made whole.                                                          *)
EventuallyKnown ==
    []<>(closed \/ \A c \in Clients : committed \cap Visible[c] \subseteq client[c].view)
=============================================================================
