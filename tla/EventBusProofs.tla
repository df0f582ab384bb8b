--------------------------- MODULE EventBusProofs ---------------------------
(* The event bus implements the feed it promises, and misses nothing, for any  *)
(* clients, changes, visibility and capacities.                                *)
EXTENDS EventBus, TLAPS

(* A stream of a closed bus holds nothing; a boundary is only pending on a     *)
(* cold start; a positioned cursor under a stream belongs to this boot.        *)
StreamInv(c) ==
    stream[c] # Nil =>
       /\ stream[c].at = -1 =>
            stream[c].replay = << >> /\ stream[c].live = << >> /\ ~stream[c].open /\ ~stream[c].lagged
       /\ stream[c].boundary => client[c].cursor = 0
       /\ stream[c].at # -1 /\ client[c].cursor > 0 => client[c].epoch = epoch

(* A cursor of this boot lags the client's position only over events that it   *)
(* may not see.                                                                *)
Current(c) == client[c].cursor > 0 /\ client[c].epoch = epoch
CursorInv(c) ==
    Current(c) =>
       /\ client[c].cursor <= Position(c) /\ Position(c) <= Len(log)
       /\ \A i \in (client[c].cursor + 1)..Position(c) : log[i] \notin Visible[c]

BusInv ==
    /\ TypeOK /\ Consecutive
    /\ \A c \in Clients : StreamInv(c) /\ CursorInv(c)
    /\ NothingMissed

FeedStep == Feed!Next \/ UNCHANGED Feed!feed

-----------------------------------------------------------------------------
(* A client stands at an event of the log, or nowhere.                         *)
LEMMA PositionType ==
    ASSUME BusInv, NEW c \in Clients
    PROVE  Position(c) \in Nat \union {-1} /\ Position(c) <= Len(log)
<1>1. stream[c] \in Streams \union {Nil} /\ client[c].cursor \in Nat /\ Len(log) \in Nat
  BY DEF BusInv, TypeOK
<1>2. CASE stream[c] # Nil /\ stream[c].at # -1
  <2>1. Position(c) = stream[c].at /\ stream[c].at \in Nat /\ Len(stream[c].replay) \in Nat /\ Len(stream[c].live) \in Nat
    BY <1>1, <1>2 DEF Position, Streams
  <2>2. Last(stream[c]) <= Len(log)
    BY <1>2 DEF BusInv, Consecutive, Run
  <2> QED BY <1>1, <2>1, <2>2 DEF Last
<1>3. CASE ~(stream[c] # Nil /\ stream[c].at # -1)
  BY <1>1, <1>3 DEF BusInv, CursorInv, Current, Position
<1> QED BY <1>2, <1>3

(* Init establishes the invariant and maps to the feed's initial state.        *)
LEMMA BusInit == Init => BusInv /\ Feed!Init
<1> SUFFICES ASSUME Init PROVE BusInv /\ Feed!Init
  OBVIOUS
<1>1. TypeOK
  <2>1. << >> \in Seq(committed) /\ Len(<< >>) = 0
    OBVIOUS
  <2>2. NoClient \in [cursor : Nat, epoch : 0..epoch, view : SUBSET committed]
    BY DEF Init, NoClient
  <2>3. client \in [Clients -> [cursor : Nat, epoch : 0..epoch, view : SUBSET committed]]
    BY <2>2 DEF Init
  <2>4. log \in Seq(committed) /\ low \in 1..(Len(log) + 1)
    BY <2>1 DEF Init
  <2>5. stream \in [Clients -> Streams \union {Nil}] /\ \A c \in Clients : stream[c] = Nil
    BY DEF Init
  <2>6. committed \subseteq Changes /\ unpublished \subseteq committed
    BY DEF Init
  <2>7. epoch \in Nat \ {0}
    BY DEF Init
  <2>8. closed \in BOOLEAN
    BY DEF Init
  <2> QED BY <2>3, <2>4, <2>5, <2>6, <2>7, <2>8 DEF TypeOK
<1>2. \A c \in Clients : stream[c] = Nil /\ client[c].cursor = 0 /\ Position(c) = -1
  BY DEF Init, NoClient, Position
<1>3. BusInv
  BY <1>1, <1>2 DEF BusInv, Consecutive, StreamInv, CursorInv, Current, NothingMissed, Synced
<1>4. Feed!Init
  BY <1>2 DEF Init, Feed!Init
<1> QED BY <1>3, <1>4

-----------------------------------------------------------------------------
(* What a step that leaves the log alone has to show of the one client d it is *)
(* about.                                                                      *)
LEMMA OneClient ==
    ASSUME BusInv, TypeOK', NEW d \in Clients,
           UNCHANGED <<committed, unpublished, log, epoch>>,
           \A c \in Clients \ {d} : stream'[c] = stream[c] /\ client'[c] = client[c],
           stream'[d] # Nil => Run(stream'[d], Len(log)),
           StreamInv(d)', CursorInv(d)',
           Synced(d)' =>
              \A x \in (committed \cap Visible[d]) \ client'[d].view : x \in unpublished \/ Ahead(d, x)'
    PROVE  BusInv' /\ \A c \in Clients \ {d} : Position(c)' = Position(c)
<1>1. \A c \in Clients \ {d} : Position(c)' = Position(c)
  BY DEF Position
<1>2. Consecutive'
  BY DEF BusInv, Consecutive
<1>3. ASSUME NEW c \in Clients PROVE StreamInv(c)' /\ CursorInv(c)'
  <2>1. CASE c = d
    BY <2>1
  <2>2. CASE c # d
    <3>1. StreamInv(c) /\ CursorInv(c) /\ Position(c)' = Position(c)
      BY <1>1, <2>2 DEF BusInv
    <3>2. stream'[c] = stream[c] /\ client'[c] = client[c] /\ epoch' = epoch /\ log' = log
      BY <2>2
    <3>3. StreamInv(c)'
      BY <3>1, <3>2 DEF StreamInv
    <3>4. CursorInv(c)'
      BY <3>1, <3>2 DEF CursorInv, Current
    <3> QED BY <3>3, <3>4
  <2> QED BY <2>1, <2>2
<1>4. NothingMissed'
  <2> SUFFICES ASSUME NEW c \in Clients, Synced(c)',
                      NEW x \in (committed \cap Visible[c]) \ client'[c].view
               PROVE  x \in unpublished \/ Ahead(c, x)'
    BY DEF NothingMissed
  <2>1. CASE c = d
    BY <2>1
  <2>2. CASE c # d
    <3>1. Position(c)' = Position(c) /\ Synced(c)
      BY <1>1, <2>2 DEF Synced
    <3>2. x \in unpublished \/ Ahead(c, x)
      BY <2>2, <3>1 DEF BusInv, NothingMissed
    <3> QED BY <3>1, <3>2 DEF Ahead
  <2> QED BY <2>1, <2>2
<1> QED BY <1>1, <1>2, <1>3, <1>4 DEF BusInv

(* A move of one client is a step of the feed.                                 *)
LEMMA OneMove ==
    ASSUME NEW d \in Clients, UNCHANGED log,
           \A c \in Clients \ {d} : Position(c)' = Position(c),
           \/ Position(d)' = Position(d)
           \/ Position(d) \in 0..(Len(log) - 1) /\ Position(d)' = Position(d) + 1
           \/ /\ Position(d) > 0 /\ Position(d)' \in 0..Position(d)
              /\ \A i \in (Position(d)' + 1)..Position(d) : log[i] \notin Visible[d]
           \/ Position(d) = -1 /\ Position(d)' \in 0..Len(log)
           \/ Position(d) # -1 /\ Position(d)' = -1
    PROVE  FeedStep
<1> DEFINE P == [c \in Clients |-> Position(c)]
<1>1. P' = [P EXCEPT ![d] = Position(d)'] /\ P[d] = Position(d)
  OBVIOUS
<1>2. Feed!Moved(d, Position(d)')
  BY <1>1 DEF Feed!Moved
<1>3. CASE Position(d)' = Position(d)
  <2>1. P' = P
    BY <1>3
  <2> QED BY <2>1 DEF FeedStep, Feed!feed
<1>4. CASE Position(d) \in 0..(Len(log) - 1) /\ Position(d)' = Position(d) + 1
  <2>1. Feed!Advance(d)
    BY <1>1, <1>2, <1>4 DEF Feed!Advance
  <2> QED BY <2>1 DEF FeedStep, Feed!Next
<1>5. CASE /\ Position(d) > 0 /\ Position(d)' \in 0..Position(d)
           /\ \A i \in (Position(d)' + 1)..Position(d) : log[i] \notin Visible[d]
  <2>1. Feed!Rewind(d)
    BY <1>1, <1>2, <1>5 DEF Feed!Rewind
  <2> QED BY <2>1 DEF FeedStep, Feed!Next
<1>6. CASE Position(d) = -1 /\ Position(d)' \in 0..Len(log)
  <2>1. Feed!Start(d)
    BY <1>1, <1>2, <1>6 DEF Feed!Start
  <2> QED BY <2>1 DEF FeedStep, Feed!Next
<1>7. CASE Position(d) # -1 /\ Position(d)' = -1
  <2>1. Feed!Lose(d)
    BY <1>1, <1>2, <1>7 DEF Feed!Lose
  <2> QED BY <2>1 DEF FeedStep, Feed!Next
<1> QED BY <1>3, <1>4, <1>5, <1>6, <1>7

-----------------------------------------------------------------------------
(* A stream that ends without a resync puts its client back over events it may *)
(* not see, or loses it.                                                       *)
LEMMA EndedSilently ==
    ASSUME BusInv, NEW d \in Clients, stream[d] # Nil,
           stream' = [stream EXCEPT ![d] = Nil],
           UNCHANGED <<committed, unpublished, bus, client>>
    PROVE  BusInv' /\ FeedStep
<1>1. stream'[d] = Nil /\ \A c \in Clients \ {d} : stream'[c] = stream[c]
  BY DEF BusInv, TypeOK
<1>2. TypeOK'
  BY DEF BusInv, TypeOK, bus
<1>3. Position(d) \in Nat \union {-1} /\ Position(d) <= Len(log) /\ client[d].cursor \in Nat /\ Len(log) \in Nat
  BY PositionType DEF BusInv, TypeOK
<1>4. StreamInv(d) /\ CursorInv(d) /\ StreamInv(d)'
  BY <1>1 DEF BusInv, StreamInv
<1>5. Position(d)' = IF Current(d) THEN client[d].cursor ELSE -1
  BY <1>1 DEF Position, Current, bus
<1>6. CursorInv(d)'
  BY <1>3, <1>4, <1>5 DEF CursorInv, Current, bus
<1>7. ASSUME Synced(d)', NEW x \in (committed \cap Visible[d]) \ client[d].view
      PROVE  x \in unpublished \/ Ahead(d, x)'
  <2>1. Current(d) /\ Position(d)' <= Position(d) /\ Position(d)' = client[d].cursor
    BY <1>3, <1>4, <1>5, <1>7 DEF Synced, CursorInv
  <2>2. client[d].cursor > 0 /\ Position(d) # -1
    BY <1>3, <2>1 DEF Current
  <2>3. Synced(d)
    BY <1>4, <2>2 DEF StreamInv, Synced
  <2>4. x \in unpublished \/ Ahead(d, x)
    BY <1>7, <2>3 DEF BusInv, NothingMissed
  <2>5. \A i \in DOMAIN log : i \in Nat
    BY DEF BusInv, TypeOK
  <2> QED BY <1>3, <2>1, <2>4, <2>5 DEF Ahead, bus
<1>8. BusInv' /\ \A c \in Clients \ {d} : Position(c)' = Position(c)
  BY <1>1, <1>2, <1>4, <1>6, <1>7, OneClient DEF bus
<1>9. FeedStep
  <2>1. \/ Position(d)' = Position(d)
        \/ /\ Position(d) > 0 /\ Position(d)' \in 0..Position(d)
           /\ \A i \in (Position(d)' + 1)..Position(d) : log[i] \notin Visible[d]
        \/ Position(d) # -1 /\ Position(d)' = -1
    BY <1>3, <1>4, <1>5 DEF CursorInv, Current
  <2> QED BY <1>8, <2>1, OneMove DEF bus
<1> QED BY <1>8, <1>9

(* A resync takes the client back to the start.                                *)
LEMMA Resyncs ==
    ASSUME BusInv, NEW d \in Clients, Resynced(d),
           stream' = [stream EXCEPT ![d] = Nil],
           UNCHANGED <<committed, unpublished, bus>>
    PROVE  BusInv' /\ FeedStep
<1>1. stream'[d] = Nil /\ \A c \in Clients \ {d} : stream'[c] = stream[c] /\ client'[c] = client[c]
  BY DEF BusInv, TypeOK, Resynced
<1>2. client'[d] = NoClient /\ client'[d].cursor = 0
  BY DEF BusInv, TypeOK, Resynced, NoClient
<1>3. TypeOK'
  <2>1. NoClient \in [cursor : Nat, epoch : 0..epoch, view : SUBSET committed]
    BY DEF NoClient, BusInv, TypeOK
  <2> QED BY <2>1 DEF BusInv, TypeOK, bus, Resynced
<1>4. Position(d)' = -1
  BY <1>1, <1>2 DEF Position
<1>5. StreamInv(d)' /\ CursorInv(d)' /\ ~Synced(d)'
  BY <1>1, <1>2, <1>4 DEF StreamInv, CursorInv, Current, Synced
<1>6. BusInv' /\ \A c \in Clients \ {d} : Position(c)' = Position(c)
  BY <1>1, <1>3, <1>5, OneClient DEF bus
<1>7. FeedStep
  BY <1>4, <1>6, OneMove DEF bus
<1> QED BY <1>6, <1>7

LEMMA HangUpStep == ASSUME BusInv, NEW d \in Clients, HangUp(d) PROVE BusInv' /\ FeedStep
BY EndedSilently DEF HangUp

LEMMA StreamEndStep == ASSUME BusInv, NEW d \in Clients, StreamEnd(d) PROVE BusInv' /\ FeedStep
BY EndedSilently, Resyncs DEF StreamEnd

-----------------------------------------------------------------------------
(* Subscribing resyncs, opens a stream where the cursor stood or at the oldest *)
(* retained event, or gets a stream that stands nowhere.                       *)
LEMMA SubscribeStep == ASSUME BusInv, NEW d \in Clients, Subscribe(d) PROVE BusInv' /\ FeedStep
<1> DEFINE since == client[d].cursor
<1>1. /\ stream[d] = Nil /\ since \in Nat /\ Len(log) \in Nat /\ low \in 1..(Len(log) + 1)
      /\ stream \in [Clients -> Streams \union {Nil}] /\ client \in [Clients -> [cursor : Nat, epoch : 0..epoch, view : SUBSET committed]]
  BY DEF Subscribe, BusInv, TypeOK
<1>2. Position(d) = IF Current(d) THEN since ELSE -1
  BY <1>1 DEF Position, Current
<1>3. CASE closed /\ stream' = [stream EXCEPT ![d] = TerminalStream(since)] /\ UNCHANGED client
  <2>1. stream'[d] = TerminalStream(since) /\ \A c \in Clients \ {d} : stream'[c] = stream[c] /\ client'[c] = client[c]
    BY <1>1, <1>3
  <2>2. TerminalStream(since) \in Streams /\ Len(<< >>) = 0
    BY <1>1 DEF TerminalStream, Streams
  <2>3. TypeOK'
    <3>1. stream' \in [Clients -> Streams \union {Nil}]
      BY <1>1, <1>3, <2>2
    <3>2. \A c \in Clients : stream'[c] # Nil => Len(stream'[c].live) <= BufferCapacity
      <4>1. Len(stream'[d].live) <= BufferCapacity
        BY <2>1, <2>2, CapacityAssumption DEF TerminalStream
      <4>2. \A c \in Clients : stream[c] # Nil => Len(stream[c].live) <= BufferCapacity
        BY DEF BusInv, TypeOK
      <4> QED BY <2>1, <4>1, <4>2
    <3> QED BY <1>3, <3>1, <3>2 DEF BusInv, TypeOK, Subscribe, bus
  <2>4. Position(d)' = Position(d)
    BY <1>1, <1>3, <2>1 DEF Position, TerminalStream, Subscribe, bus
  <2>5. StreamInv(d)' /\ CursorInv(d)'
    <3>1. CursorInv(d)
      BY DEF BusInv
    <3>2. CursorInv(d)'
      BY <1>3, <2>4, <3>1 DEF CursorInv, Current, Subscribe, bus
    <3> DEFINE t == TerminalStream(since)
    <3>3. /\ t.at = -1 /\ t.replay = << >> /\ t.live = << >>
          /\ ~t.open /\ ~t.lagged /\ (t.boundary <=> since = 0)
      BY DEF TerminalStream
    <3>4. stream'[d] = t
      BY <2>1
    <3> HIDE DEF t
    <3> QED BY <1>3, <3>2, <3>3, <3>4 DEF StreamInv
  <2>6. Run(stream'[d], Len(log))
    BY <1>1, <2>1, <2>2 DEF TerminalStream, Last, Run
  <2>7. ASSUME Synced(d)', NEW x \in (committed \cap Visible[d]) \ client'[d].view
        PROVE  x \in unpublished \/ Ahead(d, x)'
    <3>1. Synced(d)
      BY <1>1, <2>4, <2>7 DEF Synced
    <3>2. x \in unpublished \/ Ahead(d, x)
      BY <1>3, <2>7, <3>1 DEF BusInv, NothingMissed
    <3> QED BY <2>4, <3>2 DEF Ahead, Subscribe, bus
  <2>8. BusInv' /\ \A c \in Clients \ {d} : Position(c)' = Position(c)
    BY <2>1, <2>3, <2>5, <2>6, <2>7, OneClient DEF Subscribe, bus
  <2> QED BY <2>4, <2>8, OneMove DEF Subscribe, bus
<1>4. CASE ~closed /\ Resynced(d) /\ UNCHANGED stream
  <2>1. stream' = [stream EXCEPT ![d] = Nil]
    BY <1>1, <1>4
  <2> QED BY <1>4, <2>1, Resyncs DEF Subscribe
<1>5. CASE ~closed /\ ~Underflow(since, client[d].epoch) /\ stream' = [stream EXCEPT ![d] = NewStream(since)] /\ UNCHANGED client
  <2> DEFINE from == IF since < low THEN low - 1 ELSE since
             s == NewStream(since)
  <2>1. /\ stream'[d] = s
        /\ \A c \in Clients \ {d} : stream'[c] = stream[c] /\ client'[c] = client[c]
    BY <1>1, <1>5
  <2>2. /\ since > 0 => from = since /\ Current(d) /\ since <= Len(log)
        /\ since = 0 => from = low - 1
        /\ from \in 0..Len(log)
    BY <1>1, <1>5 DEF Underflow, Current
  <2>3. /\ s.at = from /\ s.replay = [i \in 1..(Len(log) - from) |-> from + i] /\ s.live = << >>
        /\ s.open /\ ~s.lagged /\ (s.boundary <=> since = 0)
    BY DEF NewStream, Replay
  <2>4. /\ [i \in 1..(Len(log) - from) |-> from + i] \in Seq(Nat)
        /\ Len([i \in 1..(Len(log) - from) |-> from + i]) = Len(log) - from
        /\ Len(<< >>) = 0
    <3> HIDE DEF from
    <3> QED BY <1>1, <2>2
  <2>5. s \in Streams
    BY <1>1, <2>2, <2>4 DEF NewStream, Replay, Streams
  <2> HIDE DEF from, s
  <2>6. TypeOK'
    <3>1. stream' \in [Clients -> Streams \union {Nil}]
      BY <1>1, <1>5, <2>5 DEF s
    <3>2. \A c \in Clients : stream'[c] # Nil => Len(stream'[c].live) <= BufferCapacity
      <4>1. Len(stream'[d].live) <= BufferCapacity
        BY <2>1, <2>3, <2>4, CapacityAssumption
      <4>2. \A c \in Clients : stream[c] # Nil => Len(stream[c].live) <= BufferCapacity
        BY DEF BusInv, TypeOK
      <4> QED BY <2>1, <4>1, <4>2
    <3> QED BY <1>5, <3>1, <3>2 DEF BusInv, TypeOK, Subscribe, bus
  <2>7. stream'[d] # Nil /\ Position(d)' = from
    BY <2>1, <2>2, <2>3, <2>5, NilAssumption DEF Position
  <2>8. Run(stream'[d], Len(log))
    BY <1>1, <2>1, <2>2, <2>3, <2>4 DEF Last, Run
  <2>9. StreamInv(d)'
    BY <1>1, <1>5, <2>1, <2>2, <2>3 DEF StreamInv, Current, Subscribe, bus
  <2>10. CursorInv(d)'
    BY <1>1, <1>5, <2>2, <2>7 DEF CursorInv, Current, Subscribe, bus
  <2>11. ASSUME Synced(d)', NEW x \in (committed \cap Visible[d]) \ client'[d].view
         PROVE  x \in unpublished \/ Ahead(d, x)'
    <3>1. since > 0
      BY <1>1, <2>1, <2>3, <2>7, <2>11 DEF Synced
    <3>2. Position(d)' = Position(d) /\ Synced(d)
      BY <1>1, <1>2, <2>2, <2>7, <3>1 DEF Synced
    <3>3. x \in unpublished \/ Ahead(d, x)
      BY <1>5, <2>11, <3>2 DEF BusInv, NothingMissed
    <3> QED BY <3>2, <3>3 DEF Ahead, Subscribe, bus
  <2>12. BusInv' /\ \A c \in Clients \ {d} : Position(c)' = Position(c)
    BY <2>1, <2>6, <2>8, <2>9, <2>10, <2>11, OneClient DEF Subscribe, bus
  <2>13. Position(d)' = Position(d) \/ (Position(d) = -1 /\ Position(d)' \in 0..Len(log))
    BY <1>1, <1>2, <2>2, <2>7 DEF Current
  <2> QED BY <2>12, <2>13, OneMove DEF Subscribe, bus
<1> QED BY <1>3, <1>4, <1>5 DEF Subscribe

-----------------------------------------------------------------------------
(* A client's record takes this boot's epoch and a set of committed changes.   *)
LEMMA ClientRead ==
    ASSUME NEW E, NEW V, NEW k \in [cursor : Nat, epoch : E, view : V], NEW e \in E, NEW w \in V
    PROVE  [k EXCEPT !.epoch = e, !.view = w] \in [cursor : Nat, epoch : E, view : V]
OBVIOUS

(* A stream stays one when it is moved.                                        *)
LEMMA StreamMoved ==
    ASSUME NEW s \in Streams, NEW a \in Nat, NEW q \in Seq(Nat)
    PROVE  [s EXCEPT !.replay = q, !.at = a] \in Streams /\ [s EXCEPT !.live = q, !.at = a] \in Streams
BY DEF Streams

(* Reading the store through the boundary leaves nothing missing.              *)
LEMMA BoundaryStep == ASSUME BusInv, NEW d \in Clients, Boundary(d) PROVE BusInv' /\ FeedStep
<1> DEFINE s == stream[d]
           t == [s EXCEPT !.boundary = FALSE]
           k == [client[d] EXCEPT !.epoch = epoch, !.view = committed \cap Visible[d]]
<1>1. /\ s # Nil /\ s.boundary /\ s \in Streams
      /\ client[d] \in [cursor : Nat, epoch : 0..epoch, view : SUBSET committed] /\ epoch \in Nat
  BY DEF Boundary, BusInv, TypeOK
<1>2. /\ stream' = [stream EXCEPT ![d] = t] /\ client' = [client EXCEPT ![d] = k]
      /\ stream'[d] = t /\ client'[d] = k
      /\ \A c \in Clients \ {d} : stream'[c] = stream[c] /\ client'[c] = client[c]
  BY DEF Boundary, BusInv, TypeOK
<1>3. /\ t \in Streams /\ t.at = s.at /\ t.replay = s.replay /\ t.live = s.live
      /\ (t.open <=> s.open) /\ (t.lagged <=> s.lagged) /\ ~t.boundary
  BY <1>1 DEF Streams
<1>4. /\ k \in [cursor : Nat, epoch : 0..epoch, view : SUBSET committed]
      /\ k.cursor = client[d].cursor /\ k.epoch = epoch /\ k.view = committed \cap Visible[d]
  <2>1. committed \cap Visible[d] \in SUBSET committed
    OBVIOUS
  <2>2. k \in [cursor : Nat, epoch : 0..epoch, view : SUBSET committed]
    <3>1. epoch \in 0..epoch
      BY <1>1
    <3> QED BY <1>1, <2>1, <3>1, ClientRead
  <2> QED BY <1>1, <2>2
<1>5. client[d].cursor = 0 /\ StreamInv(d)
  BY <1>1 DEF BusInv, StreamInv
<1> HIDE DEF t, k
<1>6. TypeOK'
  <2>1. stream' \in [Clients -> Streams \union {Nil}] /\ client' \in [Clients -> [cursor : Nat, epoch : 0..epoch, view : SUBSET committed]]
    BY <1>2, <1>3, <1>4 DEF BusInv, TypeOK
  <2>2. \A c \in Clients : stream'[c] # Nil => Len(stream'[c].live) <= BufferCapacity
    BY <1>1, <1>2, <1>3 DEF BusInv, TypeOK
  <2> QED BY <2>1, <2>2 DEF BusInv, TypeOK, Boundary, bus
<1>7. Run(t, Len(log))
  <2>1. Run(s, Len(log))
    BY <1>1 DEF BusInv, Consecutive
  <2> QED BY <1>3, <2>1 DEF Run, Last
<1>8. StreamInv(d)' /\ CursorInv(d)'
  BY <1>1, <1>2, <1>3, <1>4, <1>5 DEF StreamInv, CursorInv, Current
<1>9. ASSUME NEW x \in (committed \cap Visible[d]) \ client'[d].view PROVE FALSE
  BY <1>2, <1>4, <1>9
<1>10. Position(d)' = Position(d)
  BY <1>1, <1>2, <1>3, <1>4, <1>5, NilAssumption DEF Position
<1>11. BusInv' /\ \A c \in Clients \ {d} : Position(c)' = Position(c)
  BY <1>2, <1>6, <1>7, <1>8, <1>9, OneClient DEF Boundary, bus
<1> QED BY <1>10, <1>11, OneMove DEF Boundary, bus

(* The tail of a run of numbers is the run after its head.                     *)
LEMMA RunTail ==
    ASSUME NEW q \in Seq(Nat), q # << >>, NEW a \in Int, \A i \in 1..Len(q) : q[i] = a + i
    PROVE  /\ Head(q) = a + 1 /\ Tail(q) \in Seq(Nat) /\ Len(q) \in Nat /\ Len(q) >= 1 /\ Len(Tail(q)) = Len(q) - 1
           /\ \A i \in 1..Len(Tail(q)) : Tail(q)[i] = a + 1 + i
<1>1. /\ Len(q) \in Nat /\ Len(q) >= 1 /\ Head(q) = q[1] /\ Tail(q) \in Seq(Nat) /\ Len(Tail(q)) = Len(q) - 1
      /\ \A i \in 1..Len(Tail(q)) : Tail(q)[i] = q[i + 1]
  OBVIOUS
<1>2. Head(q) = a + 1
  BY <1>1
<1>3. ASSUME NEW i \in 1..Len(Tail(q)) PROVE Tail(q)[i] = a + 1 + i
  <2>1. i + 1 \in 1..Len(q) /\ Tail(q)[i] = q[i + 1]
    BY <1>1
  <2> QED BY <2>1
<1> QED BY <1>1, <1>2, <1>3

(* Taking the head of the replay keeps a stream one run.                       *)
LEMMA ReplayTail ==
    ASSUME NEW s \in Streams, NEW n \in Nat, Run(s, n), s.at # -1, ~s.boundary, s.replay # << >>
    PROVE  LET t == [s EXCEPT !.replay = Tail(s.replay), !.at = Head(s.replay)] IN
           t \in Streams /\ t.at = s.at + 1 /\ t.at <= n /\ Run(t, n) /\ ~t.boundary /\ t.live = s.live
<1> DEFINE t == [s EXCEPT !.replay = Tail(s.replay), !.at = Head(s.replay)]
           a == s.at  r == s.replay  v == s.live
<1>1. a \in Nat /\ r \in Seq(Nat) /\ v \in Seq(Nat) /\ Len(r) \in Nat /\ Len(v) \in Nat
  BY DEF Streams
<1>2. /\ \A i \in 1..Len(r) : r[i] = a + i
      /\ \A i \in 1..Len(v) : v[i] = a + Len(r) + i
      /\ a + Len(r) + Len(v) <= n /\ (s.open => a + Len(r) + Len(v) = n)
  BY DEF Run, Last
<1>3. t.replay = Tail(r) /\ t.at = Head(r) /\ t.live = v /\ (t.open <=> s.open) /\ ~t.boundary
  BY DEF Streams
<1>4. Tail(r) \in Seq(Nat) /\ Head(r) = a + 1 /\ r # << >>
  BY <1>1, <1>2, RunTail
<1>5. t \in Streams
  <2>1. Head(s.replay) \in Nat
    BY <1>1, <1>4
  <2> QED BY <1>4, <2>1, StreamMoved
<1> HIDE DEF t, a, r, v
<1>6. /\ Len(r) >= 1 /\ Len(Tail(r)) = Len(r) - 1
      /\ \A i \in 1..Len(Tail(r)) : Tail(r)[i] = a + 1 + i
  BY <1>1, <1>2, <1>4, RunTail
<1>7. t.at = a + 1 /\ Len(t.replay) = Len(r) - 1 /\ Len(t.live) = Len(v)
  BY <1>3, <1>4, <1>6
<1>8. Last(t) = a + Len(r) + Len(v)
  BY <1>1, <1>7 DEF Last
<1>9. \A i \in 1..Len(t.replay) : t.replay[i] = t.at + i
  BY <1>3, <1>4, <1>6
<1>10. \A i \in 1..Len(t.live) : t.live[i] = t.at + Len(t.replay) + i
  <2>1. t.at + Len(t.replay) = a + Len(r)
    BY <1>1, <1>7
  <2> QED BY <1>2, <1>3, <2>1
<1>11. Last(t) <= n /\ (t.open => Last(t) = n) /\ t.at <= n
  BY <1>1, <1>2, <1>3, <1>6, <1>7, <1>8
<1>12. Run(t, n)
  BY <1>9, <1>10, <1>11 DEF Run
<1> QED BY <1>3, <1>4, <1>5, <1>11, <1>12 DEF t, a, v

(* Taking the head of the live buffer, the replay used up, does too.           *)
LEMMA LiveTail ==
    ASSUME NEW s \in Streams, NEW n \in Nat, Run(s, n), s.at # -1, ~s.boundary, s.replay = << >>, s.live # << >>
    PROVE  LET t == [s EXCEPT !.live = Tail(s.live), !.at = Head(s.live)] IN
           /\ t \in Streams /\ t.at = s.at + 1 /\ t.at <= n /\ Run(t, n) /\ ~t.boundary
           /\ Len(t.live) = Len(s.live) - 1 /\ Len(s.live) \in Nat
<1> DEFINE t == [s EXCEPT !.live = Tail(s.live), !.at = Head(s.live)]
           a == s.at  v == s.live
<1>1. a \in Nat /\ v \in Seq(Nat) /\ Len(s.replay) = 0 /\ Len(v) \in Nat
  BY DEF Streams
<1>2. /\ \A i \in 1..Len(v) : v[i] = a + i
      /\ a + Len(v) <= n /\ (s.open => a + Len(v) = n)
  BY <1>1 DEF Run, Last
<1>3. t.live = Tail(v) /\ t.at = Head(v) /\ t.replay = s.replay /\ (t.open <=> s.open) /\ ~t.boundary
  BY DEF Streams
<1>4. Tail(v) \in Seq(Nat) /\ Head(v) = a + 1 /\ v # << >>
  BY <1>1, <1>2, RunTail
<1>5. t \in Streams
  <2>1. Head(s.live) \in Nat
    BY <1>1, <1>4
  <2> QED BY <1>4, <2>1, StreamMoved
<1> HIDE DEF t, a, v
<1>6. /\ Len(v) >= 1 /\ Len(Tail(v)) = Len(v) - 1
      /\ \A i \in 1..Len(Tail(v)) : Tail(v)[i] = a + 1 + i
  BY <1>1, <1>2, <1>4, RunTail
<1>7. t.at = a + 1 /\ Len(t.replay) = 0 /\ Len(t.live) = Len(v) - 1
  BY <1>1, <1>3, <1>4, <1>6
<1>8. Last(t) = a + Len(v)
  BY <1>1, <1>7 DEF Last
<1>9. \A i \in 1..Len(t.live) : t.live[i] = t.at + Len(t.replay) + i
  <2>1. t.at + Len(t.replay) = a + 1
    BY <1>1, <1>7
  <2> QED BY <1>3, <1>6, <2>1
<1>10. Last(t) <= n /\ (t.open => Last(t) = n) /\ t.at <= n
  BY <1>1, <1>2, <1>3, <1>6, <1>7, <1>8
<1>11. Run(t, n)
  BY <1>7, <1>9, <1>10 DEF Run
<1> QED BY <1>1, <1>3, <1>4, <1>5, <1>7, <1>10, <1>11 DEF t, a, v

(* Forwarding takes the next event of the log, and the client learns of it if  *)
(* it may.                                                                     *)
LEMMA ForwardStep == ASSUME BusInv, NEW d \in Clients, Forward(d) PROVE BusInv' /\ FeedStep
<1> DEFINE s == stream[d]
<1>1. /\ s # Nil /\ ~s.boundary /\ s \in Streams /\ Len(log) \in Nat
      /\ client[d] \in [cursor : Nat, epoch : 0..epoch, view : SUBSET committed] /\ epoch \in Nat
      /\ log \in Seq(committed)
  BY DEF Forward, BusInv, TypeOK
<1>2. Run(s, Len(log)) /\ Len(s.live) <= BufferCapacity
  BY <1>1 DEF BusInv, Consecutive, TypeOK
<1>3. StreamInv(d) /\ CursorInv(d)
  BY DEF BusInv
<1>4. s.at # -1
  BY <1>1, <1>3 DEF StreamInv, Forward
<1>5. PICK t \in Streams :
      /\ stream' = [stream EXCEPT ![d] = t] /\ client' = [client EXCEPT ![d] = Received(client[d], d, t.at)]
      /\ s.at \in Nat /\ t.at = s.at + 1 /\ t.at <= Len(log) /\ Run(t, Len(log))
      /\ ~t.boundary /\ Len(t.live) <= BufferCapacity
  <2>1. CASE /\ s.replay # << >>
             /\ stream' = [stream EXCEPT ![d] = [s EXCEPT !.replay = Tail(@), !.at = Head(s.replay)]]
             /\ client' = [client EXCEPT ![d] = Received(@, d, Head(s.replay))]
    <3> DEFINE t == [s EXCEPT !.replay = Tail(s.replay), !.at = Head(s.replay)]
    <3>1. t \in Streams /\ t.at = s.at + 1 /\ t.at <= Len(log) /\ Run(t, Len(log)) /\ ~t.boundary /\ t.live = s.live
      BY <1>1, <1>2, <1>4, <2>1, ReplayTail
    <3>2. t.at = Head(s.replay)
      BY <1>1 DEF Streams
    <3>3. stream' = [stream EXCEPT ![d] = t] /\ client' = [client EXCEPT ![d] = Received(client[d], d, t.at)]
      BY <2>1, <3>2
    <3> HIDE DEF t
    <3> QED BY <1>1, <1>2, <1>4, <3>1, <3>3 DEF Streams
  <2>2. CASE /\ s.replay = << >> /\ s.live # << >>
             /\ stream' = [stream EXCEPT ![d] = [s EXCEPT !.live = Tail(@), !.at = Head(s.live)]]
             /\ client' = [client EXCEPT ![d] = Received(@, d, Head(s.live))]
    <3> DEFINE t == [s EXCEPT !.live = Tail(s.live), !.at = Head(s.live)]
    <3>1. /\ t \in Streams /\ t.at = s.at + 1 /\ t.at <= Len(log) /\ Run(t, Len(log)) /\ ~t.boundary
          /\ Len(t.live) = Len(s.live) - 1 /\ Len(s.live) \in Nat
      BY <1>1, <1>2, <1>4, <2>2, LiveTail
    <3>2. t.at = Head(s.live)
      BY <1>1 DEF Streams
    <3>3. stream' = [stream EXCEPT ![d] = t] /\ client' = [client EXCEPT ![d] = Received(client[d], d, t.at)]
      BY <2>2, <3>2
    <3> HIDE DEF t
    <3>4. Len(t.live) <= BufferCapacity
      BY <1>2, <3>1, CapacityAssumption
    <3> QED BY <1>1, <1>4, <3>1, <3>3, <3>4 DEF Streams
  <2> QED BY <2>1, <2>2 DEF Forward
<1> DEFINE k == Received(client[d], d, t.at)
<1>6. log[t.at] \in committed /\ t.at \in Nat /\ t.at > 0
  BY <1>1, <1>5
<1>7. client[d].cursor > 0 => Current(d) /\ client[d].cursor <= s.at /\ \A i \in (client[d].cursor + 1)..s.at : log[i] \notin Visible[d]
  BY <1>1, <1>3, <1>5, SMTT(30) DEF StreamInv, CursorInv, Current, Position
<1>8. /\ k \in [cursor : Nat, epoch : 0..epoch, view : SUBSET committed]
      /\ log[t.at] \in Visible[d] => k.cursor = t.at /\ k.epoch = epoch /\ k.view = client[d].view \union {log[t.at]}
      /\ log[t.at] \notin Visible[d] => k = client[d]
  <2>1. CASE log[t.at] \notin Visible[d]
    BY <1>1, <2>1 DEF Received
  <2>2. CASE log[t.at] \in Visible[d]
    <3>1. t.at > client[d].cursor
      BY <1>1, <1>5, <1>6, <1>7
    <3>2. k = [client[d] EXCEPT !.cursor = t.at, !.epoch = epoch, !.view = client[d].view \union {log[t.at]}]
      BY <2>2, <3>1 DEF Received
    <3> HIDE DEF k
    <3>3. k.cursor = t.at /\ k.epoch = epoch /\ k.view = client[d].view \union {log[t.at]}
      BY <1>1, <3>2
    <3>4. k \in [cursor : Nat, epoch : 0..epoch, view : SUBSET committed]
      <4>1. epoch \in 0..epoch /\ client[d].view \in SUBSET committed
        BY <1>1
      <4>2. client[d].view \union {log[t.at]} \in SUBSET committed
        BY <1>6, <4>1
      <4>3. k = [cursor |-> t.at, epoch |-> epoch, view |-> client[d].view \union {log[t.at]}]
        BY <1>1, <3>2
      <4> QED BY <1>6, <4>1, <4>2, <4>3
    <3> QED BY <2>2, <3>3, <3>4
  <2> QED BY <2>1, <2>2
<1> HIDE DEF k
<1>9. /\ stream'[d] = t /\ client'[d] = k
      /\ \A c \in Clients \ {d} : stream'[c] = stream[c] /\ client'[c] = client[c]
      /\ UNCHANGED <<committed, unpublished, log, low, epoch, closed>>
  BY <1>5 DEF BusInv, TypeOK, k, Forward, bus
<1>10. TypeOK'
  <2>1. stream' \in [Clients -> Streams \union {Nil}] /\ client' \in [Clients -> [cursor : Nat, epoch : 0..epoch, view : SUBSET committed]]
    BY <1>5, <1>8 DEF BusInv, TypeOK, k
  <2>2. \A c \in Clients : stream'[c] # Nil => Len(stream'[c].live) <= BufferCapacity
    BY <1>5, <1>9 DEF BusInv, TypeOK
  <2> QED BY <1>9, <2>1, <2>2 DEF BusInv, TypeOK
<1>11. Position(d) = s.at /\ Position(d)' = t.at
  BY <1>1, <1>5, <1>6, <1>9, NilAssumption DEF Position
<1>12. StreamInv(d)'
  BY <1>5, <1>6, <1>7, <1>8, <1>9, SMTT(30) DEF StreamInv, Current
<1>13. CursorInv(d)'
  BY <1>1, <1>5, <1>6, <1>7, <1>8, <1>9, <1>11, SMTT(30) DEF CursorInv, Current
<1>14. ASSUME NEW x \in (committed \cap Visible[d]) \ client'[d].view
       PROVE  x \in unpublished \/ Ahead(d, x)'
  <2>1. x \notin client[d].view /\ x # log[t.at]
    BY <1>8, <1>9, <1>14
  <2>2. Synced(d)
    BY <1>1, <1>5, <1>11 DEF Synced
  <2>3. x \in unpublished \/ Ahead(d, x)
    BY <1>14, <2>1, <2>2 DEF BusInv, NothingMissed
  <2>4. \A i \in DOMAIN log : i \in Nat
    BY <1>1
  <2> QED BY <1>5, <1>6, <1>9, <1>11, <2>1, <2>3, <2>4 DEF Ahead
<1>15. BusInv' /\ \A c \in Clients \ {d} : Position(c)' = Position(c)
  BY <1>5, <1>9, <1>10, <1>12, <1>13, <1>14, OneClient
<1>16. Position(d) \in 0..(Len(log) - 1) /\ Position(d)' = Position(d) + 1
  BY <1>1, <1>5, <1>11
<1> QED BY <1>9, <1>15, <1>16, OneMove

-----------------------------------------------------------------------------
(* A commit is the store's alone.                                              *)
LEMMA CommitStep == ASSUME BusInv, NEW x \in Changes, Commit(x) PROVE BusInv' /\ FeedStep
<1>1. /\ committed' = committed \union {x} /\ unpublished' = unpublished \union {x}
      /\ UNCHANGED <<log, low, epoch, closed, stream, client>>
  BY DEF Commit, bus
<1>2. \A c \in Clients : Position(c)' = Position(c)
  BY <1>1 DEF Position
<1>3. TypeOK'
  <2>1. log' \in Seq(committed')
    <3>1. log \in Seq(committed) /\ committed \subseteq committed'
      BY <1>1 DEF BusInv, TypeOK
    <3> QED BY <1>1, <3>1
  <2>2. client' \in [Clients -> [cursor : Nat, epoch : 0..epoch', view : SUBSET committed']]
    <3>1. client \in [Clients -> [cursor : Nat, epoch : 0..epoch, view : SUBSET committed]]
      BY DEF BusInv, TypeOK
    <3>2. SUBSET committed \subseteq SUBSET committed'
      BY <1>1
    <3> HIDE <1>1
    <3>3. client \in [Clients -> [cursor : Nat, epoch : 0..epoch, view : SUBSET committed']]
      BY <3>1, <3>2
    <3> QED BY <1>1, <3>3
  <2> QED BY <1>1, <2>1, <2>2 DEF BusInv, TypeOK
<1>4. Consecutive' /\ \A c \in Clients : StreamInv(c)' /\ CursorInv(c)'
  <2>1. Consecutive'
    BY <1>1 DEF BusInv, Consecutive
  <2>2. ASSUME NEW c \in Clients PROVE StreamInv(c)' /\ CursorInv(c)'
    <3>1. StreamInv(c) /\ CursorInv(c)
      BY DEF BusInv
    <3>2. StreamInv(c)'
      BY <1>1, <3>1 DEF StreamInv
    <3>3. CursorInv(c)'
      BY <1>1, <1>2, <3>1 DEF CursorInv, Current
    <3> QED BY <3>2, <3>3
  <2> QED BY <2>1, <2>2
<1>5. NothingMissed'
  <2> SUFFICES ASSUME NEW c \in Clients, Synced(c)', NEW y \in (committed' \cap Visible[c]) \ client'[c].view
               PROVE  y \in unpublished' \/ Ahead(c, y)'
    BY DEF NothingMissed
  <2>1. Synced(c)
    BY <1>1, <1>2 DEF Synced
  <2>2. y = x \/ y \in unpublished \/ Ahead(c, y)
    BY <1>1, <2>1 DEF BusInv, NothingMissed
  <2>3. Ahead(c, y) => Ahead(c, y)'
    BY <1>1, <1>2 DEF Ahead
  <2> QED BY <1>1, <2>2, <2>3
<1>6. FeedStep
  BY <1>1, <1>2 DEF FeedStep, Feed!feed
<1> QED BY <1>3, <1>4, <1>5, <1>6 DEF BusInv

(* What is offered to a stream extends its run, or closes it.                  *)
LEMMA OfferedRun ==
    ASSUME NEW s \in Streams, NEW n \in Nat, Run(s, n), Len(s.live) <= BufferCapacity
    PROVE  LET t == Offered(s, n + 1) IN
           /\ t \in Streams /\ Run(t, n + 1) /\ Len(t.live) <= BufferCapacity
           /\ t.at = s.at /\ (t.boundary <=> s.boundary)
           /\ t.replay = s.replay /\ (~s.open => t = s)
<1> DEFINE t == Offered(s, n + 1)
<1>1. /\ s.at \in Nat \union {-1} /\ s.replay \in Seq(Nat) /\ s.live \in Seq(Nat)
      /\ Len(s.replay) \in Nat /\ Len(s.live) \in Nat
  BY DEF Streams
<1>2. s # Nil
  BY NilAssumption
<1>3. /\ \A i \in 1..Len(s.replay) : s.replay[i] = s.at + i
      /\ \A i \in 1..Len(s.live) : s.live[i] = s.at + Len(s.replay) + i
      /\ s.at + Len(s.replay) + Len(s.live) <= n
      /\ s.open => s.at + Len(s.replay) + Len(s.live) = n
  BY DEF Run, Last
<1>4. CASE ~s.open
  <2>1. t = s
    BY <1>4 DEF Offered
  <2>2. Last(s) \in Int /\ Last(s) <= n
    BY <1>1, <1>3, SMTT(30) DEF Last
  <2>3. Last(s) <= n + 1
    BY <2>2
  <2>4. Run(s, n + 1)
    BY <1>4, <2>3 DEF Run
  <2> QED BY <2>1, <2>4
<1>5. CASE s.open /\ Len(s.live) < BufferCapacity
  <2> DEFINE v == Append(s.live, n + 1)
             a == s.at  r == Len(s.replay)  l == Len(s.live)
  <2>0. a \in Int /\ r \in Nat /\ l \in Nat /\ a + r + l = n
    BY <1>1, <1>3, <1>5
  <2>1. t = [s EXCEPT !.live = v]
    BY <1>2, <1>5 DEF Offered
  <2>2. v \in Seq(Nat) /\ Len(v) = Len(s.live) + 1 /\ v[Len(s.live) + 1] = n + 1 /\ \A i \in 1..Len(s.live) : v[i] = s.live[i]
    BY <1>1
  <2> HIDE DEF v
  <2>3. /\ t \in Streams /\ t.live = v /\ t.at = s.at /\ t.replay = s.replay
        /\ (t.boundary <=> s.boundary) /\ (t.open <=> s.open)
    BY <2>1, <2>2 DEF Streams
  <2>4. \A i \in 1..Len(v) : v[i] = s.at + Len(s.replay) + i
    <3> TAKE i \in 1..Len(v)
    <3>1. CASE i \in 1..Len(s.live)
      BY <1>3, <2>2, <3>1
    <3>2. CASE i = Len(s.live) + 1
      <4>1. v[i] = n + 1 /\ i = l + 1
        BY <2>2, <3>2
      <4> HIDE DEF a, r, l
      <4>2. n + 1 = a + r + (l + 1)
        BY <2>0
      <4> QED BY <4>1, <4>2 DEF a, r
    <3> QED BY <1>1, <2>2, <3>1, <3>2
  <2>5. Last(t) = n + 1
    <3>1. Last(t) = a + r + (l + 1)
      BY <2>2, <2>3 DEF Last
    <3> HIDE DEF a, r, l
    <3> QED BY <2>0, <3>1
  <2>6. Run(t, n + 1)
    BY <1>3, <2>3, <2>4, <2>5 DEF Run
  <2>7. Len(t.live) <= BufferCapacity
    BY <1>1, <1>5, <2>2, <2>3, CapacityAssumption
  <2> HIDE DEF t
  <2> QED BY <1>5, <2>3, <2>6, <2>7 DEF t
<1>6. CASE s.open /\ ~(Len(s.live) < BufferCapacity)
  <2>1. t = [s EXCEPT !.open = FALSE, !.lagged = TRUE]
    BY <1>2, <1>6 DEF Offered
  <2> HIDE DEF t
  <2>2. /\ t \in Streams /\ t.live = s.live /\ t.at = s.at /\ t.replay = s.replay
        /\ (t.boundary <=> s.boundary) /\ ~t.open
    BY <2>1 DEF Streams
  <2>3. Last(t) = Last(s) /\ Last(s) \in Int /\ Last(s) <= n
    <3>1. Last(t) = Last(s)
      BY <2>2 DEF Last
    <3>2. Last(s) \in Int /\ Last(s) <= n
      BY <1>1, <1>3, SMTT(30) DEF Last
    <3> QED BY <3>1, <3>2
  <2>4. Last(t) <= n + 1
    BY <2>3
  <2>5. Run(t, n + 1)
    BY <1>3, <2>2, <2>4 DEF Run
  <2> QED BY <1>6, <2>2, <2>5 DEF t
<1> QED BY <1>4, <1>5, <1>6

(* A publish adds the event past every client's position, to the log and to    *)
(* every open stream.                                                          *)
LEMMA PublishStep == ASSUME BusInv, NEW x \in Changes, Publish(x) PROVE BusInv' /\ FeedStep
<1> DEFINE n == Len(log)
<1>1. /\ x \in unpublished /\ unpublished' = unpublished \ {x} /\ log' = Append(log, x) /\ low' = Low(low, n + 1)
      /\ stream' = [c \in Clients |-> Offered(stream[c], n + 1)]
      /\ UNCHANGED <<committed, epoch, closed, client>>
  BY DEF Publish
<1>2. n \in Nat /\ log \in Seq(committed) /\ x \in committed /\ low \in 1..(n + 1)
  BY <1>1 DEF BusInv, TypeOK
<1>3. /\ log' \in Seq(committed) /\ Len(log') = n + 1 /\ log'[n + 1] = x
      /\ \A i \in 1..n : log'[i] = log[i]
      /\ DOMAIN log = 1..n /\ DOMAIN log' = 1..(n + 1)
  BY <1>1, <1>2
<1>4. ASSUME NEW c \in Clients
      PROVE  /\ stream[c] = Nil => stream'[c] = Nil
             /\ stream[c] # Nil =>
                  /\ stream'[c] \in Streams /\ stream'[c] # Nil /\ Run(stream'[c], n + 1)
                  /\ Len(stream'[c].live) <= BufferCapacity
                  /\ stream'[c].at = stream[c].at /\ (stream'[c].boundary <=> stream[c].boundary)
                  /\ (~stream[c].open => stream'[c] = stream[c])
  <2>1. stream'[c] = Offered(stream[c], n + 1)
    BY <1>1
  <2>2. stream[c] = Nil => stream'[c] = Nil
    BY <2>1 DEF Offered
  <2>3. ASSUME stream[c] # Nil
        PROVE  stream[c] \in Streams /\ Run(stream[c], n) /\ Len(stream[c].live) <= BufferCapacity
    BY <2>3 DEF BusInv, TypeOK, Consecutive
  <2> HIDE DEF n
  <2>4. ASSUME stream[c] # Nil
        PROVE  /\ stream'[c] \in Streams /\ Run(stream'[c], n + 1)
               /\ Len(stream'[c].live) <= BufferCapacity
               /\ stream'[c].at = stream[c].at /\ (stream'[c].boundary <=> stream[c].boundary)
               /\ (~stream[c].open => stream'[c] = stream[c])
    BY <1>2, <2>1, <2>3, <2>4, OfferedRun
  <2> QED BY <2>2, <2>4, NilAssumption
<1>5. \A c \in Clients : Position(c)' = Position(c) /\ (Synced(c)' <=> Synced(c))
  BY <1>1, <1>4 DEF Position, Synced
<1>6. TypeOK'
  <2>1. stream' \in [Clients -> Streams \union {Nil}]
    <3>1. \A c \in Clients : stream'[c] \in Streams \union {Nil}
      BY <1>4
    <3> QED BY <1>1, <3>1
  <2>2. low' \in 1..(Len(log') + 1)
    BY <1>1, <1>2, <1>3 DEF Low
  <2>3. \A c \in Clients : stream'[c] # Nil => Len(stream'[c].live) <= BufferCapacity
    BY <1>4
  <2> QED BY <1>1, <1>3, <2>1, <2>2, <2>3 DEF BusInv, TypeOK
<1>7. Consecutive'
  BY <1>3, <1>4 DEF Consecutive
<1>8. ASSUME NEW c \in Clients PROVE StreamInv(c)' /\ CursorInv(c)'
  <2>1. StreamInv(c) /\ CursorInv(c)
    BY DEF BusInv
  <2>2. StreamInv(c)'
    BY <1>1, <1>4, <2>1 DEF StreamInv
  <2>3. Position(c) \in Nat \union {-1} /\ Position(c) <= n /\ client[c].cursor \in Nat
    BY PositionType DEF BusInv, TypeOK
  <2>4. CursorInv(c)'
    <3> DEFINE p == Position(c)
               k == client[c].cursor
    <3>1. client' = client /\ epoch' = epoch /\ Position(c)' = p
      BY <1>1, <1>5
    <3>2. SUFFICES ASSUME Current(c)
                   PROVE  k <= p /\ p <= n + 1 /\ \A i \in (k + 1)..p : log'[i] \notin Visible[c]
      BY <1>3, <3>1 DEF CursorInv, Current
    <3>3. k <= p /\ p <= n /\ \A i \in (k + 1)..p : log[i] \notin Visible[c]
      BY <2>1, <2>3, <3>2 DEF CursorInv
    <3> HIDE DEF p, k
    <3>4. p \in Int /\ k \in Nat /\ n \in Nat
      BY <1>2, <2>3 DEF p, k
    <3> HIDE DEF n
    <3>5. \A i \in (k + 1)..p : i \in 1..n
      BY <3>3, <3>4
    <3> QED BY <1>3, <3>3, <3>4, <3>5
  <2> QED BY <2>2, <2>4
<1>9. NothingMissed'
  <2> SUFFICES ASSUME NEW c \in Clients, Synced(c)', NEW y \in (committed' \cap Visible[c]) \ client'[c].view
               PROVE  y \in unpublished' \/ Ahead(c, y)'
    BY DEF NothingMissed
  <2>1. y \in unpublished \/ Ahead(c, y)
    BY <1>1, <1>5 DEF BusInv, NothingMissed
  <2>2. Position(c) \in Nat \union {-1} /\ Position(c) <= n /\ Position(c)' = Position(c)
    BY <1>5, PositionType
  <2>3. CASE y = x
    BY <1>2, <1>3, <2>2, <2>3 DEF Ahead
  <2>4. CASE Ahead(c, y)
    BY <1>2, <1>3, <2>2, <2>4 DEF Ahead
  <2> QED BY <1>1, <2>1, <2>3, <2>4
<1>10. FeedStep
  <2>1. Feed!Publish(x)
    BY <1>1, <1>5 DEF Feed!Publish
  <2> QED BY <2>1 DEF FeedStep, Feed!Next
<1> QED BY <1>6, <1>7, <1>8, <1>9, <1>10 DEF BusInv

-----------------------------------------------------------------------------
(* Closing the bus leaves every stream its backlog.                            *)
LEMMA CloseStep == ASSUME BusInv, Close PROVE BusInv' /\ FeedStep
<1>1. /\ stream' = [c \in Clients |-> IF stream[c] = Nil THEN Nil ELSE [stream[c] EXCEPT !.open = FALSE]]
      /\ closed' = TRUE /\ UNCHANGED <<committed, unpublished, log, low, epoch, client>>
  BY DEF Close
<1>2. ASSUME NEW c \in Clients
      PROVE  /\ stream[c] = Nil => stream'[c] = Nil
             /\ stream[c] # Nil =>
                  /\ stream'[c] \in Streams /\ stream'[c] # Nil
                  /\ stream'[c].at = stream[c].at /\ stream'[c].replay = stream[c].replay /\ stream'[c].live = stream[c].live
                  /\ (stream'[c].boundary <=> stream[c].boundary) /\ (stream'[c].lagged <=> stream[c].lagged)
                  /\ ~stream'[c].open
  <2>1. stream[c] = Nil => stream'[c] = Nil
    BY <1>1
  <2>2. ASSUME stream[c] # Nil PROVE stream[c] \in Streams /\ stream'[c] = [stream[c] EXCEPT !.open = FALSE]
    BY <1>1, <2>2 DEF BusInv, TypeOK
  <2> QED BY <2>1, <2>2, NilAssumption DEF Streams
<1>3. \A c \in Clients : Position(c)' = Position(c) /\ (Synced(c)' <=> Synced(c))
  BY <1>1, <1>2 DEF Position, Synced
<1>4. TypeOK'
  <2>1. stream' \in [Clients -> Streams \union {Nil}]
    <3>1. \A c \in Clients : stream'[c] \in Streams \union {Nil}
      BY <1>2
    <3> QED BY <1>1, <3>1
  <2>2. \A c \in Clients : stream'[c] # Nil => Len(stream'[c].live) <= BufferCapacity
    BY <1>2 DEF BusInv, TypeOK
  <2> QED BY <1>1, <2>1, <2>2 DEF BusInv, TypeOK
<1>5. Consecutive'
  BY <1>1, <1>2 DEF BusInv, Consecutive, Run, Last
<1>6. ASSUME NEW c \in Clients PROVE StreamInv(c)' /\ CursorInv(c)'
  <2>1. StreamInv(c) /\ CursorInv(c)
    BY DEF BusInv
  <2>2. StreamInv(c)'
    BY <1>1, <1>2, <2>1 DEF StreamInv
  <2>3. CursorInv(c)'
    BY <1>1, <1>3, <2>1 DEF CursorInv, Current
  <2> QED BY <2>2, <2>3
<1>7. NothingMissed'
  BY <1>1, <1>3 DEF BusInv, NothingMissed, Ahead
<1>8. FeedStep
  BY <1>1, <1>3 DEF FeedStep, Feed!feed
<1> QED BY <1>4, <1>5, <1>6, <1>7, <1>8 DEF BusInv

(* A boot takes every client nowhere: no cursor is of the new epoch.           *)
LEMMA RestartStep == ASSUME BusInv, Restart PROVE BusInv' /\ FeedStep
<1>1. /\ log' = << >> /\ low' = 1 /\ epoch' = epoch + 1 /\ closed' = FALSE
      /\ unpublished' = {} /\ committed' = committed /\ client' = client
      /\ stream' = [c \in Clients |-> Nil]
  BY DEF Restart
<1>2. \A c \in Clients : client[c].epoch \in 0..epoch /\ client[c].cursor \in Nat /\ epoch \in Nat \ {0}
  BY DEF BusInv, TypeOK
<1>3. \A c \in Clients : stream'[c] = Nil /\ client'[c].epoch # epoch' /\ Position(c)' = -1
  BY <1>1, <1>2 DEF Position
<1>4. TypeOK'
  <2>1. log' \in Seq(committed') /\ Len(log') = 0 /\ low' \in 1..(Len(log') + 1)
    BY <1>1
  <2>2. client' \in [Clients -> [cursor : Nat, epoch : 0..epoch', view : SUBSET committed']]
    <3>1. client \in [Clients -> [cursor : Nat, epoch : 0..epoch, view : SUBSET committed]] /\ epoch \in Nat
      BY DEF BusInv, TypeOK
    <3>2. 0..epoch \subseteq 0..(epoch + 1)
      BY <3>1
    <3>3. client \in [Clients -> [cursor : Nat, epoch : 0..(epoch + 1), view : SUBSET committed]]
      BY <3>1, <3>2
    <3> QED BY <1>1, <3>3
  <2>3. epoch' \in Nat \ {0} /\ committed' \subseteq Changes /\ unpublished' \subseteq committed'
    BY <1>1 DEF BusInv, TypeOK
  <2>4. closed' \in BOOLEAN
    BY <1>1
  <2>5. stream' \in [Clients -> Streams \union {Nil}]
    BY <1>1
  <2> QED BY <1>3, <2>1, <2>2, <2>3, <2>4, <2>5 DEF TypeOK
<1>5. Consecutive' /\ NothingMissed' /\ \A c \in Clients : StreamInv(c)' /\ CursorInv(c)'
  BY <1>3 DEF Consecutive, NothingMissed, Synced, StreamInv, CursorInv, Current
<1>6. Feed!Boot
  BY <1>1, <1>3 DEF Feed!Boot
<1> QED BY <1>4, <1>5, <1>6 DEF BusInv, FeedStep, Feed!Next

-----------------------------------------------------------------------------
(* Every step keeps the invariant and is a step of the feed, or none.          *)
LEMMA BusStep == ASSUME BusInv, [Next]_vars PROVE BusInv' /\ FeedStep
<1>1. CASE Next
  BY <1>1, CommitStep, PublishStep, SubscribeStep, BoundaryStep, ForwardStep, StreamEndStep, HangUpStep, CloseStep, RestartStep
     DEF Next, Reads
<1>2. CASE UNCHANGED vars
  <2>1. UNCHANGED <<committed, unpublished, log, low, epoch, closed, stream, client>>
    BY <1>2 DEF vars, bus
  <2>2. \A c \in Clients : Position(c)' = Position(c)
    BY <2>1 DEF Position
  <2>3. TypeOK' /\ Consecutive'
    BY <2>1 DEF BusInv, TypeOK, Consecutive
  <2>4. ASSUME NEW c \in Clients PROVE StreamInv(c)' /\ CursorInv(c)'
    BY <2>1, <2>2 DEF BusInv, StreamInv, CursorInv, Current
  <2>5. NothingMissed'
    BY <2>1, <2>2 DEF BusInv, NothingMissed, Synced, Ahead
  <2>6. FeedStep
    BY <2>1, <2>2 DEF FeedStep, Feed!feed
  <2> QED BY <2>3, <2>4, <2>5, <2>6 DEF BusInv
<1> QED BY <1>1, <1>2

(* The bus keeps its invariant.                                                *)
THEOREM BusInvariant == Spec => []BusInv
<1>1. Init => BusInv
  BY BusInit
<1>2. BusInv /\ [Next]_vars => BusInv'
  BY BusStep
<1> QED BY <1>1, <1>2, PTL DEF Spec

(* Replay and live tail hand over without a gap or a repeat, whatever the      *)
(* capacities (Bus.Subscribe, Bus.publish).                                    *)
THEOREM NoGapNoRepeat == Spec => []Consecutive
<1>1. BusInv => Consecutive
  BY DEF BusInv
<1> QED BY <1>1, BusInvariant, PTL

(* A client that read the store in this boot misses only what is unpublished   *)
(* or ahead of it (SubscribeComms, SubscribeEvents and their clients).         *)
THEOREM MissesNothing == Spec => []NothingMissed
<1>1. BusInv => NothingMissed
  BY DEF BusInv
<1> QED BY <1>1, BusInvariant, PTL

(* The bus, its streams and its clients implement EventFeed.                   *)
THEOREM ImplementsFeed == Spec => FeedSpec
<1>1. Init => Feed!Init
  BY BusInit
<1>2. BusInv /\ [Next]_vars => [Feed!Next]_(Feed!feed)
  BY BusStep DEF FeedStep
<1> QED BY <1>1, <1>2, BusInvariant, PTL DEF Spec, FeedSpec, Feed!Spec
=============================================================================
