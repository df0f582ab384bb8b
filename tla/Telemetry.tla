----------------------------- MODULE Telemetry -----------------------------
(* How an agent session's state reaches the board: the Gateway's Publish       *)
(* handlers, publish gate, shared publisher and exit reports (runner/gateway), *)
(* numbered by the Runner link's SeqCounter, and the Hub's Deliver with its     *)
(* gap tracking and lifecycle order (runnerhub/hub.go), publishing to the      *)
(* board (board/projection.go).  One session; streams break, sends fail, the   *)
(* agent and the Runner die and come back.                                     *)
EXTENDS Naturals, FiniteSets, Sequences, FiniteSetsExt

CONSTANTS Handlers, Streams, MaxMissing, Nil

VARIABLES
    gw,      \* the Gateway: gate, seq, pub, whether the agent runs and the link is enrolled
    work,    \* Publish handlers and the exit report: what each is doing
    strm,    \* PublishEvents streams: stream -> Nil or its state and frames in transit
    hub,     \* enrollGen, lastSeq, missingSeqs, gapOverflow, lifecycleSeqs, session lock
    busy,    \* stream -> the frame its Deliver call is working on
    board,   \* the Projection's entry of the session
    ghost    \* in this enrollment: frames received, sent and lost, the exit reported, a dead Runner's stream let in
tvars == <<gw, work, strm, hub, busy, board, ghost>>

Exit == "exit"                        \* retireOnExit, one at a time under the container lock
Actors == Handlers \union {Exit}
Idle == [op |-> "idle"]
Trace == "TRACE"                      \* a session frame with no state
Gate0 == [draining |-> FALSE, sealed |-> FALSE, handlers |-> 0]
Gateway0 == [gate |-> Gate0, seq |-> 0, pub |-> Nil, up |-> FALSE, linked |-> FALSE]
Ghost0 == [got |-> {}, base |-> 0, sent |-> {}, errored |-> 0, lost |-> {}, stray |-> FALSE]

TmInit ==
    /\ gw = Gateway0
    /\ work = [p \in Actors |-> Idle]
    /\ strm = [s \in Streams |-> Nil]
    /\ hub = [gen |-> 0, last |-> 0, missing |-> {}, over |-> FALSE, life |-> 0, lock |-> Nil]
    /\ busy = [s \in Streams |-> Nil]
    /\ board = Nil
    /\ ghost = Ghost0

(* A stream: its generation at the Server, Nil until a handler has it; frames   *)
(* in transit; whether it carries frames and its context lives; its lock and    *)
(* the Runner process that opened it.                                           *)
Fresh == {s \in Streams : strm[s] = Nil}
newSessionPublisher(s) == [gen |-> Nil, q |-> <<>>, open |-> TRUE, live |-> TRUE, mu |-> Nil, by |-> hub.gen]
(* Only the context is asked: a stream that broke is still handed out. *)
Usable(s) == strm[s].live
rollback_Always(n, seq) == IF n > 0 THEN n - 1 ELSE n
(* Only the latest allocation is reclaimed; an older one stays burned. *)
rollback(n, seq) == IF n = seq THEN n - 1 ELSE n
Frame(seq, st) == [seq |-> seq, st |-> st]
Enqueue(s, f) == [strm EXCEPT ![s].q = Append(@, f), ![s].mu = Nil]

-----------------------------------------------------------------------------
(* The Publish handlers.                                                       *)

beginPublish(p) ==
    /\ work[p] = Idle /\ gw.up /\ gw.linked
    /\ ~gw.gate.draining /\ ~gw.gate.sealed
    /\ gw' = [gw EXCEPT !.gate.handlers = @ + 1]
    /\ work' = [work EXCEPT ![p] = [op |-> "acquire"]]
    /\ UNCHANGED <<strm, hub, busy, board, ghost>>

(* A shared publisher that a report cancelled is replaced and closed. *)
acquirePublisher(p) ==
    /\ work[p].op = "acquire"
    /\ IF gw.pub # Nil /\ Usable(gw.pub)
       THEN work' = [work EXCEPT ![p] = [op |-> "run", pub |-> gw.pub]] /\ UNCHANGED <<gw, strm>>
       ELSE /\ Fresh # {}
            /\ LET s == Min(Fresh) IN
               /\ strm' = [strm EXCEPT ![s] = newSessionPublisher(s)]
               /\ gw' = [gw EXCEPT !.pub = s]
               /\ work' = [work EXCEPT ![p] = [op |-> "run", pub |-> s]]
    /\ UNCHANGED <<hub, busy, board, ghost>>

(* forward, under the stream's lock: a sealed session's frame is refused. *)
admitFrame(p, st) ==
    LET s == work[p].pub IN
    /\ work[p].op = "run" /\ strm[s].mu = Nil
    /\ IF gw.gate.sealed
       THEN work' = [work EXCEPT ![p].op = "release"] /\ UNCHANGED <<gw, strm>>
       ELSE /\ gw' = [gw EXCEPT !.seq = @ + 1]
            /\ strm' = [strm EXCEPT ![s].mu = p]
            /\ work' = [work EXCEPT ![p] = [op |-> "send", pub |-> s, f |-> Frame(gw.seq + 1, st)]]
    /\ UNCHANGED <<hub, busy, board, ghost>>

sendLocked(p) ==
    LET w == work[p] IN
    /\ w.op = "send" /\ strm[w.pub].open
    /\ strm' = Enqueue(w.pub, w.f)
    /\ work' = [work EXCEPT ![p] = [op |-> "run", pub |-> w.pub]]
    /\ ghost' = [ghost EXCEPT !.sent = @ \union {w.f}]
    /\ UNCHANGED <<gw, hub, busy, board>>
SendFails(p) ==
    LET w == work[p] IN
    /\ w.op = "send"
    /\ gw' = [gw EXCEPT !.seq = rollback(@, w.f.seq)]
    /\ strm' = [strm EXCEPT ![w.pub].mu = Nil]
    /\ work' = [work EXCEPT ![p] = [op |-> "release", pub |-> w.pub]]
    /\ UNCHANGED <<hub, busy, board, ghost>>

(* releasePublisher and endPublish, at EOF or after an error.  Closing waits   *)
(* for the stream's lock.                                                      *)
releasePublisher(p) ==
    LET w == work[p] IN
    /\ w.op \in {"run", "release"} /\ strm[w.pub].mu = Nil
    /\ strm' = [strm EXCEPT ![w.pub].open = FALSE, ![w.pub].live = FALSE]
    /\ gw' = [gw EXCEPT !.pub = IF @ = w.pub THEN Nil ELSE @, !.gate.handlers = @ - 1]
    /\ work' = [work EXCEPT ![p] = Idle]
    /\ UNCHANGED <<hub, busy, board, ghost>>

-----------------------------------------------------------------------------
(* The report of an agent's exit: PublishSessionState.                         *)

(* retireOnExit and markErrored, under the container lock until it is sent. *)
AgentExits ==
    /\ gw.up /\ work[Exit] = Idle
    /\ gw' = [gw EXCEPT !.up = FALSE, !.gate.draining = TRUE]
    /\ work' = [work EXCEPT ![Exit] = [op |-> "drain"]]
    /\ UNCHANGED <<strm, hub, busy, board, ghost>>

fencePublishes_Drains ==
    /\ work[Exit].op = "drain"
    /\ work' = [work EXCEPT ![Exit] = [op |-> IF gw.pub = Nil THEN "oneShot" ELSE "shared", pub |-> gw.pub]]
    /\ UNCHANGED <<gw, strm, hub, busy, board, ghost>>
(* The open handlers are awaited, but no longer than publishGrace. *)
fencePublishes ==
    /\ work[Exit].op = "drain"
    /\ gw' = [gw EXCEPT !.gate.sealed = TRUE]
    /\ work' = [work EXCEPT ![Exit] = [op |-> IF gw.pub = Nil THEN "oneShot" ELSE "shared", pub |-> gw.pub]]
    /\ UNCHANGED <<strm, hub, busy, board, ghost>>

(* On the shared stream, behind every frame admitted to it. *)
forwardState ==
    LET w == work[Exit] IN
    /\ w.op = "shared" /\ strm[w.pub].mu = Nil
    /\ IF Usable(w.pub)
       THEN /\ gw' = [gw EXCEPT !.seq = @ + 1]
            /\ strm' = [strm EXCEPT ![w.pub].mu = Exit]
            /\ work' = [work EXCEPT ![Exit] = [op |-> "sharedSend", pub |-> w.pub, f |-> Frame(gw.seq + 1, "ERRORED")]]
       ELSE work' = [work EXCEPT ![Exit] = [op |-> "oneShot"]] /\ UNCHANGED <<gw, strm>>
    /\ UNCHANGED <<hub, busy, board, ghost>>

sendSharedState ==
    LET w == work[Exit] IN
    /\ w.op = "sharedSend" /\ strm[w.pub].open
    /\ strm' = [Enqueue(w.pub, w.f) EXCEPT ![w.pub].open = FALSE, ![w.pub].live = FALSE]
    /\ gw' = [gw EXCEPT !.pub = IF @ = w.pub THEN Nil ELSE @]
    /\ work' = [work EXCEPT ![Exit] = Idle]
    /\ ghost' = [ghost EXCEPT !.sent = @ \union {w.f}, !.errored = w.f.seq]
    /\ UNCHANGED <<hub, busy, board>>

(* What a broken stream still held is lost, from some frame on. *)
Cut(s, n) == [strm[s] EXCEPT !.open = FALSE, !.q = SubSeq(@, 1, n)]
Loses(s, n) == IF strm[s].by = hub.gen
               THEN [ghost EXCEPT !.lost = @ \union {strm[s].q[i].seq : i \in (n + 1)..Len(strm[s].q)}] ELSE ghost
(* stateSendTimeout: the shared stream is cancelled and what it still held is  *)
(* lost; its own Send is joined before the fallback allocates a number.        *)
SharedTimeout ==
    LET w == work[Exit] IN
    /\ w.op \in {"shared", "sharedSend"} /\ Usable(w.pub)
    /\ \E n \in 0..Len(strm[w.pub].q) :
        /\ strm' = [strm EXCEPT ![w.pub] = [Cut(w.pub, n) EXCEPT !.live = FALSE]]
        /\ ghost' = Loses(w.pub, n)
    /\ UNCHANGED <<gw, work, hub, busy, board>>
SharedFails ==
    LET w == work[Exit] IN
    /\ w.op = "sharedSend"
    /\ gw' = [gw EXCEPT !.seq = rollback(@, w.f.seq)]
    /\ strm' = [strm EXCEPT ![w.pub].mu = Nil]
    /\ work' = [work EXCEPT ![Exit] = [op |-> "oneShot"]]
    /\ UNCHANGED <<hub, busy, board, ghost>>

(* The bounded one-shot stream; if it fails too the exit is only logged. *)
PublishSessionState ==
    /\ work[Exit].op = "oneShot"
    /\ \/ /\ Fresh # {} /\ gw.linked
          /\ LET s == Min(Fresh)
                 f == Frame(gw.seq + 1, "ERRORED")
             IN  /\ strm' = [strm EXCEPT ![s] = [newSessionPublisher(s) EXCEPT !.q = <<f>>, !.open = FALSE, !.live = FALSE]]
                 /\ gw' = [gw EXCEPT !.seq = @ + 1]
                 /\ ghost' = [ghost EXCEPT !.sent = @ \union {f}, !.errored = f.seq]
       \/ UNCHANGED <<gw, strm, ghost>>
    /\ work' = [work EXCEPT ![Exit] = Idle]
    /\ UNCHANGED <<hub, busy, board>>

(* Start or resume, under the container lock: BindSession reopens the gate. *)
unfencePublishes ==
    /\ ~gw.up /\ gw.linked /\ work[Exit] = Idle
    /\ gw' = [gw EXCEPT !.up = TRUE, !.gate.draining = FALSE, !.gate.sealed = FALSE]
    /\ ghost' = [ghost EXCEPT !.errored = 0]
    /\ UNCHANGED <<work, strm, hub, busy, board>>

StreamBreaks(s) ==
    /\ strm[s] # Nil /\ (strm[s].open \/ strm[s].q # <<>>)
    /\ \E n \in 0..Len(strm[s].q) :
        /\ strm' = [strm EXCEPT ![s] = Cut(s, n)]
        /\ ghost' = Loses(s, n)
    /\ UNCHANGED <<gw, work, hub, busy, board>>

(* The Runner process ends; what its streams sent may still be read. *)
RunnerDies ==
    /\ gw.linked
    /\ gw' = Gateway0
    /\ work' = [p \in Actors |-> Idle]
    /\ strm' = [s \in Streams |-> IF strm[s] = Nil THEN Nil ELSE [strm[s] EXCEPT !.open = FALSE, !.live = FALSE, !.mu = Nil]]
    /\ ghost' = [ghost EXCEPT !.errored = 0]
    /\ UNCHANGED <<hub, busy, board>>

-----------------------------------------------------------------------------
(* The Hub.                                                                    *)

(* A PublishEvents handler gets the stream, and reads the generation then: a   *)
(* dead Runner's stream can be read after the next enrollment.                 *)
PublishEvents(s) ==
    /\ strm[s] # Nil /\ strm[s].gen = Nil
    /\ strm' = [strm EXCEPT ![s].gen = hub.gen]
    /\ ghost' = [ghost EXCEPT !.stray = @ \/ strm[s].by # hub.gen]
    /\ UNCHANGED <<gw, work, hub, busy, board>>

staleEnrollmentLocked(s) == strm[s].gen # hub.gen
Lifecycle(f) == f.st # Trace

(* The seqs a jump skips are missing until they arrive late; the first event   *)
(* sets the baseline.                                                          *)
recordSeq(h, seq) ==
    IF seq <= h.last THEN [h EXCEPT !.missing = @ \ {seq}]
    ELSE LET skipped == IF h.last = 0 THEN {} ELSE (h.last + 1)..(seq - 1)
             room == MaxMissing - Cardinality(h.missing)
         IN  [h EXCEPT !.last = seq,
                       !.missing = @ \union {n \in skipped : n - h.last <= room},
                       !.over = @ \/ Cardinality(skipped) > room]
seenGapLocked == hub.over \/ hub.missing # {}

(* A late lifecycle frame must wait for the one being published. *)
lockSession(f) == Lifecycle(f) => hub.lock = Nil

(* Deliver up to recordSeq, with enrollMu read-held until it is done. *)
Deliver(s) ==
    /\ strm[s] # Nil /\ strm[s].gen # Nil /\ strm[s].q # <<>> /\ busy[s] = Nil
    /\ LET f == Head(strm[s].q)
           h == recordSeq(hub, f.seq)
       IN  IF staleEnrollmentLocked(s)
           THEN UNCHANGED <<hub, busy, ghost>>
           ELSE /\ lockSession(f)
                /\ hub' = IF Lifecycle(f) THEN [h EXCEPT !.lock = s] ELSE h
                /\ busy' = IF Lifecycle(f) THEN [busy EXCEPT ![s] = [f |-> f, op |-> "check"]] ELSE busy
                /\ ghost' = [ghost EXCEPT !.got = @ \union {f.seq}, !.base = IF hub.last = 0 THEN f.seq ELSE @]
    /\ strm' = [strm EXCEPT ![s].q = Tail(@)]
    /\ UNCHANGED <<gw, work, board>>

Unlock(h, s) == [h EXCEPT !.lock = IF @ = s THEN Nil ELSE @]

(* The session's binding names another Runner or cannot be read: the frame is  *)
(* dropped whole, after its number was recorded.                               *)
FrameRefused(s) ==
    /\ busy[s] # Nil /\ busy[s].op = "check"
    /\ hub' = Unlock(hub, s) /\ busy' = [busy EXCEPT ![s] = Nil]
    /\ ghost' = [ghost EXCEPT !.lost = @ \union {busy[s].f.seq}]
    /\ UNCHANGED <<gw, work, strm, board>>
(* A lifecycle frame older than the session's latest is ignored. *)
deliverSession(s) ==
    /\ busy[s] # Nil /\ busy[s].op = "check"
    /\ IF busy[s].f.seq > hub.life
       THEN hub' = [hub EXCEPT !.life = busy[s].f.seq] /\ busy' = [busy EXCEPT ![s].op = "publish"]
       ELSE hub' = Unlock(hub, s) /\ busy' = [busy EXCEPT ![s] = Nil]
    /\ UNCHANGED <<gw, work, strm, board, ghost>>

(* Record and fan out under the Projection's lock. *)
PublishSessionStatus(s) ==
    /\ busy[s] # Nil /\ busy[s].op = "publish"
    /\ board' = [st |-> busy[s].f.st, seq |-> busy[s].f.seq, gen |-> hub.gen]
    /\ hub' = Unlock(hub, s)
    /\ busy' = [busy EXCEPT ![s] = Nil]
    /\ UNCHANGED <<gw, work, strm, ghost>>

(* A new Runner process enrolls: enrollMu waits for every Deliver. *)
enroll ==
    /\ ~gw.linked /\ \A s \in Streams : busy[s] = Nil
    /\ hub' = [hub EXCEPT !.gen = @ + 1, !.last = 0, !.missing = {}, !.over = FALSE, !.life = 0]
    /\ gw' = [gw EXCEPT !.linked = TRUE]
    /\ ghost' = Ghost0
    /\ UNCHANGED <<work, strm, busy, board>>

-----------------------------------------------------------------------------
(* A RunnerSeq is given to one frame only: a failed send reclaims its number   *)
(* only while nothing was numbered after it (SeqCounter.rollback).             *)
SeqsUnique == \A f, g \in ghost.sent : f.seq = g.seq => f = g

(* The gap flag is exact: what is missing is what a jump skipped and has not   *)
(* arrived since, and past maxMissingSeqs the flag stays up (recordSeq).       *)
GapsExact ==
    LET skipped == {n \in (ghost.base + 1)..hub.last : n \notin ghost.got}
    IN  /\ hub.missing \subseteq skipped /\ (skipped # {} => seenGapLocked)
        /\ ~hub.over => hub.missing = skipped

(* The board shows the newest state of those the Hub took in this enrollment,  *)
(* however two streams' deliveries overlap (lockSession), unless a dead        *)
(* Runner's stream reached the Server after it (handler.go:186).               *)
NewestShown ==
    LET states == {f \in ghost.sent : f.st # Trace /\ f.seq \in ghost.got \ ghost.lost}
        pending == {s \in Streams : busy[s] # Nil}
    IN  states # {} /\ pending = {} /\ ~ghost.stray =>
            /\ board # Nil /\ board.gen = hub.gen
            /\ Frame(board.seq, board.st) \in states
            /\ \A f \in states : f.seq <= board.seq

(* An exit whose report the Hub took is what the board ends on: no frame       *)
(* admitted before the seal is numbered after ERRORED, and none is admitted    *)
(* behind it until the session is bound again (fencePublishes,                 *)
(* sendSharedState).                                                           *)
ErroredIsLast ==
    ghost.errored # 0 =>
        /\ \A f \in ghost.sent : f.seq <= ghost.errored
        /\ ghost.errored \in ghost.got \ ghost.lost /\ (\A s \in Streams : busy[s] = Nil) /\ ~ghost.stray
            => board # Nil /\ board.st = "ERRORED"

(* Sequence numbers, gap flag, order and exit reports together.                *)
TelemetrySound == SeqsUnique /\ GapsExact /\ NewestShown /\ ErroredIsLast

-----------------------------------------------------------------------------
(* Bounds for Telemetry: MaxFaults failed sends, broken streams and Runner     *)
(* restarts, and either any handlers at once with MaxFrames agent frames and   *)
(* MaxExits exits, or one at a time with twice the frames and no exit.  The    *)
(* second frame has no state.                                                  *)
CONSTANTS MaxFrames, MaxFaults, MaxExits
VARIABLE load

Left(frames, exits, handlers) == [frames |-> 0, faults |-> 0, exits |-> 0, max |-> [frames |-> frames, exits |-> exits, handlers |-> handlers]]
TInit == TmInit /\ load \in {Left(MaxFrames, MaxExits, Cardinality(Handlers)), Left(2 * MaxFrames, 0, 1)}
Emit(A) == load.frames < load.max.frames /\ A /\ load' = [load EXCEPT !.frames = @ + 1]
Fault(A) == load.faults < MaxFaults /\ A /\ load' = [load EXCEPT !.faults = @ + 1]
Exits(A) == load.exits < load.max.exits /\ A /\ load' = [load EXCEPT !.exits = @ + 1]
Run(A) == A /\ load' = load

TmNext ==
    \/ \E p \in Handlers :
        \/ (gw.gate.handlers < load.max.handlers /\ Run(beginPublish(p))) \/ Run(acquirePublisher(p)) \/ Run(sendLocked(p)) \/ Fault(SendFails(p)) \/ Run(releasePublisher(p))
        \/ (work[p].op = "send" /\ ~strm[work[p].pub].open /\ Run(SendFails(p)))
        \/ Emit(admitFrame(p, IF load.frames = 1 THEN Trace ELSE "WORKING"))
    \/ Exits(AgentExits) \/ Run(fencePublishes) \/ Run(forwardState) \/ Run(sendSharedState) \/ Fault(SharedTimeout)
    \/ (IF work[Exit].op = "sharedSend" /\ ~strm[work[Exit].pub].open THEN Run(SharedFails) ELSE Fault(SharedFails))
    \/ Run(PublishSessionState) \/ Run(unfencePublishes) \/ Fault(RunnerDies) \/ Run(enroll)
    \/ \E s \in Streams : Run(PublishEvents(s)) \/ Fault(StreamBreaks(s)) \/ Fault(FrameRefused(s)) \/ Run(Deliver(s)) \/ Run(deliverSession(s)) \/ Run(PublishSessionStatus(s))
TmSpec == TInit /\ [][TmNext]_<<tvars, load>>
=============================================================================
