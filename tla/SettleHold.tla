----------------------------- MODULE SettleHold -----------------------------
(* The held registry of the delivery consumer (go/internal/delivery), for one  *)
(* author session: a post of a live agent is held until the turn that made it  *)
(* settles.  Posts arrive by the event fabric, settle edges by lifecycle       *)
(* frames, and the two are not ordered.  A session outlives its agent process: *)
(* a fresh process restarts the turn numbers at 1, so turns compare only       *)
(* within a generation, counted by STARTING frames.                            *)
EXTENDS Integers, Sequences, SequencesExt

CONSTANTS
    Msgs,        \* the author's posts
    Nil,
    MaxClock,    \* bound on the Server's clock (milliseconds)
    MaxTurn,     \* bound on turns of one process
    MaxProc      \* bound on agent processes

VARIABLES
    clock,
    proc,     \* the author's process: number, alive, in a turn, turn number
    frames,   \* its lifecycle frames on the way to the hub, in order
    bound,    \* the hub has a live binding for the session
    msg,      \* [Msgs -> Nil or [at, turn, proc]]: the committed posts
    event,    \* [Msgs -> "none", "pending", "live", "done"]: the fabric callback
    gen,      \* generation and generationStart; start Nil when there is none
    settle,   \* lastSettle, lastSettleSequence, lastSettleLegacy; at Nil: none
    held,     \* held[session], in commit-time order
    queue,    \* settleQueue
    prune,    \* the liveness a recovery pass read before taking the lock
    fired,    \* the posts that were fanned out
    raced     \* history: which of Races have happened
vars == <<clock, proc, frames, bound, msg, event, gen, settle, held, queue, prune, fired, raced>>

(* What the registry's marks cannot tell apart: a turn that begins before its  *)
(* process's STARTING frame is observed, a post stamped in the millisecond of  *)
(* a STARTING, a session pruned on a liveness read before its process started, *)
(* and marks dropped while the session's edges are queued.                     *)
Races == {"start_late", "same_ms", "pruned_live", "stale_edges"}
Race(r, happens) == IF happens THEN {r} ELSE {}

author == <<proc, frames, bound>>
registry == <<gen, settle, held, queue>>

Unbounded == MaxClock + 1
NoGeneration == [n |-> 0, start |-> Nil]
NoSettle == [at |-> Nil, seq |-> 0, legacy |-> FALSE]

Init ==
    /\ clock = 0
    /\ proc = [n |-> 0, alive |-> FALSE, busy |-> FALSE, turn |-> 0]
    /\ frames = <<>> /\ bound = FALSE
    /\ msg = [m \in Msgs |-> Nil] /\ event = [m \in Msgs |-> "none"]
    /\ gen = NoGeneration /\ settle = NoSettle
    /\ held = <<>> /\ queue = <<>> /\ prune = Nil /\ fired = {} /\ raced = {}

(* The turn that made a post is over: ended, or its process is gone.           *)
Over(m) == \/ ~proc.alive \/ ~proc.busy
           \/ msg[m].proc < proc.n \/ msg[m].turn < proc.turn

Tick ==
    /\ clock < MaxClock
    /\ clock' = clock + 1
    /\ UNCHANGED <<author, msg, event, registry, prune, fired, raced>>

-----------------------------------------------------------------------------
(* The agent process.  It announces STARTING, and numbers its turns on from    *)
(* the transcript it resumes, or from 1.                                       *)
Launch(fresh) ==
    /\ ~proc.alive /\ proc.n < MaxProc
    /\ proc' = [n |-> proc.n + 1, alive |-> TRUE, busy |-> FALSE,
                turn |-> IF fresh THEN 0 ELSE proc.turn]
    /\ frames' = Append(frames, [kind |-> "STARTING", turn |-> 0])
    /\ UNCHANGED <<clock, bound, msg, event, registry, prune, fired, raced>>

BeginTurn ==
    /\ proc.alive /\ ~proc.busy /\ bound /\ proc.turn < MaxTurn
    /\ raced' = raced \union Race("start_late", \E i \in DOMAIN frames : frames[i].kind = "STARTING")
    /\ proc' = [proc EXCEPT !.busy = TRUE, !.turn = @ + 1]
    /\ UNCHANGED <<clock, frames, bound, msg, event, registry, prune, fired>>

EndTurn ==
    /\ proc.busy
    /\ proc' = [proc EXCEPT !.busy = FALSE]
    /\ frames' = Append(frames, [kind |-> "READY", turn |-> proc.turn])
    /\ UNCHANGED <<clock, bound, msg, event, registry, prune, fired, raced>>

(* A process ends with a terminal frame, which carries no turn, or without.    *)
Exit(announced) ==
    /\ proc.alive
    /\ proc' = [proc EXCEPT !.alive = FALSE, !.busy = FALSE]
    /\ frames' = IF announced THEN Append(frames, [kind |-> "END", turn |-> 0]) ELSE frames
    /\ UNCHANGED <<clock, bound, msg, event, registry, prune, fired, raced>>

(* A post carries the clock of its insert and the turn the agent reports.      *)
Post(m) ==
    /\ proc.busy /\ bound /\ msg[m] = Nil
    /\ msg' = [msg EXCEPT ![m] = [at |-> clock, turn |-> proc.turn, proc |-> proc.n]]
    /\ event' = [event EXCEPT ![m] = "pending"]
    /\ UNCHANGED <<clock, author, registry, prune, fired, raced>>

(* promoteSession and releaseSession.                                          *)
Bind ==
    /\ proc.alive /\ ~bound
    /\ bound' = TRUE
    /\ UNCHANGED <<clock, proc, frames, msg, event, registry, prune, fired, raced>>

Release ==
    /\ ~proc.alive /\ bound
    /\ bound' = FALSE
    /\ UNCHANGED <<clock, proc, frames, msg, event, registry, prune, fired, raced>>

-----------------------------------------------------------------------------
(* onMessagePosted: without a live author the post goes out at once; otherwise *)
(* it is held, by a later step of the same callback.                           *)
Resolve(m) ==
    /\ event[m] = "pending"
    /\ event' = [event EXCEPT ![m] = IF bound THEN "live" ELSE "done"]
    /\ fired' = IF bound THEN fired ELSE fired \union {m}
    /\ UNCHANGED <<clock, author, msg, registry, prune, raced>>

(* hold: an entry committed before the generation began is the old identity's  *)
(* and waits for any settle.                                                   *)
OldIdentity(m) == gen.start # Nil /\ msg[m].at < gen.start

Entry(m) ==
    [m |-> m, at |-> msg[m].at, turn |-> IF OldIdentity(m) THEN 0 ELSE msg[m].turn, gen |-> gen.n]

(* Inserted after every entry committed no later.                              *)
Inserted(e) ==
    LET later == {i \in DOMAIN held : held[i].at > e.at}
        at == IF later = {} THEN Len(held) + 1 ELSE Min(later)
    IN  InsertAt(held, at, e)

(* The settle edge a late hold replays.                                        *)
Eligible(m) ==
    LET turn == Entry(m).turn IN
    settle.at # Nil /\ \/ turn > 0 /\ settle.seq >= turn
                       \/ OldIdentity(m)
                       \/ settle.legacy /\ settle.at >= msg[m].at

Replay(m) ==
    LET turn == Entry(m).turn IN
    IF OldIdentity(m) THEN [turn |-> 0, upTo |-> gen.start - 1, gen |-> gen.n]
    ELSE IF turn = 0 \/ settle.legacy THEN [turn |-> 0, upTo |-> settle.at, gen |-> gen.n]
    ELSE [turn |-> turn, upTo |-> Unbounded, gen |-> gen.n]

Hold(m) ==
    /\ event[m] = "live"
    /\ event' = [event EXCEPT ![m] = "done"]
    /\ held' = Inserted(Entry(m))
    /\ queue' = IF Eligible(m) THEN Append(queue, Replay(m)) ELSE queue
    /\ UNCHANGED <<clock, author, msg, gen, settle, prune, fired, raced>>

-----------------------------------------------------------------------------
(* OnSessionSettled, for the frame at the head of the stream.                  *)
Settled(turn) ==
    /\ queue' = Append(queue, [turn |-> turn, upTo |-> Unbounded, gen |-> gen.n])
    /\ settle' = [at |-> clock,
                  seq |-> IF turn > settle.seq THEN turn ELSE settle.seq,
                  legacy |-> turn = 0 \/ (settle.legacy /\ turn <= settle.seq)]
    /\ UNCHANGED <<gen, held>>

StartGeneration_KeepsEntries ==
    /\ gen' = [n |-> gen.n + 1, start |-> clock]
    /\ settle' = NoSettle
    /\ UNCHANGED <<held, queue>>
StartGeneration ==
    /\ gen' = [n |-> gen.n + 1, start |-> clock]
    /\ settle' = NoSettle
    /\ held' = [i \in DOMAIN held |-> [held[i] EXCEPT !.turn = 0, !.gen = gen.n + 1]]
    /\ UNCHANGED queue

Observe ==
    LET f == Head(frames) IN
    /\ frames # <<>>
    /\ frames' = Tail(frames)
    /\ IF f.kind = "STARTING" THEN StartGeneration ELSE Settled(f.turn)
    /\ raced' = raced \union Race("same_ms", f.kind = "STARTING" /\ \E m \in Msgs : msg[m] # Nil /\ msg[m].at = clock)
    /\ UNCHANGED <<clock, proc, bound, msg, event, prune, fired>>

(* drainSettles and fireHeld: an edge releases the entries within its commit   *)
(* time, its generation and its turn.                                          *)
Releases_AnyGeneration(edge, e) ==
    /\ e.at <= edge.upTo
    /\ edge.turn = 0 \/ e.turn = 0 \/ e.turn <= edge.turn
Releases(edge, e) ==
    /\ e.at <= edge.upTo
    /\ e.gen <= edge.gen
    /\ edge.turn = 0 \/ e.turn = 0 \/ e.turn <= edge.turn

Drain ==
    /\ queue # <<>>
    /\ queue' = Tail(queue)
    /\ held' = SelectSeq(held, LAMBDA e : ~Releases(Head(queue), e))
    /\ fired' = fired \union {e.m : e \in {x \in ToSet(held) : Releases(Head(queue), x)}}
    /\ UNCHANGED <<clock, author, msg, event, gen, settle, prune, raced>>

(* enroll: the Runner is gone, with its processes and frames; OnSessionsReaped *)
(* drops the session's state but not the queued edges.                         *)
Reap ==
    /\ bound
    /\ raced' = raced \union Race("stale_edges", queue # <<>>)
    /\ bound' = FALSE /\ frames' = <<>>
    /\ proc' = [proc EXCEPT !.alive = FALSE, !.busy = FALSE]
    /\ held' = <<>> /\ settle' = NoSettle /\ gen' = NoGeneration
    /\ UNCHANGED <<clock, msg, event, queue, prune, fired>>

(* drainRecovery reads the live sessions, and then drops the marks of a dead   *)
(* one under the lock.                                                         *)
RecoverRead ==
    /\ prune = Nil
    /\ prune' = bound
    /\ UNCHANGED <<clock, author, msg, event, registry, fired, raced>>

RecoverPrune ==
    /\ prune # Nil
    /\ raced' = raced \union Race("pruned_live", ~prune /\ proc.alive)
                     \union Race("stale_edges", ~prune /\ queue # <<>>)
    /\ prune' = Nil
    /\ IF prune THEN UNCHANGED <<gen, settle>> ELSE gen' = NoGeneration /\ settle' = NoSettle
    /\ UNCHANGED <<clock, author, msg, event, held, queue, fired>>

-----------------------------------------------------------------------------
Next ==
    \/ Tick \/ BeginTurn \/ EndTurn \/ Bind \/ Release
    \/ \E b \in BOOLEAN : Launch(b) \/ Exit(b)
    \/ \E m \in Msgs : Post(m) \/ Resolve(m) \/ Hold(m)
    \/ Observe \/ Drain \/ Reap \/ RecoverRead \/ RecoverPrune

Spec == Init /\ [][Next]_vars

(* The type invariant.                                                         *)
TypeOK ==
    /\ clock \in 0..MaxClock /\ bound \in BOOLEAN /\ prune \in BOOLEAN \union {Nil}
    /\ proc \in [n : 0..MaxProc, alive : BOOLEAN, busy : BOOLEAN, turn : 0..MaxTurn]
    /\ gen.n \in Nat /\ gen.start \in 0..MaxClock \union {Nil}
    /\ settle.at \in 0..MaxClock \union {Nil}
    /\ settle.seq \in 0..MaxTurn /\ settle.legacy \in BOOLEAN
    /\ raced \subseteq Races /\ fired \subseteq Msgs /\ {e.m : e \in ToSet(held)} \subseteq Msgs
    /\ \A m \in Msgs : event[m] = "none" <=> msg[m] = Nil

(* fireHeld sends settled blocks: a post goes out only once the turn that made *)
(* it is over, or a recipient would see partial blocks and drop the settled    *)
(* copy as a duplicate.  Only Races can break it.                              *)
FiredSettled == [][raced = {} => \A m \in fired' \ fired : Over(m)]_vars

(* No post is stranded: with the author idle, every frame observed, every edge *)
(* drained and a settle seen since the last restart, nothing is held.  Only    *)
(* Races can break it.                                                         *)
NotStranded ==
    raced = {} /\ proc.alive /\ ~proc.busy /\ bound /\ frames = <<>> /\ queue = <<>> /\ settle.at # Nil
       => held = <<>>

(* hold and fireHeld: posts are held in the order they were committed, so one  *)
(* edge sends them in that order.                                              *)
HeldInOrder == \A i, j \in DOMAIN held : i < j => held[i].at <= held[j].at

(* What waits in the held registry is released, in commit order.               *)
HeldSound == NotStranded /\ HeldInOrder

-----------------------------------------------------------------------------
(* Bounded instances of SettleHold for TLC: one post over several agent        *)
(* processes, or several posts of one process.  A behaviour is followed up to  *)
(* its first race, after which the properties claim nothing.                   *)
CONSTANT First   \* the post of the runs with one post

VARIABLE load

Loads == {[posts |-> {First}, procs |-> MaxProc], [posts |-> Msgs, procs |-> 1]}

MCInit == Init /\ load \in Loads
MCNext ==
    /\ raced = {} /\ Next
    /\ proc'.n <= load.procs /\ \A m \in Msgs \ load.posts : msg'[m] = Nil
    /\ UNCHANGED load
MCSpec == MCInit /\ [][MCNext]_<<vars, load>>
=============================================================================
