-------------------------- MODULE ControlProtocol --------------------------
(* One agent session's control path end to end: the Runner host that starts,   *)
(* reloads and stops the agent process (go/internal/runner/host.go), the       *)
(* session's control lane, the agent's ControlSource and ack cursor            *)
(* (packages/compass-agent/src/transport), and the Publish streams that carry  *)
(* the agent's acks back (publish-spine.ts, gateway/publish.go).               *)
(*                                                                             *)
(* The lane is ControlLane's, on one session object at a time: Send is one     *)
(* step, a wakeup is never lost (ControlLane's NoLostWake), and a write is     *)
(* received at once, so that what a broken stream loses is what it had not yet *)
(* written.  The Runner-side hold of the barrier has no caller in the program. *)
EXTENDS LaneSession, Sequences

CONSTANTS
    Immediate,    \* steer, deliver and start-now ops: applied when decoded
    Pulled,       \* prompt ops: applied by the agent's control loop
    TurnEnd,      \* forge notifications: applied by the turn-end flush
    MaxRejects,   \* bound on the turn-end prompts the agent SDK rejects
    MaxProc,      \* bound on the agent processes launched
    MaxSub,       \* bound on the Control subscriptions of one session object
    MaxFaults     \* bound on crashes, dropped streams and failed launches

ASSUME ProtocolAssumption ==
    /\ LiveOps = Immediate \union Pulled \union TurnEnd
    /\ Immediate \intersect (Pulled \union TurnEnd) = {} /\ Pulled \intersect TurnEnd = {}
    /\ \E op \in ReplayOps : ReplayOps = {op}
    /\ Objects = {"session"} /\ Drainers = {"agent"} /\ Nil \notin Retained
    /\ \A x \in {MaxRejects, MaxProc, MaxSub, MaxFaults} : x \in Nat

VARIABLES
    host,     \* the Runner's view: [step, state], step the lifecycle call under way
    rail,     \* the session's control object
    epoch,    \* the producer's epoch counter
    drn,      \* the drainer of the agent's Control stream
    agent,    \* the agent process
    hnd,      \* the Publish handler of each process's batch in flight
    sent,     \* history: the ops Deliver accepted and no Retire dropped
    did,      \* history: <<process, op>> for every op a process applied
    refused,  \* history: <<process, op>> for every op refused by the barrier
    faults,   \* the crashes, drops and failures so far
    rejects,  \* the rejected prompts so far
    late      \* history: an epoch began before an open stream had read the last one

vars == <<host, rail, epoch, drn, agent, hnd, sent, did, refused, faults, rejects, late>>

ReplayComplete == CHOOSE op \in ReplayOps : TRUE
Procs == 1..MaxProc

(* A fresh agent process.  barrier and ready are the two places that remember  *)
(* replay_complete: the source when it is decoded, the control loop when it is *)
(* applied.  queued holds the seqs decoded and not yet applied, buffer the ops *)
(* the loop pulls, busy the op it pulled and done whether it applied it, turn  *)
(* the turn-end queue, spine the acks to publish, sending the batch in flight. *)
NewAgent(p) ==
    [proc |-> p, up |-> TRUE, ended |-> FALSE, reloaded |-> FALSE,
     barrier |-> FALSE, ready |-> FALSE, cursor |-> 0, above |-> {}, queued |-> {},
     buffer |-> << >>, busy |-> Nil, done |-> FALSE, turn |-> {},
     spine |-> << >>, sending |-> << >>]
NoHandler == [step |-> "none", epoch |-> 0, frames |-> << >>]

(* No control object is mapped; a drainer left on a retired one is displaced.  *)
Unbound == Tombstoned(NewSession(0))
Bound == rail # Unbound

Init ==
    /\ host = [step |-> "idle", state |-> "none"]
    /\ rail = Unbound /\ epoch = 0
    /\ drn = Idle
    /\ agent = [NewAgent(0) EXCEPT !.up = FALSE]
    /\ hnd = [p \in Procs |-> NoHandler]
    /\ sent = {} /\ did = {} /\ refused = {} /\ faults = 0 /\ rejects = 0 /\ late = FALSE

-----------------------------------------------------------------------------
(* The host.  Start, Reload, Stop and the exit watcher hold the container      *)
(* lock, so at most one of them is under way; Deliver does not take it.        *)

(* A new epoch begins while a Publish handler of the old process has yet to    *)
(* read its epoch: it will take the new one for its own.                       *)
NewEpoch == late' = (late \/ \E p \in Procs : hnd[p].step = "opened")

(* StartAgent comes before the session is recorded and bound.                  *)
StartLaunch ==
    /\ host.step = "idle" /\ host.state \in {"none", "errored"}
    /\ agent.proc < MaxProc
    /\ agent' = NewAgent(agent.proc + 1)
    /\ host' = [host EXCEPT !.step = "launched"]
    /\ UNCHANGED <<rail, epoch, drn, hnd, sent, did, refused, faults, rejects, late>>

StartBind ==
    /\ host.step = "launched"
    /\ NewEpoch
    /\ rail' = NewSession(epoch + 1)
    /\ epoch' = epoch + 1
    /\ host' = [step |-> "bound", state |-> "ready"]
    /\ UNCHANGED <<drn, agent, hnd, sent, did, refused, faults, rejects>>

StartReplayComplete ==
    /\ host.step = "bound" /\ rail.nextSeq < MaxSeq
    /\ rail' = Appended(rail, ReplayComplete)
    /\ host' = [host EXCEPT !.step = "idle"]
    /\ UNCHANGED <<epoch, drn, agent, hnd, sent, did, refused, faults, rejects, late>>

(* Deliver looks the session up and sends; it may land anywhere in a Start or  *)
(* a Reload.                                                                   *)
Deliver(op) ==
    /\ host.state = "ready" /\ Bound
    /\ op \notin sent \union {d[2] : d \in did \union refused}
    /\ ~RetentionFull(rail, op) /\ rail.nextSeq < MaxSeq
    /\ rail' = Appended(rail, op)
    /\ sent' = sent \union {op}
    /\ UNCHANGED <<host, epoch, drn, agent, hnd, did, refused, faults, rejects, late>>

Retire == rail' = Unbound /\ sent' = {}

(* The process is gone, and with it its Control stream and the batch it sends. *)
(* The Publish handler of that batch may still hold frames it received.        *)
Kill == agent' = [NewAgent(agent.proc) EXCEPT !.up = FALSE] /\ drn' = Idle

ReloadStop ==
    /\ host.step = "idle" /\ host.state \in {"ready", "errored"}
    /\ agent.proc < MaxProc
    /\ Kill
    /\ host' = [host EXCEPT !.step = "stopped"]
    /\ UNCHANGED <<rail, epoch, hnd, sent, did, refused, faults, rejects, late>>

(* BindSession is a no-op on a bound session, and brings back an errored one.  *)
Rebound == IF Bound THEN rail ELSE NewSession(epoch + 1)
RestartEpoch == IF Bound THEN epoch + 1 ELSE epoch + 2

ReloadRestart ==
    /\ host.step = "stopped"
    /\ NewEpoch
    /\ Cardinality(Kept(Rebound)) < MaxSeq
    /\ rail' = Restarted(Rebound, ReplayComplete, RestartEpoch)
    /\ epoch' = RestartEpoch
    /\ host' = [host EXCEPT !.step = "restarted"]
    /\ UNCHANGED <<drn, agent, hnd, sent, did, refused, faults, rejects>>

ReloadLaunch ==
    /\ host.step = "restarted"
    /\ agent' = [NewAgent(agent.proc + 1) EXCEPT !.reloaded = TRUE]
    /\ host' = [step |-> "idle", state |-> "ready"]
    /\ UNCHANGED <<rail, epoch, drn, hnd, sent, did, refused, faults, rejects, late>>

(* A failed sweep, bind or launch of a Reload: markErrored.                    *)
ReloadFail ==
    /\ host.step \in {"stopped", "restarted"} /\ faults < MaxFaults
    /\ host' = [step |-> "idle", state |-> "errored"]
    /\ Retire
    /\ faults' = faults + 1
    /\ UNCHANGED <<epoch, drn, agent, hnd, did, refused, rejects, late>>

Crash ==
    /\ agent.up /\ faults < MaxFaults
    /\ Kill
    /\ faults' = faults + 1
    /\ UNCHANGED <<host, rail, epoch, hnd, sent, did, refused, rejects, late>>

(* retireOnExit takes the container lock, then markErrored.                    *)
MarkErrored ==
    /\ host = [step |-> "idle", state |-> "ready"] /\ ~agent.up
    /\ host' = [host EXCEPT !.state = "errored"]
    /\ Retire
    /\ UNCHANGED <<epoch, drn, agent, hnd, did, refused, faults, rejects, late>>

(* Stop retires the session, then stops the process.                           *)
StopRetire ==
    /\ host.step = "idle" /\ host.state # "none"
    /\ host' = [step |-> "stopping", state |-> "none"]
    /\ Retire
    /\ UNCHANGED <<epoch, drn, agent, hnd, did, refused, faults, rejects, late>>

StopKill ==
    /\ host.step = "stopping"
    /\ Kill
    /\ host' = [host EXCEPT !.step = "idle"]
    /\ UNCHANGED <<rail, epoch, hnd, sent, did, refused, faults, rejects, late>>

(* The control stream ended cleanly and the loop has run out of ops: the agent *)
(* reports STOPPED and exits.                                                  *)
Exit ==
    /\ agent.up /\ agent.ended /\ agent.buffer = << >> /\ agent.busy = Nil
    /\ Kill
    /\ UNCHANGED <<host, rail, epoch, hnd, sent, did, refused, faults, rejects, late>>

-----------------------------------------------------------------------------
(* The Control stream: serve on the Runner, the reconnecting pump on the       *)
(* agent.  A displaced or retired drainer returns nil, which the agent sees as *)
(* a clean end.                                                                *)

Connect ==
    /\ agent.up /\ ~agent.ended /\ drn.pc = "idle"
    /\ host.state # "none" /\ Bound /\ rail.sub < MaxSub
    /\ rail' = Claimed(rail, "agent")
    /\ drn' = Subscribed("session", rail)
    /\ UNCHANGED <<host, epoch, agent, hnd, sent, did, refused, faults, rejects, late>>

Displaced == ~Bound \/ rail.sub # drn.mine

DrainTop ==
    /\ drn.pc = "top" /\ ~Displaced
    /\ drn' = Collected(drn, rail)
    /\ UNCHANGED <<host, rail, epoch, agent, hnd, sent, did, refused, faults, rejects, late>>

DrainWake ==
    /\ drn.pc = "park" /\ ~Displaced
    /\ CollectBatch(rail, drn.sent, drn.above) # {}
    /\ drn' = [drn EXCEPT !.pc = "top"]
    /\ UNCHANGED <<host, rail, epoch, agent, hnd, sent, did, refused, faults, rejects, late>>

DrainEnd ==
    /\ drn.pc # "idle" /\ Displaced
    /\ drn' = Idle
    /\ agent' = [agent EXCEPT !.ended = TRUE]
    /\ UNCHANGED <<host, rail, epoch, hnd, sent, did, refused, faults, rejects, late>>

Drop ==
    /\ drn.pc # "idle" /\ faults < MaxFaults
    /\ drn' = Idle
    /\ rail' = IF Displaced THEN rail ELSE [rail EXCEPT !.live = FALSE]
    /\ faults' = faults + 1
    /\ UNCHANGED <<host, epoch, agent, hnd, sent, did, refused, rejects, late>>

-----------------------------------------------------------------------------
(* The agent's ControlSource.  AckCursor: the highest contiguous applied seq,  *)
(* and the seqs applied above it.  Every application queues one cumulative ack.*)

IsApplied(a, seq) == seq <= a.cursor \/ seq \in a.above
Acking(a) == [a EXCEPT !.spine = Append(@, [cursor |-> a.cursor, above |-> a.above])]
MarkApplied(a, seqs) ==
    LET new == a.above \union {n \in seqs : n > a.cursor}
        cursor == AbsorbContiguous(a.cursor, new)
    IN  Acking([a EXCEPT !.cursor = cursor, !.above = AboveFrom(cursor, new)])

Seen(a, seq) == IsApplied(a, seq) \/ seq \in a.queued

(* dispatch: what the source makes of one op, and whether the op is applied,   *)
(* or refused by the replay barrier, there and then.                           *)
Queued(a, r) == [a EXCEPT !.queued = @ \union {r.seq}, !.buffer = Append(@, r)]
Taken(a, r) ==
    CASE r.op \in Pulled -> Queued(a, r)
      [] r.op \in ReplayOps -> [Queued(a, r) EXCEPT !.barrier = TRUE]
      [] r.op \in TurnEnd /\ a.barrier ->
           [a EXCEPT !.queued = @ \union {r.seq}, !.turn = @ \union {r}]
      [] OTHER -> MarkApplied(a, {r.seq})
Dispatched(a, r) ==
    IF IsApplied(a, r.seq) THEN Acking(a) ELSE IF r.seq \in a.queued THEN a ELSE Taken(a, r)
AppliesNow(a, r) == ~Seen(a, r.seq) /\ r.op \in Immediate /\ a.barrier
RefusesNow(a, r) == ~Seen(a, r.seq) /\ r.op \in Immediate \union TurnEnd /\ ~a.barrier

Noted(p, op, cond) == IF cond THEN {<<p, op>>} ELSE {}

DrainWrite ==
    /\ drn.pc = "check" /\ ~Displaced
    /\ LET r == NextOf(drn.batch) IN
         /\ agent' = Dispatched(agent, r)
         /\ did' = did \union Noted(agent.proc, r.op, AppliesNow(agent, r))
         /\ refused' = refused \union Noted(agent.proc, r.op, RefusesNow(agent, r))
    /\ drn' = [Written(drn) EXCEPT !.wrote = {}]
    /\ UNCHANGED <<host, rail, epoch, hnd, sent, faults, rejects, late>>

(* The control loop: pull an op, apply it, and acknowledge it on the next pull.*)
Pull ==
    /\ agent.up /\ agent.busy = Nil /\ agent.buffer # << >>
    /\ agent' = [agent EXCEPT !.busy = Head(agent.buffer), !.buffer = Tail(@)]
    /\ UNCHANGED <<host, rail, epoch, drn, hnd, sent, did, refused, faults, rejects, late>>

ApplyControl ==
    /\ agent.up /\ agent.busy # Nil /\ ~agent.done
    /\ LET op == agent.busy.op IN
         /\ agent' = [agent EXCEPT !.done = TRUE, !.ready = @ \/ op \in ReplayOps]
         /\ did' = did \union Noted(agent.proc, op, op \in Pulled /\ agent.ready)
         /\ refused' = refused \union Noted(agent.proc, op, op \in Pulled /\ ~agent.ready)
    /\ UNCHANGED <<host, rail, epoch, drn, hnd, sent, faults, rejects, late>>

AckPulled ==
    /\ agent.up /\ agent.done
    /\ agent' = MarkApplied([agent EXCEPT !.busy = Nil, !.done = FALSE,
                                          !.queued = @ \ {agent.busy.seq}], {agent.busy.seq})
    /\ UNCHANGED <<host, rail, epoch, drn, hnd, sent, did, refused, faults, rejects, late>>

(* The turn-end flush injects the whole queue as one prompt, then acks it in   *)
(* one microtask (the last of its cumulative acks stands for all of them).  A  *)
(* rejected prompt injects nothing; the queue is gone and no ack is sent.      *)
FlushTurnEnd_AcksUnapplied ==
    /\ agent.up /\ agent.turn # {}
    /\ agent' = MarkApplied([agent EXCEPT !.turn = {}, !.queued = @ \ Seqs(agent.turn)],
                            Seqs(agent.turn))
    /\ UNCHANGED <<host, rail, epoch, drn, hnd, sent, did, refused, faults, rejects, late>>
FlushTurnEnd ==
    /\ agent.up /\ agent.turn # {}
    /\ agent' = MarkApplied([agent EXCEPT !.turn = {}, !.queued = @ \ Seqs(agent.turn)],
                            Seqs(agent.turn))
    /\ did' = did \union {<<agent.proc, r.op>> : r \in agent.turn}
    /\ UNCHANGED <<host, rail, epoch, drn, hnd, sent, refused, faults, rejects, late>>

FlushRejected ==
    /\ agent.up /\ agent.turn # {} /\ rejects < MaxRejects
    /\ agent' = [agent EXCEPT !.turn = {}]
    /\ rejects' = rejects + 1
    /\ UNCHANGED <<host, rail, epoch, drn, hnd, sent, did, refused, faults, late>>

-----------------------------------------------------------------------------
(* The Publish spine sends the queued acks as one stream per batch; its        *)
(* handler on the Runner reads the epoch once, then routes every ack.          *)

(* beginPublish: an unknown session is refused, and one reported ERRORED is    *)
(* fenced until the next BindSession.                                          *)
PublishOpen ==
    LET p == agent.proc IN
    /\ agent.up /\ agent.sending = << >> /\ agent.spine # << >>
    /\ host.state = "ready" /\ hnd[p].step = "none"
    /\ hnd' = [hnd EXCEPT ![p] = [step |-> "opened", epoch |-> 0, frames |-> agent.spine]]
    /\ agent' = [agent EXCEPT !.sending = @ \o agent.spine, !.spine = << >>]
    /\ UNCHANGED <<host, rail, epoch, drn, sent, did, refused, faults, rejects, late>>

CaptureEpoch(p) ==
    /\ hnd[p].step = "opened"
    /\ hnd' = [hnd EXCEPT ![p] = [@ EXCEPT !.step = "reading",
                                          !.epoch = IF Bound THEN rail.epoch ELSE 0]]
    /\ UNCHANGED <<host, rail, epoch, drn, agent, sent, did, refused, faults, rejects, late>>

(* AckControl on the session's current object.                                 *)
RouteAck(p) ==
    /\ hnd[p].step = "reading" /\ hnd[p].frames # << >>
    /\ LET ack == Head(hnd[p].frames) IN
         rail' = IF Bound /\ ~Fenced(rail, hnd[p].epoch)
                 THEN Acked(rail, AdvancedCursor(rail, ack.cursor), ack.above)
                 ELSE rail
    /\ hnd' = [hnd EXCEPT ![p].frames = Tail(@)]
    /\ UNCHANGED <<host, epoch, drn, agent, sent, did, refused, faults, rejects, late>>

Sender(p) == agent.up /\ agent.proc = p

PublishDone(p) ==
    /\ hnd[p].step = "reading" /\ hnd[p].frames = << >>
    /\ hnd' = [hnd EXCEPT ![p] = NoHandler]
    /\ agent' = IF Sender(p) THEN [agent EXCEPT !.sending = << >>] ELSE agent
    /\ UNCHANGED <<host, rail, epoch, drn, sent, did, refused, faults, rejects, late>>

(* A dead process's stream breaks; a live one's batch fails and is put back in *)
(* front, or given up once the retry budget is spent.                          *)
PublishBreak(p) ==
    /\ hnd[p].step # "none"
    /\ hnd' = [hnd EXCEPT ![p] = NoHandler]
    /\ \/ ~Sender(p) /\ UNCHANGED <<agent, faults>>
       \/ /\ Sender(p) /\ faults < MaxFaults
          /\ faults' = faults + 1
          /\ \E spine \in {agent.spine, agent.sending \o agent.spine} :
               agent' = [agent EXCEPT !.spine = spine, !.sending = << >>]
    /\ UNCHANGED <<host, rail, epoch, drn, sent, did, refused, rejects, late>>

-----------------------------------------------------------------------------
Begin == StartLaunch \/ ReloadStop \/ StopRetire
Finish ==
    \/ StartBind \/ StartReplayComplete \/ ReloadRestart \/ ReloadLaunch \/ StopKill
    \/ MarkErrored
Stream == Connect \/ DrainTop \/ DrainWake \/ DrainWrite \/ DrainEnd
Loop == Pull \/ ApplyControl \/ AckPulled
Publish == PublishOpen \/ \E p \in Procs : CaptureEpoch(p) \/ RouteAck(p) \/ PublishDone(p)
Faults == ReloadFail \/ Crash \/ Drop \/ FlushRejected \/ \E p \in Procs : PublishBreak(p)

Next ==
    \/ Begin \/ Finish \/ Exit \/ Stream \/ Loop \/ FlushTurnEnd \/ Publish \/ Faults
    \/ \E op \in LiveOps : Deliver(op)

Spec == Init /\ [][Next]_vars

(* The host finishes the call it began, the streams are served, the control    *)
(* loop runs, a turn ends.  Nothing promises that a call begins or an op comes.*)
Fairness ==
    /\ WF_vars(Finish) /\ WF_vars(Stream) /\ WF_vars(Loop)
    /\ WF_vars(FlushTurnEnd) /\ WF_vars(Publish)
LiveSpec == Spec /\ Fairness

-----------------------------------------------------------------------------
Elems(s) == {s[i] : i \in DOMAIN s}
Pending ==
    agent.turn \union Elems(agent.buffer)
      \union (IF agent.busy = Nil THEN {} ELSE {agent.busy})
Handled(op) == \E p \in Procs : <<p, op>> \in did \union refused

(* The one op the source drops unhandled: a notification whose turn-end prompt *)
(* was rejected stays in queued, so only the next process can take it.         *)
RejectedPrompt(op) == op \in TurnEnd /\ rejects > 0

(* The type invariant.                                                         *)
TypeOK ==
    /\ host.step \in {"idle", "launched", "bound", "stopped", "restarted", "stopping"}
    /\ host.state \in {"none", "ready", "errored"}
    /\ rail.ops \subseteq Retained /\ rail.cursor \in 0..MaxSeq
    /\ agent.proc \in 0..MaxProc /\ Pending \subseteq Retained
    /\ sent \subseteq LiveOps /\ did \union refused \subseteq Procs \X LiveOps

(* Retain until acked: an op the lane accepted stays retained until some agent *)
(* process has applied or refused it, across reloads, crashes and lost acks.   *)
(* Only a stream that reads its epoch late can acknowledge for another process.*)
RetainedUntilHandled ==
    ~late => \A op \in sent : Handled(op) \/ \E r \in rail.ops : r.op = op

(* At least once becomes exactly once (control-source.ts): what a process has  *)
(* applied, refused or holds, it recognises when the lane sends it again.      *)
RedeliveryRecognised ==
    agent.up => \A r \in rail.ops \union drn.batch :
       r \in Pending \/ <<agent.proc, r.op>> \in did \union refused => Seen(agent, r.seq)

(* No op is mistaken for one that was already seen: a retained op whose number *)
(* the source would drop is one this process handled or still holds, or one    *)
(* whose turn-end prompt was rejected.                                         *)
SeenIsHandled ==
    agent.up => \A r \in rail.ops :
       Seen(agent, r.seq) /\ r.op \in LiveOps /\ ~RejectedPrompt(r.op)
         => r \in Pending \/ <<agent.proc, r.op>> \in did \union refused

(* A reload hands the session over with replay_complete first (reloadLocked),  *)
(* so the process it launches refuses no op, however a Deliver races it.       *)
(* (late: as in RetainedUntilHandled, it may ack replay_complete away.)        *)
ReloadRefusesNothing ==
    ~late /\ agent.reloaded => \A x \in refused : x[1] # agent.proc

(* An op the lane accepted is eventually applied or refused, unless the        *)
(* session is retired first or its turn-end prompt rejected; reconnects,       *)
(* reloads and lost acks do not stop it.  (late: as in RetainedUntilHandled.)  *)
EventuallyHandled ==
    \A op \in LiveOps :
       op \in sent ~> Handled(op) \/ op \notin sent \/ RejectedPrompt(op) \/ late

(* At least once and at most once: an op stays retained until a process has    *)
(* handled it, is dropped only by one that did, and is recognised when sent    *)
(* again.                                                                      *)
HandledOnce == RetainedUntilHandled /\ SeenIsHandled /\ RedeliveryRecognised
=============================================================================
