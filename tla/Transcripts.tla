----------------------------- MODULE Transcripts -----------------------------
(***************************************************************************)
(* The durable transcript of one agent session.  The agent's tee sends     *)
(* each line it wrote locally as a frame and waits for the commit; the     *)
(* Runner forwards it; the store numbers it above what earlier lifetimes   *)
(* of the session left and keeps it as a row.  A background pass archives  *)
(* the rows below the latest checkpoint, and a safety valve the oldest     *)
(* rows above it, to an object store; the end of a session archives its    *)
(* tail without pruning it.  A resume rebuilds the body from the rows and  *)
(* the valve's segments.                                                   *)
(*                                                                         *)
(*   rows   agent_transcripts: the hot tail                                *)
(*   sess   the agent_sessions row: recorded or not, base_entry_seq        *)
(*   arch   the manifest (segs), the objects: their range and their text   *)
(*   agent  the lifetime, its tee and its sink, the line being sent        *)
(*   wire   commits the Server is handling                                 *)
(*   slot   the session's flush slot and the pass it runs; end is the      *)
(*          flush of a session's end                                       *)
(*   hist   the lines told durable, in order (a history variable)          *)
(***************************************************************************)
EXTENDS Integers, FiniteSets, Sequences, SequencesExt

CONSTANTS Cap,        \* safetyValveCapBytes
          Big,        \* the lines larger than it; the others are of size 1
          SinkTries,  \* attempts of one durable send
          TeeTries,   \* sends of one line before the tee fails the session
          Nil

VARIABLES rows, sess, arch, agent, wire, slot, hist

vars == <<rows, sess, arch, agent, wire, slot, hist>>

Biggest(S) == CHOOSE x \in S \union {0} : \A y \in S : y <= x

(* The size of the rows of a sequence from its i-th on.                    *)
Rest(rs, i) ==
    LET bytes == [j \in i .. Len(rs) |-> IF rs[j].id \in Big THEN Cap + 1 ELSE 1]
    IN SumFunction(bytes)

Sorted(R) == SetToSortSeq(R, LAMBDA r, s : r.seq < s.seq)

Init ==
    /\ rows = {}
    /\ sess = [recorded |-> FALSE, base |-> 0]
    /\ arch = [segs |-> {}, objects |-> {}]
    /\ agent = [life |-> 1, up |-> TRUE, seq |-> 0, keys |-> 0, out |-> Nil,
                fatal |-> FALSE]
    /\ wire = {}
    /\ slot = [pass |-> Nil, again |-> FALSE, end |-> Nil]
    /\ hist = [log |-> <<>>, late |-> FALSE]

-----------------------------------------------------------------------------
(* The queries.                                                            *)

sessionBase == sess.base

sessionMaxEntrySeq == Biggest({r.seq : r \in rows})

latestCheckpointSeq == Biggest({r.seq : r \in {x \in rows : x.cp}})

sessionTranscript == {r \in rows : r.seq >= latestCheckpointSeq}

(* Mutation: the safety valve may archive the newest row. *)
valveCut_All(rs) ==
    LET n == Len(rs)
        cuts == {k \in 1 .. n : \A i \in 1 .. k : Rest(rs, i) > Cap /\ ~rs[i].cp}
    IN IF Rest(rs, 1) <= Cap THEN 0 ELSE IF cuts = {} THEN 0 ELSE rs[Biggest(cuts)].seq

(* Mutation: a new lifetime is numbered from one again. *)
bindLifetime_Zero == [sess EXCEPT !.base = 0]

hotTailSizes == Sorted({r \in rows : r.seq > latestCheckpointSeq})

hotTailBytes == Rest(hotTailSizes, 1)

collectSegment(from, upto) == Sorted({r \in rows : r.seq \in from .. upto})

bindLifetime == [sess EXCEPT !.base = sessionMaxEntrySeq]

insertTranscriptEntry(r) ==
    IF \E x \in rows : x.key = r.key THEN rows ELSE rows \union {r}

insertArchiveSegment(min, max, kind) ==
    IF \E s \in arch.segs : s.min = min /\ s.max = max THEN arch.segs
    ELSE arch.segs \union {[min |-> min, max |-> max, kind |-> kind]}

pruneTranscriptEntries(min, max) == {r \in rows : r.seq \in min .. max}

remarkSafetyValveSuperseded(segs, below) ==
    {IF s.kind = "safety_valve" /\ s.max < below
     THEN [s EXCEPT !.kind = "superseded"] ELSE s : s \in segs}

safetyValveSegments ==
    {s \in arch.segs : s.kind = "safety_valve" /\ s.min > latestCheckpointSeq}

-----------------------------------------------------------------------------
(* The agent's tee and sink.  One line is in the air at a time.            *)

Line(cp, id) == [id |-> id, cp |-> cp, seq |-> agent.seq + 1,
                 key |-> <<agent.life, agent.keys + 1>>, tries |-> 0, sends |-> 1,
                 waits |-> FALSE, marked |-> FALSE]

(* append writes a delta, writeFull a checkpoint; nextFrame numbers it in  *)
(* this lifetime and the sink gives it a key.                              *)
Write(cp, id) ==
    /\ agent.up /\ ~agent.fatal /\ agent.out = Nil
    /\ agent' = [agent EXCEPT !.out = Line(cp, id), !.seq = @ + 1, !.keys = @ + 1]
    /\ UNCHANGED <<rows, sess, arch, wire, slot, hist>>

(* The sink's ladder retries under the same key; the tee then sends the    *)
(* same frame anew, under a new key; at its cap the session has failed.    *)
Failed ==
    LET o == agent.out IN
    IF o.tries + 1 < SinkTries
    THEN [agent EXCEPT !.out.tries = @ + 1, !.out.waits = FALSE]
    ELSE IF o.sends < TeeTries
    THEN [agent EXCEPT !.out.tries = 0, !.out.sends = @ + 1, !.out.waits = FALSE,
                       !.out.key = <<agent.life, agent.keys + 1>>, !.keys = @ + 1,
                       !.out.marked = FALSE]
    ELSE [agent EXCEPT !.fatal = TRUE, !.out.waits = FALSE]

Acked == [agent EXCEPT !.out = Nil]

Logged == [hist EXCEPT !.log = Append(@, [id |-> agent.out.id, cp |-> agent.out.cp])]

(* The Runner answers an attempt whose key it saw committed by itself.     *)
keyCommitted ==
    /\ agent.up /\ ~agent.fatal /\ agent.out # Nil /\ ~agent.out.waits /\ agent.out.marked
    /\ agent' = Acked /\ hist' = Logged
    /\ UNCHANGED <<rows, sess, arch, wire, slot>>

(* Else it forwards the frame to the Server.                               *)
PostConversationFrame ==
    /\ agent.up /\ ~agent.fatal /\ agent.out # Nil /\ ~agent.out.waits /\ ~agent.out.marked
    /\ wire' = wire \union {[life |-> agent.life, key |-> agent.out.key,
                             try |-> agent.out.tries, seq |-> agent.out.seq,
                             id |-> agent.out.id, cp |-> agent.out.cp, base |-> Nil]}
    /\ agent' = [agent EXCEPT !.out.waits = TRUE]
    /\ UNCHANGED <<rows, sess, arch, slot, hist>>

Awaited(c) ==
    /\ agent.up /\ c.life = agent.life /\ agent.out # Nil
    /\ agent.out.waits /\ agent.out.key = c.key /\ agent.out.tries = c.try

(* The agent's deadline: the commit may still be under way.                *)
Timeout ==
    /\ agent.up /\ agent.out # Nil /\ agent.out.waits
    /\ agent' = Failed
    /\ UNCHANGED <<rows, sess, arch, wire, slot, hist>>

-----------------------------------------------------------------------------
(* The Server's commit: the base is read, then the row is inserted.        *)

Answer(c, ok) ==
    /\ wire' = wire \ {c}
    /\ agent' = IF ~Awaited(c) THEN agent ELSE IF ok THEN Acked ELSE Failed

ReadBase(c) ==
    /\ c \in wire /\ c.base = Nil
    /\ \/ /\ sess.recorded
          /\ wire' = (wire \ {c}) \union {[c EXCEPT !.base = sessionBase]}
          /\ UNCHANGED agent
       \/ ~sess.recorded /\ Answer(c, FALSE)
    /\ UNCHANGED <<rows, sess, arch, slot, hist>>

(* A slot is owed a pass; a running one runs once more.                    *)
requestFlush ==
    IF slot.pass = Nil THEN [slot EXCEPT !.pass = [at |-> "checkpoint", job |-> Nil]]
    ELSE [slot EXCEPT !.again = TRUE]

Row(c) == [seq |-> c.base + c.seq, cp |-> c.cp, id |-> c.id, key |-> c.key]

Archived(id) == \E o \in arch.objects : id \in ToSet(o.text)

(* The answer reaches the agent, only the Runner, which marks the key, or  *)
(* nobody; unanswered, the attempt fails by Timeout.                       *)
AppendTranscriptEntry(c, told) ==
    /\ c \in wire /\ c.base # Nil
    /\ LET clash == \E r \in rows : r.seq = Row(c).seq /\ r.key # c.key
           dup == \E r \in rows : r.key = c.key
           ok == dup \/ ~clash
           new == ok /\ ~dup
       IN /\ rows' = IF ok THEN insertTranscriptEntry(Row(c)) ELSE rows
          /\ slot' = IF new THEN requestFlush ELSE slot
          /\ hist' = [(IF told = "agent" /\ ok /\ Awaited(c) THEN Logged ELSE hist)
                      EXCEPT !.late = @ \/ (new /\ (c.life # agent.life \/ Archived(c.id)))]
          /\ \/ told = "agent" /\ Answer(c, ok)
             \/ /\ told = "runner" /\ Awaited(c) /\ wire' = wire \ {c}
                /\ agent' = [agent EXCEPT !.out.marked = ok]
             \/ told = "none" /\ wire' = wire \ {c} /\ UNCHANGED agent
    /\ UNCHANGED <<sess, arch>>

(* The call is lost or cancelled before its insert.                        *)
DropCommit(c) ==
    /\ c \in wire
    /\ Answer(c, FALSE)
    /\ UNCHANGED <<rows, sess, arch, slot, hist>>

(* The Server records the session once its start was answered.             *)
RecordAgentSession ==
    /\ ~sess.recorded
    /\ sess' = [sess EXCEPT !.recorded = TRUE]
    /\ UNCHANGED <<rows, arch, agent, wire, slot, hist>>

-----------------------------------------------------------------------------
(* One flush: rows are collected, their object is put, and a transaction   *)
(* records the segment and prunes what it archived.                        *)

Job(from, upto, kind, prune, remark) ==
    [from |-> from, upto |-> upto, kind |-> kind, prune |-> prune,
     remark |-> remark, batch |-> <<>>, at |-> "collect"]

Lowest(j) == j.batch[1].seq
Highest(j) == j.batch[Len(j.batch)].seq

(* A text is a sequence of lines' contents and newlines.  An entry is kept *)
(* as the tee sent it, its newline included; a segment joins its entries   *)
(* with one more newline between each two.                                 *)
NewLine == 0
EntryJson(r) == <<r.id, NewLine>>
Joined(batch) ==
    FoldLeft(LAMBDA text, r : IF text = <<>> THEN EntryJson(r) ELSE text \o <<NewLine>> \o EntryJson(r), <<>>, batch)

Collected(j) == [j EXCEPT !.batch = collectSegment(j.from, j.upto), !.at = "put"]

PutSegment(j) ==
    {o \in arch.objects : o.min # Lowest(j) \/ o.max # Highest(j)}
        \union {[min |-> Lowest(j), max |-> Highest(j), text |-> Joined(j.batch)]}

Raced(j) ==
    j.prune /\ Cardinality(pruneTranscriptEntries(Lowest(j), Highest(j))) # Len(j.batch)

Committed(j) ==
    LET segs == insertArchiveSegment(Lowest(j), Highest(j), j.kind) IN
    /\ rows' = IF j.prune THEN rows \ pruneTranscriptEntries(Lowest(j), Highest(j)) ELSE rows
    /\ arch' = [arch EXCEPT !.segs = IF j.remark = 0 THEN segs
                                     ELSE remarkSafetyValveSuperseded(segs, j.remark)]

Going(j) == IF j.kind = "session_end" THEN [slot EXCEPT !.end = j]
            ELSE [slot EXCEPT !.pass.job = j]

(* One step of a flush; done and failed are what its caller goes on with.  *)
flushUpto(j, done, failed) ==
    \/ /\ j.at = "collect"
       /\ LET c == Collected(j) IN
          IF c.batch # <<>> THEN slot' = Going(c) /\ UNCHANGED arch
          ELSE /\ slot' = done
               /\ arch' = IF j.remark = 0 THEN arch
                          ELSE [arch EXCEPT !.segs =
                                    remarkSafetyValveSuperseded(@, j.remark)]
       /\ UNCHANGED rows
    \/ /\ j.at = "put"
       /\ arch' = [arch EXCEPT !.objects = PutSegment(j)]
       /\ slot' = Going([j EXCEPT !.at = "commit"])
       /\ UNCHANGED rows
    \/ /\ j.at = "commit"
       /\ IF Raced(j) THEN slot' = failed /\ UNCHANGED <<rows, arch>>
          ELSE Committed(j) /\ slot' = done

-----------------------------------------------------------------------------
(* The pass.                                                               *)

(* runSlot: a pass that ended is run again if one was asked for meanwhile. *)
PassOver ==
    IF slot.again THEN [slot EXCEPT !.again = FALSE, !.pass.at = "checkpoint", !.pass.job = Nil]
    ELSE [slot EXCEPT !.pass = Nil]

At(at, job) == [slot EXCEPT !.pass = [at |-> at, job |-> job]]

flushPass ==
    /\ slot.pass # Nil /\ slot.pass.at = "checkpoint"
    /\ slot' = IF latestCheckpointSeq = 0 THEN At("measure", Nil)
               ELSE At("primary", Job(0, latestCheckpointSeq - 1, "superseded", TRUE,
                                      latestCheckpointSeq))
    /\ UNCHANGED <<rows, sess, arch, agent, wire, hist>>

primaryFlush ==
    /\ slot.pass # Nil /\ slot.pass.at = "primary"
    /\ flushUpto(slot.pass.job, At("measure", Nil), PassOver)
    /\ UNCHANGED <<sess, agent, wire, hist>>

maybeSafetyValve ==
    /\ slot.pass # Nil /\ slot.pass.at = "measure"
    /\ slot' = IF hotTailBytes <= Cap THEN PassOver ELSE At("cut", Nil)
    /\ UNCHANGED <<rows, sess, arch, agent, wire, hist>>

(* The oldest rows until the rest fits, never the newest, never a          *)
(* checkpoint or what follows it.                                          *)
valveCut(rs) ==
    LET n == Len(rs)
        cuts == {k \in 1 .. n - 1 : \A i \in 1 .. k : Rest(rs, i) > Cap /\ ~rs[i].cp}
    IN IF Rest(rs, 1) <= Cap THEN 0 ELSE IF cuts = {} THEN 0 ELSE rs[Biggest(cuts)].seq

valve ==
    /\ slot.pass # Nil /\ slot.pass.at = "cut"
    /\ LET rs == hotTailSizes
           upto == valveCut(rs)
       IN slot' = IF upto = 0 THEN PassOver
                  ELSE At("valve", Job(rs[1].seq, upto, "safety_valve", TRUE, 0))
    /\ UNCHANGED <<rows, sess, arch, agent, wire, hist>>

valveFlush ==
    /\ slot.pass # Nil /\ slot.pass.at = "valve"
    /\ flushUpto(slot.pass.job, PassOver, PassOver)
    /\ UNCHANGED <<sess, agent, wire, hist>>

(* A read, the put or the transaction fails: the pass is over, and the     *)
(* next one covers the same rows.                                          *)
FlushFails ==
    /\ \/ slot.pass # Nil /\ slot' = PassOver
       \/ slot.end # Nil /\ slot' = [slot EXCEPT !.end = Nil]
    /\ UNCHANGED <<rows, sess, arch, agent, wire, hist>>

(* A session that ended archives all it has and prunes nothing.            *)
archiveSessionEnd ==
    /\ ~agent.up /\ slot.end = Nil /\ sessionMaxEntrySeq > 0
    /\ slot' = [slot EXCEPT !.end = Job(0, sessionMaxEntrySeq, "session_end", FALSE, 0)]
    /\ UNCHANGED <<rows, sess, arch, agent, wire, hist>>

FlushSuperseded ==
    /\ slot.end # Nil
    /\ LET over == [slot EXCEPT !.end = Nil] IN
       flushUpto(slot.end, over, over)
    /\ UNCHANGED <<sess, agent, wire, hist>>

-----------------------------------------------------------------------------
(* The agent's process ends; a resume or a reload binds a new lifetime     *)
(* before it starts the agent.  A bind without a session row keeps base 0. *)

Exit ==
    /\ agent.up
    /\ agent' = [agent EXCEPT !.up = FALSE]
    /\ UNCHANGED <<rows, sess, arch, wire, slot, hist>>

Held(id) == Archived(id) \/ \E r \in rows : r.id = id

BindLifetime ==
    /\ ~agent.up
    /\ sess' = IF sess.recorded THEN bindLifetime ELSE sess
    /\ agent' = [life |-> agent.life + 1, up |-> TRUE, seq |-> 0, keys |-> 0,
                 out |-> Nil, fatal |-> FALSE]
    /\ hist' = IF agent.out # Nil /\ Held(agent.out.id) THEN Logged ELSE hist
    /\ UNCHANGED <<rows, arch, wire, slot>>

(* The Server restarts: its passes and the calls it was handling are gone. *)
Restart ==
    /\ wire' = {} /\ slot' = [pass |-> Nil, again |-> FALSE, end |-> Nil]
    /\ agent' = IF agent.up /\ agent.out # Nil /\ agent.out.waits THEN Failed ELSE agent
    /\ UNCHANGED <<rows, sess, arch, hist>>

-----------------------------------------------------------------------------
(* The resume's read: the rows and the valve's segments of one snapshot.   *)

ReadArchiveSegment(s) == (CHOOSE o \in arch.objects : o.min = s.min /\ o.max = s.max).text

(* The text without its last newlines, cut at the others: lines may be     *)
(* empty.                                                                  *)
splitSegmentLines(text) ==
    LET last == Biggest({i \in DOMAIN text : text[i] # NewLine})
        cuts == SetToSortSeq({0, last + 1} \union {i \in 1 .. last : text[i] = NewLine}, LAMBDA i, j : i < j)
    IN IF last = 0 THEN <<>>
       ELSE [n \in 1 .. Len(cuts) - 1 |-> SubSeq(text, cuts[n] + 1, cuts[n + 1] - 1)]

(* A segment's lines are numbered from its first, empty ones included; at  *)
(* one number the hot row comes first.  The SDK that loads the body passes *)
(* over empty lines.                                                       *)
ReconstructSessionBody ==
    LET tail == {[seq |-> r.seq, of |-> 0, line |-> EntryJson(r)] : r \in sessionTranscript}
        lines(s) == {[seq |-> s.min + i - 1, of |-> s.min, line |-> splitSegmentLines(ReadArchiveSegment(s))[i]] :
                     i \in DOMAIN splitSegmentLines(ReadArchiveSegment(s))}
        all == tail \union UNION {lines(s) : s \in safetyValveSegments}
        before(a, b) == a.seq < b.seq \/ (a.seq = b.seq /\ a.of < b.of)
        body == SetToSortSeq(all, before)
    IN SelectSeq(FlattenSeq([i \in DOMAIN body |-> body[i].line]), LAMBDA x : x # NewLine)

-----------------------------------------------------------------------------
(* The lines a resume owes: from the last checkpoint on.                   *)
Owed(log) ==
    LET from == Biggest({i \in DOMAIN log : log[i].cp})
    IN [i \in 1 .. Len(log) - (IF from = 0 THEN 0 ELSE from - 1) |->
          log[i + (IF from = 0 THEN 0 ELSE from - 1)].id]

(* A segment of the session's end keeps its kind when the valve archives   *)
(* exactly its range later, and a resume does not read it.                 *)
Shadowed == \E s \in arch.segs : /\ s.kind = "session_end" /\ s.min > latestCheckpointSeq
                                 /\ pruneTranscriptEntries(s.min, s.max) = {}

(* A resume's body against the lines it owes, with the line in the air at  *)
(* most added.  Excused: a commit inserted after its lifetime ended or     *)
(* after its line was already archived, and a shadowed segment.            *)
Resumed(Is(_, _)) ==
    LET with == IF agent.out = Nil THEN hist.log
                ELSE Append(hist.log, [id |-> agent.out.id, cp |-> agent.out.cp])
    IN hist.late \/ Shadowed \/ \E log \in {hist.log, with} : Is(ReconstructSessionBody, Owed(log))
Same(s, t) == s = t
SameLines(s, t) == Len(s) = Len(t) /\ ToSet(s) = ToSet(t)

(* Whenever a session would be resumed, its body has the lines the agent   *)
(* was told are durable, from the last checkpoint on, each once; and they  *)
(* are in order as long as each of the valve's segments holds one line.    *)
TranscriptSound ==
    /\ Resumed(SameLines)
    /\ (\A s \in safetyValveSegments : s.min = s.max) => Resumed(Same)

(* What reconstruct.go:68 says of the merge: each archived line is stamped *)
(* with its own number, so that the body is in order.                      *)
ResumeInOrder == Resumed(Same)

-----------------------------------------------------------------------------
(* Transcripts with bounds: faults, lifetimes, and lines written (load.max).*)
CONSTANTS MaxFaults, MaxLives
VARIABLE load
tvars == <<vars, load>>
(* A session of the given kind: a fresh one, or one that holds two lines.  *)
Old(cp) == {[seq |-> i, cp |-> cp /\ i = 1, id |-> i, key |-> <<1, i>>] : i \in 1 .. 2}
OldLog(cp) == <<[id |-> 1, cp |-> cp], [id |-> 2, cp |-> FALSE]>>
Warm(cp) ==
    /\ rows = Old(cp)
    /\ sess = [recorded |-> TRUE, base |-> 0]
    /\ arch = [segs |-> {}, objects |-> {}]
    /\ agent = [life |-> 1, up |-> TRUE, seq |-> 2, keys |-> 2, out |-> Nil,
                fatal |-> FALSE]
    /\ wire = {}
    /\ slot = [pass |-> Nil, again |-> FALSE, end |-> Nil]
    /\ hist = [log |-> OldLog(cp), late |-> FALSE]
TInit ==
    \/ Init /\ load = [lines |-> 0, max |-> 2, faults |-> MaxFaults]
    \/ (\E cp \in BOOLEAN : Warm(cp)) /\ load = [lines |-> 2, max |-> 3, faults |-> 0]
    \/ Warm(FALSE) /\ load = [lines |-> 2, max |-> 4, faults |-> MaxFaults]
Line1 == load' = [load EXCEPT !.lines = @ + 1]
Fault(A) == load.faults < MaxFaults /\ A /\ load' = [load EXCEPT !.faults = @ + 1]
Run(A) == A /\ UNCHANGED load
TNext ==
    \/ load.lines < load.max /\ (\E cp \in BOOLEAN : Write(cp, load.lines + 1)) /\ Line1
    \/ Run(keyCommitted) \/ Run(PostConversationFrame) \/ Run(\E c \in wire : ReadBase(c))
    \/ Run(\E c \in wire : AppendTranscriptEntry(c, "agent"))
    \/ Fault(\E c \in wire, t \in {"runner", "none"} : AppendTranscriptEntry(c, t))
    \/ Fault(\E c \in wire : DropCommit(c)) \/ Run(RecordAgentSession)
    \/ Fault(Timeout)
    \/ Run(flushPass) \/ Run(primaryFlush) \/ Run(maybeSafetyValve) \/ Run(valve)
    \/ Run(valveFlush) \/ Run(archiveSessionEnd) \/ Run(FlushSuperseded)
    \/ (agent.life < MaxLives /\ Run(Exit)) \/ Run(BindLifetime) \/ Fault(Restart) \/ Fault(FlushFails)
TSpec == TInit /\ [][TNext]_tvars
=============================================================================
