----------------------------- MODULE AgentBoards ---------------------------
(* One agent's status board: patches by the agent and by its runtime, each a   *)
(* transaction under the agent's row lock, and a panel whose query reads *)
(* a snapshot of the board again on every AgentBoardChanged.                   *)
EXTENDS Integers, FiniteSets, FiniteSetsExt, Sequences, SequencesExt

CONSTANTS Writers, MaxTasks, MaxSubs, Nil

VARIABLES
    meta,    \* agent_boards: Nil or [focus, halt, turn]; 0 stands for none
    tasks,   \* agent_board_tasks: a set of [key, pos, waiting, turn, subs]
    writer,  \* [Writers -> Nil or the call in progress]
    panel,   \* [shows: the query's data, fetch: Nil or the read under way, failed: the last one did]
    unread   \* AgentBoardChanged events published and not yet seen by the panel
abvars == <<meta, tasks, writer, panel, unread>>

(* A subagent is [id, settled, started]; a patch is [upsert, remove, focus,    *)
(* halt, clear, auto, turn], and Nil is a field left out.                      *)
EmptyBoardPatch(p) == p.upsert = << >> /\ p.remove = {} /\ p.focus = Nil /\ p.halt = Nil /\ ~p.clear

-----------------------------------------------------------------------------
(* The merge, on the board as read: [focus, halt, turn, tasks], tasks in order *)
(* of position.  Nil is a patch refused as a whole.                            *)
GetAgentBoards == IF meta = Nil THEN [focus |-> 0, halt |-> 0, turn |-> 0] ELSE meta
GetAgentBoardTasks(rows) == SetToSortSeq(rows, LAMBDA x, y : x.pos < y.pos \/ (x.pos = y.pos /\ x.key < y.key))
Row(head, list) == [focus |-> head.focus, halt |-> head.halt, turn |-> head.turn, tasks |-> list]
BoardForAgent == Row(GetAgentBoards, GetAgentBoardTasks(tasks))

BoardTaskIndex(list, k) == {i \in DOMAIN list : list[i].key = k}
BoardHasTask(list, k) == BoardTaskIndex(list, k) # {}
NextBoardPosition(list) == Max({t.pos : t \in ToSet(list)} \union {-1}) + 1

(* Updates replace by id or append; over the limit, the settled subagent that  *)
(* started first goes, and with none settled the patch is refused.             *)
SubagentSettled(s) == s.settled
PutSubagent(list, s) ==
    IF \E i \in DOMAIN list : list[i].id = s.id
    THEN [i \in DOMAIN list |-> IF list[i].id = s.id THEN s ELSE list[i]]
    ELSE Append(list, s)
EvictOldest(list) ==
    LET ended == {i \in DOMAIN list : SubagentSettled(list[i])}
        first == {i \in ended : \A j \in ended : list[i].started < list[j].started \/ (list[i].started = list[j].started /\ i <= j)}
    IN IF ended = {} THEN list ELSE RemoveAt(list, CHOOSE i \in first : TRUE)
MergeSubagents(list, updates) ==
    LET merged == FoldLeft(PutSubagent, list, updates)
        trimmed == FoldLeft(LAMBDA s, i : IF Len(s) > MaxSubs THEN EvictOldest(s) ELSE s, merged, merged)
    IN IF Len(trimmed) > MaxSubs THEN Nil ELSE trimmed

ApplyTaskPatch(row, u, p) ==
    LET subs == MergeSubagents(row.subs, u.subs)
    IN IF subs = Nil THEN Nil
       ELSE [row EXCEPT !.waiting = IF u.waiting = Nil THEN @ ELSE u.waiting,
                        !.subs = subs, !.turn = IF p.auto THEN @ ELSE p.turn]
NewTask(list, k) == [key |-> k, pos |-> NextBoardPosition(list), waiting |-> 0, turn |-> 0, subs |-> << >>]
ApplyBoardTaskUpserts(list, p) ==
    LET Upsert(l, u) ==
          IF l = Nil THEN Nil
          ELSE LET known == BoardHasTask(l, u.key)
                   full == IF known THEN l ELSE Append(l, NewTask(l, u.key))
                   i == CHOOSE j \in BoardTaskIndex(full, u.key) : TRUE
                   row == ApplyTaskPatch(full[i], u, p)
               IN IF (~known /\ (~u.title \/ Len(l) = MaxTasks)) \/ row = Nil THEN Nil ELSE [full EXCEPT ![i] = row]
    IN FoldLeft(Upsert, list, p.upsert)
RemoveBoardTasks(list, keys) == SelectSeq(list, LAMBDA t : t.key \notin keys)
ApplyBoardHalt(halt, p) == IF p.clear THEN 0 ELSE IF p.halt # Nil THEN p.halt ELSE halt
MergeBoardPatch(b, p) ==
    LET list == ApplyBoardTaskUpserts(RemoveBoardTasks(b.tasks, p.remove), p)
        focus == IF p.focus # Nil THEN p.focus ELSE IF b.focus \in p.remove THEN 0 ELSE b.focus
    IN IF list = Nil THEN Nil
       ELSE IF focus # 0 /\ ~BoardHasTask(list, focus) THEN Nil
       ELSE [focus |-> focus, halt |-> ApplyBoardHalt(b.halt, p), turn |-> IF p.auto THEN b.turn ELSE p.turn, tasks |-> list]

-----------------------------------------------------------------------------
(* What is written: the fields the patch touches, not the merged board.        *)
UpsertAgentBoard(b, next, p) ==
    LET old == GetAgentBoards
    IN [focus |-> IF p.focus # Nil \/ next.focus # b.focus THEN next.focus ELSE old.focus,
        halt |-> IF meta # Nil /\ p.clear THEN 0 ELSE IF p.halt # Nil THEN next.halt ELSE old.halt,
        turn |-> IF p.auto THEN old.turn ELSE p.turn]
DeleteAgentBoardTasks(rows, keys) == {t \in rows : t.key \notin keys}
UpsertAgentBoardTask(rows, t) == {r \in rows : r.key # t.key} \union {t}
PersistBoardTasks(next, p) ==
    LET kept == DeleteAgentBoardTasks(tasks, p.remove)
        touched == {p.upsert[i].key : i \in DOMAIN p.upsert}
    IN FoldLeft(UpsertAgentBoardTask, kept, SelectSeq(next.tasks, LAMBDA t : t.key \in touched))

LockBoardAgent_Unlocked(w) == TRUE
LockBoardAgent(w) == \A v \in Writers \ {w} : writer[v] # Nil => writer[v].at # "locked"
UpdateBoardAsAccount(w, p) ==
    /\ writer[w] = Nil
    /\ LockBoardAgent(w)
    /\ writer' = [writer EXCEPT ![w] = [at |-> "locked", patch |-> p, read |-> BoardForAgent, told |-> Nil]]
    /\ UNCHANGED <<meta, tasks, panel, unread>>
ApplyBoardPatch(w) ==
    LET p == writer[w].patch
        next == MergeBoardPatch(writer[w].read, p)
    IN /\ writer[w] # Nil /\ writer[w].at = "locked"
       /\ IF (p.auto /\ EmptyBoardPatch(p)) \/ next = Nil
          THEN writer' = [writer EXCEPT ![w] = Nil] /\ UNCHANGED <<meta, tasks>>
          ELSE /\ meta' = UpsertAgentBoard(writer[w].read, next, p)
               /\ tasks' = PersistBoardTasks(next, p)
               /\ writer' = [writer EXCEPT ![w].at = "committed", ![w].told = <<next, BoardForAgent'>>]
       /\ UNCHANGED <<panel, unread>>
PublishBoardChanged(w) ==
    /\ writer[w] # Nil /\ writer[w].at = "committed"
    /\ unread' = unread + 1
    /\ writer' = [writer EXCEPT ![w] = Nil]
    /\ UNCHANGED <<meta, tasks, panel>>
(* An error or a caller gone before the commit; after it, the event is lost    *)
(* only with the server.                                                       *)
RollBack(w) ==
    /\ writer[w] # Nil /\ writer[w].at = "locked"
    /\ writer' = [writer EXCEPT ![w] = Nil]
    /\ UNCHANGED <<meta, tasks, panel, unread>>

(* The panel.  Its effect marks the events seen and asks for a refetch, whose  *)
(* answer or failure comes later; the query also refetches on a timer.         *)
Sent == [head |-> Nil, snapshot |-> {}, listed |-> FALSE, got |-> Nil]
Refetch_Joins == IF panel.fetch = Nil THEN Sent ELSE panel.fetch
(* refetch() drops the fetch under way and sends another.                      *)
Refetch == Sent
SeeBoardChanged ==
    /\ unread > 0
    /\ \E left \in 0..(unread - 1) : unread' = left
    /\ panel' = [panel EXCEPT !.fetch = Refetch]
    /\ UNCHANGED <<meta, tasks, writer>>
RefetchInterval ==
    /\ panel.fetch = Nil
    /\ panel' = [panel EXCEPT !.fetch = Sent]
    /\ UNCHANGED <<meta, tasks, writer, unread>>

(* The server's answer, AgentBoards: two reads in one REPEATABLE READ          *)
(* transaction, so both see what its first statement saw.                      *)
SnapshotTasks_ReadCommitted(r) == tasks
SnapshotTasks(r) == r.snapshot
BeginBoardSnapshot ==
    /\ panel.fetch = Sent
    /\ panel' = [panel EXCEPT !.fetch = [head |-> GetAgentBoards, snapshot |-> tasks, listed |-> meta # Nil, got |-> Nil]]
    /\ UNCHANGED <<meta, tasks, writer, unread>>
ReadAgentBoardRows ==
    LET r == panel.fetch IN
    /\ r # Nil /\ r.head # Nil /\ r.got = Nil
    /\ panel' = [panel EXCEPT !.fetch.got = Row(r.head, IF r.listed THEN GetAgentBoardTasks(SnapshotTasks(r)) ELSE << >>)]
    /\ UNCHANGED <<meta, tasks, writer, unread>>
(* The answer arrives, or the read and its one retry fail: the query then      *)
(* keeps the data it had.                                                      *)
FetchEnds ==
    /\ panel.fetch # Nil
    /\ \/ panel.fetch.got # Nil /\ panel' = [shows |-> panel.fetch.got, fetch |-> Nil, failed |-> FALSE]
       \/ panel' = [panel EXCEPT !.fetch = Nil, !.failed = TRUE]
    /\ UNCHANGED <<meta, tasks, writer, unread>>

-----------------------------------------------------------------------------
(* The board keeps its limits, its focus is one of its tasks, and no two tasks *)
(* share a place, whatever patches overlap.                                    *)
Bounded(b) ==
    /\ Len(b.tasks) <= MaxTasks
    /\ b.focus # 0 => BoardHasTask(b.tasks, b.focus)
    /\ \A i, j \in DOMAIN b.tasks : b.tasks[i].pos = b.tasks[j].pos => i = j
    /\ \A i \in DOMAIN b.tasks : Len(b.tasks[i].subs) <= MaxSubs
(* A patch answers with the board it has stored, in the order it is stored,    *)
(* and a read never mixes two versions of it.                                  *)
AnswersStored ==
    /\ \A w \in Writers : writer[w] # Nil /\ writer[w].told # Nil => writer[w].told[1] = writer[w].told[2]
    /\ panel.fetch # Nil /\ panel.fetch.got # Nil => Bounded(panel.fetch.got)
(* A panel with no event to see, none to come and no read under way shows the  *)
(* stored board, unless its last read failed: then it shows an older one until *)
(* the next event or the timer.                                                *)
PanelCurrent ==
    (/\ unread = 0 /\ panel.fetch = Nil /\ ~panel.failed
     /\ \A w \in Writers : writer[w] # Nil => writer[w].at # "committed") => panel.shows = BoardForAgent
BoardsSound == Bounded(BoardForAgent) /\ AnswersStored /\ PanelCurrent

-----------------------------------------------------------------------------
(* Bounds for AgentBoards: MaxPatches patches, each of at most two upserts, on *)
(* a board of two tasks, the second in focus.                                  *)
CONSTANTS TaskKeys, MaxPatches
VARIABLE load

Task(k) == [key |-> k, pos |-> k - 1, waiting |-> 0, turn |-> 0, subs |-> << >>]
AbInit ==
    /\ meta = [focus |-> 2, halt |-> 0, turn |-> 0] /\ tasks = {Task(1), Task(2)} /\ unread = 0
    /\ writer = [w \in Writers |-> Nil]
    /\ panel = [shows |-> Row([focus |-> 2, halt |-> 0, turn |-> 0], <<Task(1), Task(2)>>), fetch |-> Nil, failed |-> FALSE]
    /\ load = 0

Op(A) == load < MaxPatches /\ A /\ load' = load + 1
Free(A) == A /\ load' = load
Sub(id, done, at) == [id |-> id, settled |-> done, started |-> at]
SubLists == {<< >>, <<Sub(1, TRUE, 2), Sub(2, FALSE, 1)>>}
Put(k, title, subs) == [key |-> k, title |-> title, waiting |-> Nil, subs |-> subs]
Upserts == {<< >>} \union {<<Put(k, TRUE, s)>> : k \in TaskKeys, s \in SubLists}
           \union {<<Put(k, FALSE, << >>), Put(j, TRUE, << >>)>> : k, j \in TaskKeys}
Patches == [upsert : Upserts, remove : {{}}, focus : {Nil}, halt : {Nil}, clear : {FALSE}, auto : BOOLEAN, turn : {load + 1}]
           \union [upsert : {us \in Upserts : Len(us) < 2}, remove : {{1}}, focus : {Nil}, halt : {Nil}, clear : {FALSE}, auto : {TRUE}, turn : {load + 1}]
           \union [upsert : {<< >>}, remove : {{}}, focus : TaskKeys, halt : {Nil, 1}, clear : {FALSE}, auto : {FALSE}, turn : {load + 1}]
           \union [upsert : {<< >>}, remove : {{}}, focus : {Nil}, halt : {Nil}, clear : {TRUE}, auto : {TRUE}, turn : {load + 1}]

DoPatch(w) == Op(\E p \in Patches : UpdateBoardAsAccount(w, p))
AbNext ==
    \/ Free(BeginBoardSnapshot) \/ Free(ReadAgentBoardRows)
    \/ Free(SeeBoardChanged) \/ Free(RefetchInterval) \/ Free(FetchEnds)
    \/ \E w \in Writers : DoPatch(w) \/ Free(ApplyBoardPatch(w)) \/ Free(PublishBoardChanged(w)) \/ Free(RollBack(w))
AbSpec == AbInit /\ [][AbNext]_<<abvars, load>>
=============================================================================
