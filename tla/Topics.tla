------------------------------- MODULE Topics -------------------------------
(* The conversation of one channel: its topics, messages, asks and pinned      *)
(* board.                                                                      *)
(*                                                                             *)
(* Every operation is a READ COMMITTED transaction.  A statement sees what was *)
(* committed when it ran and waits for the row locks other transactions hold;  *)
(* writes are seen by others when the transaction commits; and a transaction   *)
(* may roll back at any point (an error, a caller gone, the victim of a        *)
(* deadlock).  The order of statements that wait is kept; a run of statements  *)
(* that can neither wait nor see another's write is one step.                  *)
EXTENDS Integers, FiniteSets, FiniteSetsExt, Functions

CONSTANTS Members, Owner, Clients, Names, Keys, MaxPins, Nil

VARIABLES
    topics,  \* [ids of the stored topics -> [name, archived, last]]
    msgs,    \* stored messages: [seq, topic, author, key, ask, answers]; seq is also the id
    pins,    \* the board: [msg, pos]
    members, \* accounts that participate in the channel
    serial,  \* [msg, topic]: the last number each sequence gave out
    tx       \* [Clients -> Nil or the open call]
tpvars == <<topics, msgs, pins, members, serial, tx>>

In(c, op, at) == tx[c] # Nil /\ tx[c].op = op /\ tx[c].at = at
Begin(c, rec) == tx[c] = Nil /\ tx' = [tx EXCEPT ![c] = rec]
End(c) == tx' = [tx EXCEPT ![c] = Nil]
Others(c) == {tx[d] : d \in {e \in Clients \ {c} : tx[e] # Nil}}

(* Row locks on a topic: FOR UPDATE of an update, the KEY SHARE a message      *)
(* insert takes through its foreign key, and the row a revive has written.     *)
Locked(x, t) == x.op = "update" /\ t \in {x.topic, x.target}
KeyShared(x, t) == x.at = "inserted" /\ x.topic = t
Written(x, t) == x.op \in {"append", "ensure"} /\ x.revived /\ x.topic = t
Lockable(c, t) == \A x \in Others(c) : ~Locked(x, t) /\ ~KeyShared(x, t) /\ ~Written(x, t)
Writable(c, t) == \A x \in Others(c) : ~Locked(x, t) /\ ~Written(x, t)
Sharable(c, t) == \A x \in Others(c) : ~Locked(x, t)

(* requireChannelMember and the post policy: a plain read of committed rows.   *)
MayPost(a) == a \in members /\ Owner \in {Nil, a}

-----------------------------------------------------------------------------
(* Topic resolution of an append and of GetOrCreateTopic.                      *)
GetTopicByName(n) == {t \in DOMAIN topics : topics[t].name = n}
(* Two creates of one name wait for each other on topics_channel_name_idx.     *)
NameHeld(c, n) == \E x \in Others(c) : x.op \in {"append", "ensure"} /\ x.new = n
InsertTopicIgnore(c, n) == ~NameHeld(c, n) /\ GetTopicByName(n) = {}

Call(op, a, key, ask) ==
    [op |-> op, at |-> "resolved", author |-> a, key |-> key, ask |-> ask,
     topic |-> Nil, new |-> Nil, revived |-> FALSE, seq |-> 0, answers |-> 0, target |-> Nil]

ResolveTopicForAppend(c, call, ref) ==
    \/ /\ ref.id \in DOMAIN topics
       /\ Begin(c, [call EXCEPT !.topic = ref.id])
       /\ UNCHANGED serial
    \/ \E t \in GetTopicByName(ref.name) :
          /\ Begin(c, [call EXCEPT !.topic = t, !.at = IF topics[t].archived THEN "reviving" ELSE "resolved"])
          /\ UNCHANGED serial
    \/ /\ ref.create
       /\ InsertTopicIgnore(c, ref.name)
       /\ Begin(c, [call EXCEPT !.topic = serial.topic + 1, !.new = ref.name])
       /\ serial' = [serial EXCEPT !.topic = @ + 1]

(* The revive is guarded on archived, which another may have cleared.          *)
ReviveTopic(c) ==
    /\ tx[c] # Nil /\ tx[c].at = "reviving"
    /\ Writable(c, tx[c].topic)
    /\ tx' = [tx EXCEPT ![c].at = "resolved",
                        ![c].revived = tx[c].topic \in DOMAIN topics /\ topics[tx[c].topic].archived]
    /\ UNCHANGED <<topics, msgs, pins, members, serial>>

PostMessage(c, a, key, ask, ref) ==
    /\ MayPost(a)
    /\ ResolveTopicForAppend(c, Call("append", a, key, ask), ref)
    /\ UNCHANGED <<topics, msgs, pins, members>>
GetOrCreateTopic(c, a, n) ==
    /\ ResolveTopicForAppend(c, Call("ensure", a, Nil, "none"), [id |-> Nil, name |-> n, create |-> TRUE])
    /\ UNCHANGED <<topics, msgs, pins, members>>

-----------------------------------------------------------------------------
(* InsertMessage waits for an open insert under the same request id, and for   *)
(* the topic row its foreign key names; a message already stored under the id  *)
(* is returned as it is, and all else of the transaction rolled back.          *)
GetMessageByRequestID(a, key) == {m \in msgs : key # Nil /\ m.author = a /\ m.key = key}
Recorded(x) == GetMessageByRequestID(x.author, x.key)
InsertMessage(c) ==
    LET x == tx[c] IN
    /\ In(c, "append", "resolved") \/ In(c, "answer", "locked")
    /\ x.key # Nil => \A y \in Others(c) : ~(y.at = "inserted" /\ y.author = x.author /\ y.key = x.key)
    /\ IF Recorded(x) # {} THEN End(c) /\ UNCHANGED serial
       ELSE /\ Sharable(c, x.topic)
            /\ serial' = [serial EXCEPT !.msg = @ + 1]
            /\ IF x.topic \in DOMAIN topics \/ x.new # Nil
               THEN tx' = [tx EXCEPT ![c].at = "inserted", ![c].seq = serial'.msg]
               ELSE End(c)
    /\ UNCHANGED <<topics, msgs, pins, members>>

(* The topics as the transaction leaves them, before it files its message.     *)
Resolved(x) ==
    IF x.new # Nil THEN [t \in DOMAIN topics \union {x.topic} |->
                           IF t = x.topic THEN [name |-> x.new, archived |-> FALSE, last |-> 0] ELSE topics[t]]
    ELSE IF x.revived THEN [topics EXCEPT ![x.topic].archived = FALSE]
    ELSE topics
UpdateTopicLastSeq_Overwrites(ts, t, s) == [ts EXCEPT ![t].last = s]
UpdateTopicLastSeq(ts, t, s) == [ts EXCEPT ![t].last = Max({@, s})]
UpdateMessageBlocks(x) == {IF m.seq = x.answers THEN [m EXCEPT !.ask = "answered"] ELSE m : m \in msgs}
AppendMessageTopic(c) ==
    LET x == tx[c] IN
    /\ x # Nil /\ x.at = "inserted"
    /\ Writable(c, x.topic)
    /\ topics' = UpdateTopicLastSeq(Resolved(x), x.topic, x.seq)
    /\ msgs' = UpdateMessageBlocks(x) \union
               {[seq |-> x.seq, topic |-> x.topic, author |-> x.author, key |-> x.key, ask |-> x.ask, answers |-> x.answers]}
    /\ End(c)
    /\ UNCHANGED <<pins, members, serial>>
CommitTopic(c) ==
    /\ In(c, "ensure", "resolved")
    /\ topics' = Resolved(tx[c])
    /\ End(c)
    /\ UNCHANGED <<msgs, pins, members, serial>>

-----------------------------------------------------------------------------
(* RespondToAsk: the message that carries the ask is locked, the ask marked,   *)
(* and the answer posted in the topic the locked row names.                    *)
FindAskMessage(c, m) == m.ask # "none" /\ \A x \in Others(c) : x.op = "answer" => x.answers # m.seq
ApplyAskAnswer(m) == m.ask = "open"
AnswerAsk(c, a) ==
    \E m \in msgs :
        /\ a \in members
        /\ FindAskMessage(c, m)
        /\ ApplyAskAnswer(m)
        /\ Begin(c, [Call("answer", a, Nil, "none") EXCEPT !.at = "locked", !.topic = m.topic, !.answers = m.seq])
        /\ UNCHANGED <<topics, msgs, pins, members, serial>>

-----------------------------------------------------------------------------
(* UpdateTopic: FOR UPDATE of the topic, then of the topic that has the new    *)
(* name; with such a topic the rename is a merge.                              *)
ResolveTopicForUpdate(c, a, t, n, arch) ==
    /\ a \in members
    /\ t \in DOMAIN topics
    /\ Lockable(c, t)
    /\ Begin(c, [op |-> "update", at |-> IF n = Nil THEN "apply" ELSE "locked",
                 author |-> a, key |-> Nil, topic |-> t, target |-> Nil, name |-> n, arch |-> arch])
    /\ UNCHANGED <<topics, msgs, pins, members, serial>>
ResolveTopicRenameTarget(c) ==
    LET x == tx[c]
        found == GetTopicByName(x.name) \ {x.topic}
    IN /\ In(c, "update", "locked")
       /\ \A t \in found : Lockable(c, t)
       /\ tx' = [tx EXCEPT ![c].at = "apply", ![c].target = IF found = {} THEN Nil ELSE CHOOSE t \in found : TRUE]
       /\ UNCHANGED <<topics, msgs, pins, members, serial>>

SetTopicArchived(ts, t, arch) == IF arch = Nil THEN ts ELSE [ts EXCEPT ![t].archived = arch]
RenameTopic(ts, t, n) == IF n = Nil THEN ts ELSE [ts EXCEPT ![t].name = n]
MoveMessagesToTopic(t, s) == {IF m.topic = t THEN [m EXCEPT !.topic = s] ELSE m : m \in msgs}
MergeTopicLastSeq(ts, t, s) == [ts EXCEPT ![s].last = Max({@, ts[t].last})]
DeleteTopic(ts, t) == Restrict(ts, DOMAIN ts \ {t})

(* No topic had the name: rename in place.  The write waits for an open create *)
(* of that name and fails when it commits.                                     *)
UpdateTopic(c) ==
    LET x == tx[c] IN
    /\ In(c, "update", "apply") /\ x.target = Nil
    /\ x.name # Nil => ~NameHeld(c, x.name)
    /\ IF x.name # Nil /\ GetTopicByName(x.name) \ {x.topic} # {} THEN UNCHANGED topics
       ELSE topics' = SetTopicArchived(RenameTopic(topics, x.topic, x.name), x.topic, x.arch)
    /\ End(c)
    /\ UNCHANGED <<msgs, pins, members, serial>>
(* A merge rewrites the messages, so it waits for an answer that holds one.    *)
ApplyTopicRename(c) ==
    LET x == tx[c] IN
    /\ In(c, "update", "apply") /\ x.target # Nil
    /\ \A y \in Others(c), m \in msgs : y.op = "answer" /\ y.answers = m.seq => m.topic # x.topic
    /\ msgs' = MoveMessagesToTopic(x.topic, x.target)
    /\ topics' = SetTopicArchived(DeleteTopic(MergeTopicLastSeq(topics, x.topic, x.target), x.topic), x.target, x.arch)
    /\ End(c)
    /\ UNCHANGED <<pins, members, serial>>

Rollback(c) ==
    /\ tx[c] # Nil
    /\ End(c)
    /\ UNCHANGED <<topics, msgs, pins, members, serial>>

-----------------------------------------------------------------------------
(* The pinned board: every change holds the channel row from its first         *)
(* statement, so each is one step.                                             *)
CountChannelPins == [count |-> Cardinality(pins), next |-> Max({p.pos : p \in pins} \union {-1}) + 1]
InsertPin(left, m, pos) == left \union {[msg |-> m, pos |-> pos]}
DeleteChannelPin(m) == {p \in pins : p.msg # m}
RequireMessageInChannel(m) == \E x \in msgs : x.seq = m
PinFresh_Counts(m) == /\ CountChannelPins.count < MaxPins
                      /\ pins' = InsertPin(pins, m, CountChannelPins.count)
PinFresh(m) == /\ CountChannelPins.count < MaxPins
               /\ pins' = InsertPin(pins, m, CountChannelPins.next)
PinRepoint(m, r) == \E p \in pins : p.msg = r /\ pins' = InsertPin(DeleteChannelPin(r), m, p.pos)
PinMessage(a, m, r) ==
    /\ MayPost(a)
    /\ RequireMessageInChannel(m)
    /\ \A p \in pins : p.msg = m => m = r
    /\ IF r = Nil THEN PinFresh(m) ELSE PinRepoint(m, r)
    /\ UNCHANGED <<topics, msgs, members, serial, tx>>
UnpinMessage(a, m) ==
    /\ MayPost(a)
    /\ pins' = DeleteChannelPin(m)
    /\ UNCHANGED <<topics, msgs, members, serial, tx>>

(* UpdateChannelMembers takes an account out (Channels has the operation).     *)
RemoveMember(a) ==
    /\ members' = members \ {a}
    /\ UNCHANGED <<topics, msgs, pins, serial, tx>>

-----------------------------------------------------------------------------
(* Every stored message is filed under a stored topic, and a topic's last_seq, *)
(* the order of the topic list, is its newest message's.                       *)
Filed ==
    /\ \A m \in msgs : m.topic \in DOMAIN topics
    /\ \A t \in DOMAIN topics : topics[t].last = Max({m.seq : m \in {x \in msgs : x.topic = t}} \union {0})
(* Racing creates, renames and merges leave one topic per name.                *)
NamesUnique == \A s, t \in DOMAIN topics : topics[s].name = topics[t].name => s = t
(* A request id stores one message; an ask has one answer, once answered.      *)
PostedOnce ==
    /\ \A m \in msgs : m.key # Nil => GetMessageByRequestID(m.author, m.key) = {m}
    /\ \A m \in msgs : Cardinality({x \in msgs : x.answers = m.seq}) = IF m.ask = "answered" THEN 1 ELSE 0
(* The board holds at most MaxPins messages of the channel, each in a place    *)
(* of its own.                                                                 *)
BoardSound ==
    /\ Cardinality(pins) <= MaxPins
    /\ \A p, q \in pins : p.pos = q.pos \/ p.msg = q.msg => p = q
    /\ \A p \in pins : RequireMessageInChannel(p.msg)
(* Whatever posts, answers, renames, merges and pins run at once, the          *)
(* conversation stays coherent.                                                *)
ConversationSound == Filed /\ NamesUnique /\ PostedOnce /\ BoardSound


-----------------------------------------------------------------------------
(* Bounds for Topics: MaxCalls calls on a channel that starts with a live      *)
(* topic holding two pinned messages, one an open ask, and an archived topic.  *)
CONSTANTS MaxCalls
VARIABLE load

Anyone == CHOOSE a \in Members : TRUE
TpInit ==
    /\ topics = LET live == CHOOSE n \in Names : TRUE
                    old == CHOOSE n \in Names \ {live} : TRUE
                IN  [t \in 1..2 |-> IF t = 1 THEN [name |-> live, archived |-> FALSE, last |-> 2]
                                    ELSE [name |-> old, archived |-> TRUE, last |-> 0]]
    /\ msgs = {[seq |-> i, topic |-> 1, author |-> Anyone, key |-> Nil,
                ask |-> IF i = 1 THEN "open" ELSE "none", answers |-> 0] : i \in 1..2}
    /\ pins = {[msg |-> 1, pos |-> 0], [msg |-> 2, pos |-> 1]} /\ members = Members
    /\ serial = [msg |-> 2, topic |-> 2]
    /\ tx = [c \in Clients |-> Nil]
    /\ load = 0

Op(A) == load < MaxCalls /\ A /\ load' = load + 1
Free(A) == A /\ load' = load
Refs == [id : 1..2, name : {Nil}, create : {FALSE}] \union [id : {Nil}, name : Names, create : {TRUE}]

DoPost(c) == Op(\E a \in {Anyone}, k \in Keys \union {Nil}, r \in Refs : PostMessage(c, a, k, "none", r))
DoEnsure(c) == Op(\E n \in Names : GetOrCreateTopic(c, Anyone, n))
DoAnswer(c) == Op(AnswerAsk(c, Anyone))
DoUpdate(c) == Op(\E a \in {Anyone}, t \in 1..3, n \in Names \union {Nil}, arch \in {Nil, TRUE} :
                    ResolveTopicForUpdate(c, a, t, n, arch))
DoPin == Op(\E a \in {Anyone}, m \in 1..2, r \in {Nil, 1} : PinMessage(a, m, r))
DoUnpin == Op(\E a \in {Anyone}, m \in 1..2 : UnpinMessage(a, m))
DoRemove == Op(\E a \in members : RemoveMember(a))
TpNext ==
    \/ DoPin \/ DoUnpin \/ DoRemove
    \/ \E c \in Clients : DoPost(c) \/ DoEnsure(c) \/ DoAnswer(c) \/ DoUpdate(c)
    \/ \E c \in Clients : Free(ReviveTopic(c)) \/ Free(InsertMessage(c)) \/ Free(AppendMessageTopic(c))
          \/ Free(CommitTopic(c))
          \/ Free(ResolveTopicRenameTarget(c)) \/ Free(UpdateTopic(c)) \/ Free(ApplyTopicRename(c)) \/ Free(Rollback(c))
TpSpec == TpInit /\ [][TpNext]_<<tpvars, load>>
=============================================================================
