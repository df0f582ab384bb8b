--------------------------- MODULE DeliveryCursor ---------------------------
(* One agent's delivery cursors (go/internal/store/delivery_cursors.go,        *)
(* queries/delivery_cursors.sql) and the membership transactions that seed     *)
(* them (channels.go, coordination.go, dm.go): what the reconnect sweep still  *)
(* owes the agent, channel by channel.  Rows of different agents never meet.   *)
(*                                                                             *)
(* Message numbers come from one BIGSERIAL over all channels; a post draws its *)
(* number when it is inserted and becomes visible when it commits, in any      *)
(* order, and a rolled-back post leaves a hole.  A membership or policy        *)
(* transaction locks the channel row, reads the flags and the channel's head   *)
(* under READ COMMITTED, and commits later.  AckDelivery locks the cursor row  *)
(* and is one step.                                                            *)
EXTENDS Integers

CONSTANTS
    Channels,
    DMs,      \* the channels created as a peer DM
    Home,     \* the agent's home channel: at most one
    Parties,  \* the DMs the agent is one of the two parties of
    Managed,  \* the channels whose membership and policy change
    Self,     \* the agent
    Peers,    \* the other accounts; each may or may not reach the agent
    Nil,      \* no row, no transaction
    MaxSeq    \* bound on the messages posted

ASSUME PeersAssumption == Self \notin Peers
ASSUME HomeAssumption == Home \subseteq Channels \ DMs /\ \A c, d \in Home : c = d
ASSUME ChannelsAssumption == Parties \subseteq DMs /\ DMs \subseteq Channels /\ Managed \subseteq Channels
ASSUME BoundAssumption == MaxSeq \in Nat

Authors == Peers \union {Self}
Seqs == 1..MaxSeq
Heads == 0..MaxSeq
Messages == [seq : Seqs, chan : Channels, author : Authors]
Flags == [dm : BOOLEAN, member : BOOLEAN, subscribed : BOOLEAN, mandatory : BOOLEAN]
Rows == [acked : Heads, above : SUBSET Seqs]
Updates == [mandatory : BOOLEAN, head : Heads]
Policies == [mandatory : BOOLEAN, seeds : BOOLEAN, head : Heads]

ASSUME NilAssumption == Nil \notin Rows \union Updates \union Policies

VARIABLES
    nextSeq,   \* the sequence's last value
    open,      \* messages inserted by transactions still open
    msgs,      \* committed messages
    reach,     \* the accounts that may reach the agent now
    chan,      \* [Channels -> Flags]
    upd,       \* [Channels -> an open UpdateChannelMembers transaction or Nil]
    pol,       \* [Channels -> an open SetChannelPolicy transaction or Nil]
    reopening, \* DMs a re-open has resolved as a DM and not yet reconciled
    cursor,    \* [Channels -> Rows or Nil]
    owed,      \* numbers of the agent's owed_mentions rows
    seeded,    \* history: the head each cursor was seeded at
    acks,      \* history: numbers acked while the channel had a cursor
    passed     \* history: numbers an ack skipped as out of reach
posts == <<nextSeq, open, msgs, reach>>
members == <<chan, upd, pol, reopening, seeded>>
vars == <<posts, members, cursor, owed, acks, passed>>

NoRow == [acked |-> 0, above |-> {}]

(* Channels start empty: a DM is born mandatory with its parties seeded, the   *)
(* home channel with the agent subscribed and seeded; any other channel starts *)
(* with the agent subscribed and seeded, or without it.                        *)
Created(c) ==
    IF c \in DMs
    THEN {[flags |-> [dm |-> TRUE, member |-> c \in Parties, subscribed |-> FALSE, mandatory |-> TRUE],
           row |-> IF c \in Parties THEN NoRow ELSE Nil]}
    ELSE {[flags |-> [dm |-> FALSE, member |-> b, subscribed |-> b, mandatory |-> FALSE],
           row |-> IF b THEN NoRow ELSE Nil] : b \in {x \in BOOLEAN : c \in Home => x}}

Init ==
    /\ nextSeq = 0 /\ open = {} /\ msgs = {}
    /\ reach \in SUBSET Peers
    /\ \E born \in {f \in [Channels -> UNION {Created(c) : c \in Channels}] : \A c \in Channels : f[c] \in Created(c)} :
          /\ chan = [c \in Channels |-> born[c].flags]
          /\ cursor = [c \in Channels |-> born[c].row]
    /\ upd = [c \in Channels |-> Nil] /\ pol = [c \in Channels |-> Nil] /\ reopening = {}
    /\ owed = {} /\ seeded = [c \in Channels |-> 0] /\ acks = {} /\ passed = {}

-----------------------------------------------------------------------------
(* Posts, and the peerings the reach predicate reads.                          *)
Insert(c, a) ==
    /\ nextSeq < MaxSeq
    /\ nextSeq' = nextSeq + 1
    /\ open' = open \union {[seq |-> nextSeq + 1, chan |-> c, author |-> a]}
    /\ UNCHANGED <<msgs, reach, members, cursor, owed, acks, passed>>

Commit(m) ==
    /\ open' = open \ {m} /\ msgs' = msgs \union {m}
    /\ UNCHANGED <<nextSeq, reach, members, cursor, owed, acks, passed>>

Rollback(m) ==
    /\ open' = open \ {m}
    /\ UNCHANGED <<nextSeq, msgs, reach, members, cursor, owed, acks, passed>>

SetReach(R) ==
    /\ reach' = R
    /\ UNCHANGED <<nextSeq, open, msgs, members, cursor, owed, acks, passed>>

-----------------------------------------------------------------------------
(* Seeding: the committed head of the channel; an existing cursor is kept.     *)
InChannel(c) == {m \in msgs : m.chan = c}
MaxSeqOf(c) == CHOOSE h \in {0} \union {m.seq : m \in InChannel(c)} : \A m \in InChannel(c) : m.seq <= h
Head(c) == MaxSeqOf(c)

Seed(c, head) ==
    IF cursor[c] = Nil
    THEN /\ cursor' = [cursor EXCEPT ![c] = [acked |-> head, above |-> {}]]
         /\ seeded' = [seeded EXCEPT ![c] = head]
    ELSE UNCHANGED <<cursor, seeded>>

SeedIf(p, c, head) == IF p THEN Seed(c, head) ELSE UNCHANGED <<cursor, seeded>>

(* The channel row lock both transactions take before they read.               *)
Unlocked_Never(c) == TRUE
Unlocked(c) == upd[c] = Nil /\ pol[c] = Nil

-----------------------------------------------------------------------------
(* UpdateChannelMembers: what one batch does to this agent's membership.  The  *)
(* update may name the agent or, on a DM, somebody else; an add of an account  *)
(* that is not yet a member turns a DM into a channel.                         *)
MemberUpdates == {"add", "subscribe", "unsubscribe", "remove", "addOther"}

BeginUpdate(c) ==
    /\ upd[c] = Nil /\ Unlocked(c)
    /\ upd' = [upd EXCEPT ![c] = [mandatory |-> chan[c].mandatory, head |-> Head(c)]]
    /\ UNCHANGED <<posts, chan, pol, reopening, seeded, cursor, owed, acks, passed>>

Converts(c, u) == chan[c].dm /\ (u = "addOther" \/ (u \in {"add", "subscribe"} /\ ~chan[c].member))

(* The conversion subscribes the agents already in the DM.                     *)
Converted(f) == [f EXCEPT !.dm = FALSE, !.mandatory = FALSE, !.subscribed = f.member]

Applied(f, u) ==
    CASE u \in {"add", "unsubscribe"} -> [f EXCEPT !.member = TRUE, !.subscribed = FALSE]
      [] u = "subscribe" -> [f EXCEPT !.member = TRUE, !.subscribed = TRUE]
      [] u = "remove" -> [f EXCEPT !.member = FALSE, !.subscribed = FALSE]
      [] u = "addOther" -> f

(* A removal that would leave a DM fewer than two agents is refused too; the   *)
(* other agents are not modelled, and AbortUpdate is that refusal.             *)
Refuses(c, u) == u = "unsubscribe" /\ upd[c].mandatory

Seeds(c, u) == u = "subscribe" \/ (u = "add" /\ upd[c].mandatory /\ ~Converts(c, u))

CommitUpdate_DropsCursor(c, u) ==
    /\ upd[c] # Nil /\ ~Refuses(c, u)
    /\ chan' = [chan EXCEPT ![c] = Applied(IF Converts(c, u) THEN Converted(@) ELSE @, u)]
    /\ IF u = "remove" THEN cursor' = [cursor EXCEPT ![c] = Nil] /\ UNCHANGED seeded
       ELSE SeedIf(Seeds(c, u), c, upd[c].head)
    /\ upd' = [upd EXCEPT ![c] = Nil]
    /\ UNCHANGED <<posts, pol, reopening, owed, acks, passed>>
CommitUpdate(c, u) ==
    /\ upd[c] # Nil /\ ~Refuses(c, u)
    /\ chan' = [chan EXCEPT ![c] = Applied(IF Converts(c, u) THEN Converted(@) ELSE @, u)]
    /\ SeedIf(Seeds(c, u), c, upd[c].head)
    /\ upd' = [upd EXCEPT ![c] = Nil]
    /\ UNCHANGED <<posts, pol, reopening, owed, acks, passed>>

AbortUpdate(c) ==
    /\ upd[c] # Nil
    /\ upd' = [upd EXCEPT ![c] = Nil]
    /\ UNCHANGED <<posts, chan, pol, reopening, seeded, cursor, owed, acks, passed>>

-----------------------------------------------------------------------------
(* SetChannelPolicy: a channel that becomes mandatory seeds every member.      *)
BeginPolicy(c, mandatory) ==
    /\ pol[c] = Nil /\ Unlocked(c)
    /\ pol' = [pol EXCEPT ![c] = [mandatory |-> mandatory, head |-> Head(c),
                                  seeds |-> mandatory /\ ~chan[c].mandatory /\ chan[c].member]]
    /\ UNCHANGED <<posts, chan, upd, reopening, seeded, cursor, owed, acks, passed>>

CommitPolicy(c) ==
    /\ pol[c] # Nil
    /\ chan' = [chan EXCEPT ![c].mandatory = pol[c].mandatory]
    /\ SeedIf(pol[c].seeds, c, pol[c].head)
    /\ pol' = [pol EXCEPT ![c] = Nil]
    /\ UNCHANGED <<posts, upd, reopening, owed, acks, passed>>

AbortPolicy(c) ==
    /\ pol[c] # Nil
    /\ pol' = [pol EXCEPT ![c] = Nil]
    /\ UNCHANGED <<posts, chan, upd, reopening, seeded, cursor, owed, acks, passed>>

-----------------------------------------------------------------------------
(* A coordination resync adds the agent, always seeded, or removes it; it      *)
(* takes no row lock.                                                          *)
SetCoordinationMembers(c, wanted) ==
    /\ c \notin DMs \union Home
    /\ SeedIf(wanted /\ ~chan[c].member, c, Head(c))
    /\ chan' = [chan EXCEPT ![c] = IF wanted /\ ~@.member THEN [@ EXCEPT !.member = TRUE, !.subscribed = FALSE]
                                   ELSE IF wanted THEN @
                                   ELSE [@ EXCEPT !.member = FALSE, !.subscribed = FALSE]]
    /\ UNCHANGED <<posts, upd, pol, reopening, owed, acks, passed>>

(* Re-opening a DM resolves the row by name, checks its kind, then restores    *)
(* the mandatory flag (an UPDATE that waits for the row lock when it has work) *)
(* and the parties, and seeds them all.                                        *)
ResolveDM(c) ==
    /\ c \in DMs /\ c \notin reopening /\ chan[c].dm
    /\ reopening' = reopening \union {c}
    /\ UNCHANGED <<posts, chan, upd, pol, seeded, cursor, owed, acks, passed>>

ReconcileDM(c) ==
    /\ c \in reopening
    /\ chan[c].mandatory \/ Unlocked(c)
    /\ chan' = [chan EXCEPT ![c].mandatory = TRUE, ![c].member = @ \/ c \in Parties]
    /\ SeedIf(chan[c].member \/ c \in Parties, c, Head(c))
    /\ reopening' = reopening \ {c}
    /\ UNCHANGED <<posts, upd, pol, owed, acks, passed>>

-----------------------------------------------------------------------------
(* The sweep set, an unsubscribed home channel included, and what the sweep    *)
(* leaves out: an absent cursor owes nothing.                                  *)
InSweepSet(c) == chan[c].member /\ (chan[c].subscribed \/ c \in Home \/ chan[c].mandatory)
Excluded(c, seq) == cursor[c] = Nil \/ seq <= cursor[c].acked \/ seq \in cursor[c].above

(* The backstop for a mentioned agent outside the sweep set.                   *)
RecordOwedMention(m) ==
    /\ ~InSweepSet(m.chan) /\ m.author # Self /\ m.seq \notin owed
    /\ owed' = owed \union {m.seq}
    /\ UNCHANGED <<posts, members, cursor, acks, passed>>

ClearOwedMention(m) ==
    /\ m.seq \in owed
    /\ owed' = owed \ {m.seq}
    /\ UNCHANGED <<posts, members, cursor, acks, passed>>

-----------------------------------------------------------------------------
(* AckDelivery.                                                                *)
OutOfReach(m) == m.author # Self /\ m.author \notin reach
Skippable(c) == {m.seq : m \in {n \in InChannel(c) : n.author = Self \/ OutOfReach(n)}}

(* The end of the run of numbers in S that starts right after from.            *)
Contiguous(from, S) == CHOOSE n \in from..MaxSeq : (from + 1)..n \subseteq S /\ n + 1 \notin S

(* What the low-water mark may cross.  The parked "fix" also crosses numbers   *)
(* no committed message of the channel carries.                                *)
Drainable_CrossesGaps(c, above) == above \union Skippable(c) \union (Seqs \ {m.seq : m \in InChannel(c)})
Drainable(c, above) == above \union Skippable(c)

Retained_None(above, acked) == {}
Retained(above, acked) == {i \in above : i > acked}

Advanced(c, seq) ==
    LET above == cursor[c].above \union {seq}
        acked == Contiguous(cursor[c].acked, Drainable(c, above))
    IN  [acked |-> acked, above |-> Retained(above, acked)]

Advances(c, seq) == cursor[c] # Nil /\ seq > cursor[c].acked

PassedOver(c, seq) ==
    {m.seq : m \in {n \in InChannel(c) : OutOfReach(n) /\ n.seq \in (cursor[c].acked + 1)..Advanced(c, seq).acked}}

AckDelivery(m) ==
    /\ owed' = owed \ {m.seq}
    /\ acks' = IF cursor[m.chan] = Nil THEN acks ELSE acks \union {m.seq}
    /\ IF Advances(m.chan, m.seq)
       THEN /\ cursor' = [cursor EXCEPT ![m.chan] = Advanced(m.chan, m.seq)]
            /\ passed' = passed \union PassedOver(m.chan, m.seq)
       ELSE UNCHANGED <<cursor, passed>>
    /\ UNCHANGED <<posts, members>>

-----------------------------------------------------------------------------
Post == \/ \E c \in Channels, a \in Authors : Insert(c, a)
        \/ \E m \in open : Commit(m) \/ Rollback(m)

Membership(c) ==
    \/ BeginUpdate(c) \/ AbortUpdate(c) \/ \E u \in MemberUpdates : CommitUpdate(c, u)
    \/ CommitPolicy(c) \/ AbortPolicy(c) \/ \E b \in BOOLEAN : BeginPolicy(c, b)
    \/ \E b \in BOOLEAN : SetCoordinationMembers(c, b)
    \/ ResolveDM(c) \/ ReconcileDM(c)

Next ==
    \/ Post
    \/ \E R \in SUBSET Peers : SetReach(R)
    \/ \E c \in Managed : Membership(c)
    \/ \E m \in msgs : RecordOwedMention(m) \/ ClearOwedMention(m) \/ AckDelivery(m)

Spec == Init /\ [][Next]_vars

-----------------------------------------------------------------------------
(* The type invariant.                                                         *)
TypeOK ==
    /\ nextSeq \in Heads
    /\ open \subseteq Messages /\ msgs \subseteq Messages /\ reach \subseteq Peers
    /\ chan \in [Channels -> Flags]
    /\ upd \in [Channels -> Updates \union {Nil}]
    /\ pol \in [Channels -> Policies \union {Nil}]
    /\ reopening \subseteq DMs
    /\ cursor \in [Channels -> Rows \union {Nil}]
    /\ owed \subseteq Seqs /\ acks \subseteq Seqs /\ passed \subseteq Seqs
    /\ seeded \in [Channels -> Heads]

(* No loss: once the agent has a cursor, a peer's message numbered above the   *)
(* seeded head stays in the sweep until the agent acks it, however late it     *)
(* commits and whatever other numbers are acked first; only an author who was  *)
(* out of reach when an ack advanced the cursor is passed over.                *)
SweepLossless ==
    \A m \in msgs :
       (/\ cursor[m.chan] # Nil /\ m.seq > seeded[m.chan]
        /\ m.author # Self /\ m.seq \notin acks \union passed)
          => ~Excluded(m.chan, m.seq)

(* An acked message is never swept again, through any later ack, unsubscribe,  *)
(* re-subscribe or policy flip.                                                *)
AckedNotSwept == \A m \in msgs : m.seq \in acks => Excluded(m.chan, m.seq) /\ cursor[m.chan] # Nil

(* The above-set keeps only acked numbers that a gap separates from the low    *)
(* water mark, so it drains as gaps fill.                                      *)
AbovePastGap ==
    \A c \in Channels : cursor[c] # Nil =>
       \A i \in cursor[c].above : i \in acks /\ i > cursor[c].acked + 1

(* Acks are exact: an acked message stays acked, and nothing but acked numbers *)
(* past a gap is kept above the mark.                                          *)
AckedExact == AckedNotSwept /\ AbovePastGap

(* A member the sweep delivers to has a cursor: but for a third agent in a DM  *)
(* (ConvertedSeeded), no interleaving of adds, subscribes, removals, resyncs   *)
(* and policy flips makes the agent a delivery target without seeding it (an   *)
(* absent cursor would read as caught up for ever).                            *)
TargetsSeeded == \A c \in (Channels \ DMs) \union Parties : InSweepSet(c) => cursor[c] # Nil

(* No step moves a cursor back, deletes it or forgets an acked number: a       *)
(* re-subscribe does not reset it.                                             *)
CursorMonotone ==
    [][\A c \in Channels : cursor[c] # Nil =>
         /\ cursor'[c] # Nil /\ cursor'[c].acked >= cursor[c].acked
         /\ \A i \in cursor[c].above : i <= cursor'[c].acked \/ i \in cursor'[c].above]_vars

(* What maybeConvertDM says of the parties it subscribes: each has a cursor    *)
(* from the DM's creation.                                                     *)
ConvertedSeeded == \A c \in DMs : InSweepSet(c) => cursor[c] # Nil
=============================================================================
