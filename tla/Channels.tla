------------------------------ MODULE Channels -----------------------------
(* Channel groups, channels, their members and their policy: the store's       *)
(* transactions and the CommsService calls that publish what they changed.     *)
(*                                                                             *)
(* A call passes its participation gate first and takes the channel's row lock *)
(* later, so another call may commit in between; ChannelChanged is published   *)
(* after the commit, outside any lock.  The agent tree and the owners are      *)
(* constants here (they change in Namespace), and the delivery cursors that    *)
(* the same transactions seed are DeliveryCursor's.                            *)
EXTENDS Naturals, FiniteSets

CONSTANTS Users, Agents, OwnerOf, ParentOf, GroupIds, ChannelIds, Names, Reserved, Nil

VARIABLES
    groups,   \* [GroupIds -> Nil or a row]
    channels, \* [ChannelIds -> Nil or a row]
    members,  \* [ChannelIds -> [the member accounts -> subscribed]]
    overrides,\* [ChannelIds -> the TREE participants that subscribed]
    calls,    \* past the participation gate, waiting for the row lock
    outbox,   \* committed, its ChannelChanged not published yet
    unseeing  \* <<account, channel>>: lost sight of it and is still to be told
chvars == <<groups, channels, members, overrides, calls, outbox, unseeing>>

Accounts == Users \union Agents
Group == [name : Names \union {Reserved}, parent : GroupIds \union {Nil}, owner : Accounts,
          namespace : Users, shared : BOOLEAN, reserved : BOOLEAN]
Channel == [name : Names, group : GroupIds \union {Nil}, parent : Agents \union {Nil},
            dm : BOOLEAN, tree : BOOLEAN, ownerOnly : BOOLEAN,
            owner : Accounts \union {Nil}, mandatory : BOOLEAN]

Live(c) == channels[c] # Nil
ResolveOwner(x) == IF x \in Agents THEN OwnerOf[x] ELSE x
AgentOwnersByIDs(s) == {OwnerOf[x] : x \in s \intersect Agents}
Chain[x \in Accounts] ==
    {x} \union (IF x \in Agents /\ ParentOf[x] # Nil THEN Chain[ParentOf[x]] ELSE {})

-----------------------------------------------------------------------------
(* The visibility predicates, one copy of each.  The recursive query of a      *)
(* group's ancestors is the least set with the group and every parent.         *)
UpClosed(S) == \A h \in S : groups[h].parent # Nil => groups[h].parent \in S
Ancestry(g) ==
    LET rows == {h \in GroupIds : groups[h] # Nil}
    IN  {h \in rows : \A S \in SUBSET rows : g \in S /\ UpClosed(S) => h \in S}
EffectivelyShared(g) == \A h \in Ancestry(g) : groups[h].shared
ChannelVisibleTo(x, c) ==
    \/ x \in DOMAIN members[c]
    \/ ~channels[c].dm /\ channels[c].group # Nil /\ EffectivelyShared(channels[c].group)
    \/ channels[c].parent # Nil /\ OwnerOf[channels[c].parent] \in {x, ResolveOwner(x)}
OwnerSetLostChannelVisibility(u, c) ==
    {x \in Accounts : ResolveOwner(x) = u /\ ~ChannelVisibleTo(x, c)}

ChannelParticipant(x, c) ==
    /\ Live(c)
    /\ \/ x \in DOMAIN members[c]
       \/ channels[c].tree /\ (channels[c].parent \in Chain[x] \/ x = OwnerOf[channels[c].parent])

-----------------------------------------------------------------------------
GroupCreateAuthorized(x, g) ==
    /\ groups[g] # Nil
    /\ \/ groups[g].owner \in {x, ResolveOwner(x)} \/ groups[g].shared
       \/ groups[g].namespace = ResolveOwner(x)
AgentAttachAuthorized(x, a) == OwnerOf[a] = x \/ (x \in Agents /\ OwnerOf[a] = OwnerOf[x])
IsReservedGroup(g) == groups[g].reserved /\ groups[g].parent = Nil /\ ~groups[g].shared

(* channel_groups_owner_parent_name_key, which spares the reserved names.      *)
SiblingNamed(row) ==
    \E g \in GroupIds :
        /\ groups[g] # Nil /\ ~groups[g].reserved
        /\ groups[g].name = row.name /\ groups[g].parent = row.parent
        /\ row.parent = Nil => groups[g].namespace = row.namespace

SameVisibility_Unchecked(row) == TRUE
SameVisibility(row) == row.parent # Nil => row.shared = groups[row.parent].shared

CreateChannelGroup(x, g, name, parent, shared) ==
    LET row == [name |-> name, parent |-> parent, owner |-> x, namespace |-> ResolveOwner(x),
                shared |-> shared, reserved |-> FALSE]
    IN
    /\ groups[g] = Nil
    /\ parent # Nil => GroupCreateAuthorized(x, parent) /\ ~IsReservedGroup(parent)
    /\ SameVisibility(row) /\ ~SiblingNamed(row)
    /\ groups' = [groups EXCEPT ![g] = row]
    /\ UNCHANGED <<channels, members, overrides, calls, outbox, unseeing>>

(* channels_group_name_key and channels_agent_name_key.                        *)
Taken(row, c) ==
    \E d \in ChannelIds \ {c} :
        /\ Live(d) /\ channels[d].name = row.name
        /\ \/ row.group # Nil /\ channels[d].group = row.group
           \/ row.parent # Nil /\ channels[d].parent = row.parent

ValidateNewChannel(row) ==
    /\ row.group = Nil \/ row.parent = Nil
    /\ row.parent # Nil => ~row.dm
    /\ row.tree => row.parent # Nil /\ ~row.mandatory /\ ~row.ownerOnly
    /\ row.ownerOnly <=> row.owner # Nil

ExpandOwnerMembership(x, requested) ==
    {x} \union requested \union AgentOwnersByIDs({x} \union requested)

Announce(c, prior, removed) ==
    outbox' = outbox \union {[ch |-> c, prior |-> prior, removed |-> removed, now |-> Nil, read |-> FALSE]}

InsertChannel(c, row) == channels' = [channels EXCEPT ![c] = row]
WriteExplicitMembers(c, row, all) ==
    /\ row.owner # Nil => row.owner \in all
    /\ members' = [members EXCEPT ![c] = [y \in all |-> FALSE]]

StoreCreateChannel(x, c, row, requested) ==
    LET all == ExpandOwnerMembership(x, requested) IN
    /\ ~Live(c) /\ ValidateNewChannel(row) /\ ~Taken(row, c)
    /\ row.group # Nil => GroupCreateAuthorized(x, row.group) /\ ~IsReservedGroup(row.group)
    /\ row.parent # Nil => AgentAttachAuthorized(x, row.parent)
    /\ InsertChannel(c, row)
    /\ IF row.tree THEN UNCHANGED members ELSE WriteExplicitMembers(c, row, all)
CreateChannel(x, c, row, requested) ==
    /\ StoreCreateChannel(x, c, row, requested)
    /\ Announce(c, Nil, {})
    /\ UNCHANGED <<groups, overrides, calls, unseeing>>

(* OpenDM: born mandatory in the reserved group of the host owner, or resumed. *)
EnsureChannelMember(rows, all) == [x \in DOMAIN rows \union all |-> x \in DOMAIN rows /\ rows[x]]
GetDMChannelByName(g, name) ==
    {d \in ChannelIds : Live(d) /\ channels[d].group = g /\ channels[d].name = name}
OwnerDMGroup(host) == [name |-> Reserved, parent |-> Nil, owner |-> host, namespace |-> host,
                       shared |-> FALSE, reserved |-> TRUE]
EnsureOwnerDMGroupTx(host, g) ==
    /\ groups[g] = OwnerDMGroup(host) \/ (groups[g] = Nil /\ ~\E h \in GroupIds : groups[h] = OwnerDMGroup(host))
    /\ groups' = [groups EXCEPT ![g] = OwnerDMGroup(host)]
InsertDMChannel(c, g, name) ==
    /\ ~Live(c) /\ GetDMChannelByName(g, name) = {}
    /\ channels' = [channels EXCEPT ![c] =
          [name |-> name, group |-> g, parent |-> Nil, dm |-> TRUE, tree |-> FALSE,
           ownerOnly |-> FALSE, owner |-> Nil, mandatory |-> TRUE]]
VerifyReconcileDMTx(c, g, name) ==
    /\ c \in GetDMChannelByName(g, name) /\ channels[c].dm
    /\ channels' = [channels EXCEPT ![c].mandatory = TRUE]
UpsertDMChannelTx(c, g, name, x, y) ==
    /\ \/ InsertDMChannel(c, g, name) /\ Announce(c, Nil, {})
       \/ VerifyReconcileDMTx(c, g, name) /\ UNCHANGED outbox
    /\ members' = [members EXCEPT ![c] = EnsureChannelMember(@, ExpandOwnerMembership(x, {y}))]
OpenDM(x, y, host, c, g, name) ==
    /\ y \in Agents /\ x # y /\ host \in {ResolveOwner(x), OwnerOf[y]}
    /\ EnsureOwnerDMGroupTx(host, g)
    /\ UpsertDMChannelTx(c, g, name, x, y)
    /\ UNCHANGED <<overrides, calls, unseeing>>

-----------------------------------------------------------------------------
(* A member call past its gate.  Every one of them holds the row lock from     *)
(* here on; the store rolls back whatever refuses below.                       *)
Gate(call) ==
    /\ ChannelParticipant(call.actor, call.ch) /\ call \notin calls
    /\ calls' = calls \union {call}
    /\ UNCHANGED <<groups, channels, members, overrides, outbox, unseeing>>
Refused(call) ==
    /\ calls' = calls \ {call}
    /\ UNCHANGED <<groups, channels, members, overrides, outbox, unseeing>>

Losing(c) ==
    unseeing' = {p \in unseeing : ~ChannelVisibleTo(p[1], p[2])'}
        \union {<<x, c>> : x \in {y \in Accounts : ChannelVisibleTo(y, c) /\ ~ChannelVisibleTo(y, c)'}}

HasGenuineAdd(c, u) == ~u.remove /\ ~u.unsubscribe /\ u.account \notin DOMAIN members[c]
OwnerHasPresentAgent_Never(c, x) == FALSE
OwnerHasPresentAgent(c, x) == \E a \in DOMAIN members[c] \intersect Agents : OwnerOf[a] = x
CountAgentMembers(rows) == Cardinality(DOMAIN rows \intersect Agents)
RequireDMTwoParties_Skipped(c, rows) == TRUE
RequireDMTwoParties(c, rows) == channels[c].dm => CountAgentMembers(rows) >= 2

UpsertChannelSubscription(rows, x, subscribed) == IF subscribed THEN rows \union {x} ELSE rows \ {x}
UpdateTreeSubscriptions(call) ==
    LET u == call.update
        c == call.ch
    IN
    /\ ~u.remove /\ (u.subscribe \/ u.unsubscribe)
    /\ ChannelParticipant(u.account, c)
    /\ overrides' = [overrides EXCEPT ![c] = UpsertChannelSubscription(@, u.account, u.subscribe)]
    /\ Announce(c, Nil, {})
    /\ UNCHANGED <<groups, channels, members, unseeing>>

(* A DM that gains a member becomes a named, ungrouped channel first.          *)
ConvertDMChannel(row, name) == [row EXCEPT !.dm = FALSE, !.name = name, !.group = Nil, !.mandatory = FALSE]
SubscribeConvertedDMParties(rows) == [x \in DOMAIN rows |-> rows[x] \/ x \in Agents]
Converts(c, u) == channels[c].dm /\ HasGenuineAdd(c, u)
MaybeConvertDM(c, call) ==
    IF Converts(c, call.update)
    THEN call.name # Nil /\ channels' = [channels EXCEPT ![c] = ConvertDMChannel(@, call.name)]
    ELSE UNCHANGED channels

UpsertChannelMember(rows, x, subscribed) ==
    [y \in DOMAIN rows \union {x} |-> IF y = x THEN subscribed ELSE rows[y]]
DeleteChannelMember(rows, x) == [y \in DOMAIN rows \ {x} |-> rows[y]]

AddOrUpdateMember(call) ==
    LET u == call.update
        c == call.ch
        rows == IF Converts(c, u) THEN SubscribeConvertedDMParties(members[c]) ELSE members[c]
    IN
    /\ ~u.remove
    /\ u.unsubscribe => ~channels[c].mandatory
    /\ MaybeConvertDM(c, call)
    /\ members' = [members EXCEPT ![c] = EnsureChannelMember(UpsertChannelMember(rows, u.account, u.subscribe),
                                                             ExpandOwnerMembership(u.account, {}))]
    /\ Announce(c, Nil, {})
    /\ UNCHANGED <<groups, overrides>> /\ Losing(c)

RemoveMember(call) ==
    LET c == call.ch
        x == call.update.account
        rest == DeleteChannelMember(members[c], x)
    IN
    /\ call.update.remove
    /\ ~OwnerHasPresentAgent(c, x)
    /\ RequireDMTwoParties(c, rest)
    /\ members' = [members EXCEPT ![c] = rest]
    /\ Announce(c, Nil, DOMAIN members[c] \intersect {x})
    /\ UNCHANGED <<groups, channels, overrides>> /\ Losing(c)

UpdateChannelMembers(call) ==
    /\ call.op = "members" /\ calls' = calls \ {call}
    /\ IF channels[call.ch].tree THEN UpdateTreeSubscriptions(call)
       ELSE AddOrUpdateMember(call) \/ RemoveMember(call)

UpdateChannelPolicy(row, p) == [row EXCEPT !.ownerOnly = p.ownerOnly, !.owner = p.owner, !.mandatory = p.mandatory]
SetChannelPolicy(call) ==
    LET p == call.policy
        row == channels[call.ch]
    IN
    /\ call.op = "policy" /\ calls' = calls \ {call}
    /\ row.tree => p.mandatory = row.mandatory /\ ~p.ownerOnly
    /\ row.owner # Nil => call.actor = row.owner
    /\ p.ownerOnly <=> p.owner # Nil
    /\ p.owner # Nil => p.owner \in DOMAIN members[call.ch]
    /\ channels' = [channels EXCEPT ![call.ch] = UpdateChannelPolicy(@, p)]
    /\ Announce(call.ch, Nil, {})
    /\ UNCHANGED <<groups, members, overrides, unseeing>>

Attachable(row) == row.group = Nil /\ ~row.dm /\ (row.tree => row.parent # Nil)

UpdateChannelParent(row, to) == [row EXCEPT !.parent = to]
ReparentChannel(call) ==
    LET c == call.ch
        row == UpdateChannelParent(channels[c], call.to)
    IN
    /\ call.op = "reparent" /\ calls' = calls \ {call}
    /\ ChannelParticipant(call.actor, c)
    /\ call.to # Nil => ResolveOwner(call.actor) = OwnerOf[call.to]
    /\ Attachable(row) /\ ~Taken(row, c)
    /\ channels' = [channels EXCEPT ![c] = row]
    /\ Announce(c, channels[c].parent, {})
    /\ UNCHANGED <<groups, members, overrides>> /\ Losing(c)

-----------------------------------------------------------------------------
(* After the commit: the channel is read again, and the accounts an old anchor *)
(* showed it to are looked up, before the event goes out.                      *)
GetChannel(e) ==
    /\ e \in outbox /\ ~e.read
    /\ outbox' = (outbox \ {e}) \union {[e EXCEPT !.read = TRUE, !.now = channels[e.ch].parent]}
    /\ UNCHANGED <<groups, channels, members, overrides, calls, unseeing>>

LostAnchorViewers_Detached(e) ==
    IF e.prior = Nil \/ e.now # Nil THEN {} ELSE OwnerSetLostChannelVisibility(OwnerOf[e.prior], e.ch)
LostAnchorViewers(e) ==
    IF e.prior = Nil \/ e.prior = e.now THEN {}
    ELSE IF e.now # Nil /\ OwnerOf[e.now] = OwnerOf[e.prior] THEN {}
    ELSE OwnerSetLostChannelVisibility(OwnerOf[e.prior], e.ch)

PublishChannelChanged(e) ==
    /\ e \in outbox /\ e.read
    /\ outbox' = outbox \ {e}
    /\ unseeing' = unseeing \ ((e.removed \union LostAnchorViewers(e)) \X {e.ch})
    /\ UNCHANGED <<groups, channels, members, overrides, calls>>

(* Event e will name account x as one that lost sight.                         *)
Tells(e, x) ==
    \/ x \in e.removed
    \/ /\ e.prior # Nil /\ OwnerOf[e.prior] = ResolveOwner(x)
       /\ e.read => e.now = Nil \/ OwnerOf[e.now] # OwnerOf[e.prior]
Told(p, events) == \E e \in events : e.ch = p[2] /\ Tells(e, p[1])

(* A read after the commit fails: of the channel, and nothing is published, or *)
(* of whom the old anchor showed it to, and the event names nobody.  Who was   *)
(* to be told by this event alone never is.                                    *)
ReadFails(e) ==
    /\ e \in outbox /\ (e.read => e.prior # Nil /\ e.prior # e.now)
    /\ outbox' = outbox \ {e}
    /\ unseeing' = {p \in unseeing : Told(p, {e}) => Told(p, outbox')}
    /\ UNCHANGED <<groups, channels, members, overrides, calls>>

-----------------------------------------------------------------------------
NoRows == [x \in {} |-> FALSE]
Init ==
    /\ groups = [g \in GroupIds |-> Nil] /\ channels = [c \in ChannelIds |-> Nil]
    /\ members = [c \in ChannelIds |-> NoRows] /\ overrides = [c \in ChannelIds |-> {}]
    /\ calls = {} /\ outbox = {} /\ unseeing = {}

(* The calls an account may make on a channel, whatever their input.           *)
MemberUpdate == [account : Accounts, remove : BOOLEAN, subscribe : BOOLEAN, unsubscribe : BOOLEAN]
Policy == [ownerOnly : BOOLEAN, owner : Accounts \union {Nil}, mandatory : BOOLEAN]
Calls ==
    [op : {"members"}, actor : Accounts, ch : ChannelIds, name : Names \union {Nil}, update : MemberUpdate]
    \union [op : {"policy"}, actor : Accounts, ch : ChannelIds, policy : Policy]
    \union [op : {"reparent"}, actor : Accounts, ch : ChannelIds, to : Agents \union {Nil}]

Next ==
    \/ \E x \in Accounts, g \in GroupIds, name \in Names, parent \in GroupIds \union {Nil}, shared \in BOOLEAN :
          CreateChannelGroup(x, g, name, parent, shared)
    \/ \E x \in Accounts, c \in ChannelIds, row \in Channel, requested \in SUBSET Accounts :
          CreateChannel(x, c, row, requested)
    \/ \E x \in Accounts, y \in Accounts, host \in Users, c \in ChannelIds, g \in GroupIds, name \in Names :
          OpenDM(x, y, host, c, g, name)
    \/ \E call \in Calls : Gate(call)
    \/ \E call \in calls : \/ Refused(call) \/ UpdateChannelMembers(call)
                           \/ SetChannelPolicy(call) \/ ReparentChannel(call)
    \/ \E e \in outbox : GetChannel(e) \/ PublishChannelChanged(e) \/ ReadFails(e)
Spec == Init /\ [][Next]_chvars

(* The types of the rows.                                                      *)
Events == [ch : ChannelIds, prior : Agents \union {Nil}, removed : SUBSET Accounts,
           now : Agents \union {Nil}, read : BOOLEAN]
ChannelsTypeOK ==
    /\ groups \in [GroupIds -> Group \union {Nil}]
    /\ channels \in [ChannelIds -> Channel \union {Nil}]
    /\ DOMAIN members = ChannelIds
    /\ \A c \in ChannelIds : /\ DOMAIN members[c] \subseteq Accounts
                             /\ members[c] \in [DOMAIN members[c] -> BOOLEAN]
    /\ overrides \in [ChannelIds -> SUBSET Accounts]
    /\ calls \subseteq Calls /\ outbox \subseteq Events
    /\ unseeing \subseteq Accounts \X ChannelIds

(* Transitive owner-membership: whoever owns an agent in a channel is in the   *)
(* channel too, whatever adds and removals ran (expandOwnerMembership).        *)
OwnersPresent ==
    \A c \in ChannelIds : AgentOwnersByIDs(DOMAIN members[c]) \subseteq DOMAIN members[c]

(* A TREE channel hangs under an agent, stores no members, and is neither      *)
(* mandatory nor OWNER_ONLY; a channel has an owner exactly when OWNER_ONLY;   *)
(* nothing hangs under a group and an agent at once, and no DM under an agent. *)
ShapesHold ==
    \A c \in ChannelIds : Live(c) =>
        /\ ValidateNewChannel(channels[c])
        /\ channels[c].tree => members[c] = NoRows

(* A group's own visibility is its effective one, which is what lets           *)
(* GroupCreateAuthorized read the bare column instead of the ancestry.         *)
BareIsEffective ==
    \A g \in GroupIds : groups[g] # Nil => (groups[g].shared <=> EffectivelyShared(g))

(* An account that loses sight of a channel gets one final ChannelChanged: an  *)
(* event that will name it is still to be published, or it was told.  It goes  *)
(* without only when a read fails after the commit of the call it lost it by.  *)
LosersTold == \A p \in unseeing : Told(p, outbox)

(* Removing members never takes a DM below its two agent parties.              *)
PartiesStay ==
    \A c \in ChannelIds :
        Live(c) /\ channels[c].dm /\ channels'[c].dm /\ CountAgentMembers(members[c]) >= 2
            => CountAgentMembers(members'[c]) >= 2
DMKeepsParties == [][PartiesStay]_chvars

(* The rows of a channel stay coherent through any order of calls: owners of   *)
(* its agents are present, its kind and policy fit together, and the bare read *)
(* of its visibility is the effective one.                                     *)
ChannelsCoherent == OwnersPresent /\ ShapesHold /\ BareIsEffective

-----------------------------------------------------------------------------
(* Bounds for Channels: MaxWrites committed writes, MaxCalls calls waiting for *)
(* the row lock, and the inputs that tell the guards apart.                    *)
CONSTANTS MaxWrites, MaxCalls,
    Creator, Party, Anchors, Invited \* who creates, and with whom
VARIABLE load

Row == [name |-> CHOOSE n \in Names : TRUE, group |-> Nil, parent |-> Nil, dm |-> FALSE,
        tree |-> FALSE, ownerOnly |-> FALSE, owner |-> Nil, mandatory |-> FALSE]
NewRows ==
    {[Row EXCEPT !.group = g] : g \in {h \in GroupIds : groups[h] # Nil}}
    \union {[Row EXCEPT !.parent = a, !.tree = t] : a \in Anchors, t \in BOOLEAN}
    \union {[Row EXCEPT !.ownerOnly = TRUE, !.owner = Creator]}
NewUpdates ==
    {[account |-> y, remove |-> k = "remove", subscribe |-> k = "subscribe", unsubscribe |-> k = "unsubscribe"] :
        y \in Users \union Invited, k \in {"remove", "subscribe", "unsubscribe"}}
NewPolicies == {[ownerOnly |-> o # Nil, owner |-> o, mandatory |-> o = Nil] : o \in Users \union {Nil}}
MemberCall(c, x, u) ==
    [op |-> "members", actor |-> x, ch |-> c, name |-> CHOOSE n \in Names : TRUE, update |-> u]
PolicyCall(c, x, p) == [op |-> "policy", actor |-> x, ch |-> c, policy |-> p]
ReparentCall(c, x, a) == [op |-> "reparent", actor |-> x, ch |-> c, to |-> a]
NewCalls(c) ==
    {MemberCall(c, x, u) : x \in Users, u \in NewUpdates}
    \union {PolicyCall(c, x, p) : x \in Users, p \in NewPolicies}
    \union {ReparentCall(c, x, a) : x \in Users, a \in Anchors \union {Nil}}

Write(A) == load < MaxWrites /\ A /\ load' = load + 1
Free(A) == A /\ load' = load

DoCreateGroup ==
    Write(\E g \in GroupIds, n \in Names, p \in GroupIds \union {Nil}, s \in BOOLEAN :
              CreateChannelGroup(Creator, g, n, p, s))
DoCreate == Write(\E c \in ChannelIds, row \in NewRows, y \in Invited : CreateChannel(Creator, c, row, {y}))
DoDM == Write(\E y \in Invited, c \in ChannelIds, g \in GroupIds :
                OpenDM(Party, y, Creator, c, g, CHOOSE n \in Names : TRUE))
DoGate ==
    /\ Cardinality(calls) < MaxCalls /\ Cardinality(calls) + load < MaxWrites
    /\ Free(\E c \in ChannelIds : Live(c) /\ \E call \in NewCalls(c) :
                (\A other \in calls : other.actor # call.actor) /\ Gate(call))
DoMembers == Write(\E call \in calls : UpdateChannelMembers(call))
DoPolicy == Write(\E call \in calls : SetChannelPolicy(call))
DoReparent == Write(\E call \in calls : ReparentChannel(call))
DoRefuse == Free(\E call \in calls : Refused(call))
DoRead == Free(\E e \in outbox : GetChannel(e))
DoPublish == Free(\E e \in outbox : PublishChannelChanged(e))
DoFail == Free(\E e \in outbox : ReadFails(e))

ChInit == Init /\ load = 0
ChNext == DoCreateGroup \/ DoCreate \/ DoDM \/ DoGate \/ DoMembers \/ DoPolicy \/ DoReparent
          \/ DoRefuse \/ DoRead \/ DoPublish \/ DoFail
ChSpec == ChInit /\ [][ChNext]_<<chvars, load>>
=============================================================================
