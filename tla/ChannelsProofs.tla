--------------------------- MODULE ChannelsProofs ---------------------------
(* TLAPS proofs about Channels, for any accounts, groups, channels and names.  *)
EXTENDS Channels, FiniteSetTheorems, TLAPS

(* Agents are not users, and have users for owners; Nil names nothing.         *)
Setting ==
    /\ Users \intersect Agents = {} /\ OwnerOf \in [Agents -> Users]
    /\ Nil \notin Accounts \union GroupIds /\ Nil \notin Group /\ Nil \notin Channel

(* A group hangs under a group of the same visibility.                         *)
GroupsInv ==
    \A g \in GroupIds : groups[g] # Nil /\ groups[g].parent # Nil =>
        /\ groups[groups[g].parent] # Nil
        /\ groups[g].shared = groups[groups[g].parent].shared

(* A channel hangs under a group there is, and has no members before it is.    *)
RowsInv ==
    \A c \in ChannelIds :
        /\ Live(c) /\ channels[c].group # Nil => groups[channels[c].group] # Nil
        /\ ~Live(c) => members[c] = NoRows

Base == ChannelsTypeOK /\ GroupsInv /\ RowsInv

(* A call that waits for the row lock names a channel there is.                *)
CallsInv == \A call \in calls : Live(call.ch)

(* Only a channel that is no DM was ever reparented; who lost sight of one     *)
(* still lacks it, and an event that will tell them is on its way.             *)
TellingInv ==
    /\ \A e \in outbox : Live(e.ch) /\ (e.prior # Nil => ~channels[e.ch].dm)
    /\ \A p \in unseeing : /\ Live(p[2])
                           /\ ~channels[p[2]].dm => ~ChannelVisibleTo(p[1], p[2])
                           /\ \E e \in outbox : e.ch = p[2] /\ Tells(e, p[1])

ChannelsInv ==
    Base /\ CallsInv /\ OwnersPresent /\ ShapesHold /\ TellingInv

-----------------------------------------------------------------------------
(* A group is as visible as its ancestors, so the bare column is the effective *)
(* visibility: the groups of its visibility are closed under parents.          *)
LEMMA Bare ==
    ASSUME Setting, ChannelsTypeOK, GroupsInv, NEW g \in GroupIds, groups[g] # Nil
    PROVE  EffectivelyShared(g) <=> groups[g].shared
  <1> DEFINE rows == {h \in GroupIds : groups[h] # Nil}
             S == {h \in rows : groups[h].shared = groups[g].shared}
  <1>1. \A h \in rows : groups[h] \in Group /\ groups[h].parent \in GroupIds \union {Nil}
    BY DEF ChannelsTypeOK, Group
  <1>2. UpClosed(S)
    BY <1>1 DEF UpClosed, GroupsInv
  <1>3. g \in S /\ S \in SUBSET rows
    OBVIOUS
  <1>4. Ancestry(g) \subseteq S
    BY <1>2, <1>3 DEF Ancestry
  <1>5. g \in Ancestry(g)
    BY DEF Ancestry
  <1> QED BY <1>4, <1>5 DEF EffectivelyShared

(* What an account sees, on a channel row, its members and the groups.         *)
Seen(x, row, rows, grps) ==
    \/ x \in DOMAIN rows
    \/ ~row.dm /\ row.group # Nil /\ grps[row.group].shared
    \/ row.parent # Nil /\ OwnerOf[row.parent] = ResolveOwner(x)

LEMMA VisibleIsSeen ==
    Setting /\ Base =>
       \A x \in Accounts, c \in ChannelIds :
          Live(c) => (ChannelVisibleTo(x, c) <=> Seen(x, channels[c], members[c], groups))
  <1> SUFFICES ASSUME Setting, Base, NEW x \in Accounts, NEW c \in ChannelIds, Live(c)
               PROVE  ChannelVisibleTo(x, c) <=> Seen(x, channels[c], members[c], groups)
    OBVIOUS
  <1>1. channels[c] \in Channel
    BY DEF Base, ChannelsTypeOK, Live
  <1>2. channels[c].group # Nil => (EffectivelyShared(channels[c].group) <=> groups[channels[c].group].shared)
    <2> SUFFICES ASSUME channels[c].group # Nil
                 PROVE  EffectivelyShared(channels[c].group) <=> groups[channels[c].group].shared
      OBVIOUS
    <2>1. channels[c].group \in GroupIds /\ groups[channels[c].group] # Nil
      BY <1>1 DEF Channel, Base, RowsInv
    <2> QED BY <2>1, Bare DEF Base
  <1>3. channels[c].parent # Nil =>
           (OwnerOf[channels[c].parent] \in {x, ResolveOwner(x)} <=> OwnerOf[channels[c].parent] = ResolveOwner(x))
    <2> SUFFICES ASSUME channels[c].parent # Nil, OwnerOf[channels[c].parent] = x
                 PROVE  OwnerOf[channels[c].parent] = ResolveOwner(x)
      OBVIOUS
    <2>1. x \in Users
      BY <1>1 DEF Channel, Setting
    <2> QED BY <2>1 DEF Setting, ResolveOwner
  <1> QED BY <1>2, <1>3 DEF ChannelVisibleTo, Seen

LEMMA VisibleIsSeenNext ==
    ASSUME Setting, Base'
    PROVE  \A x \in Accounts, c \in ChannelIds :
              Live(c)' => (ChannelVisibleTo(x, c)' <=> Seen(x, channels'[c], members'[c], groups'))
  <1>1. (Setting /\ Base =>
           \A x \in Accounts, c \in ChannelIds :
              Live(c) => (ChannelVisibleTo(x, c) <=> Seen(x, channels[c], members[c], groups)))'
    BY VisibleIsSeen, PTL
  <1> QED BY <1>1 DEF Setting, Seen

(* A step that leaves sight of channels alone: it may add a group, a channel,  *)
(* members of a DM, or an event that names nobody.                             *)
LEMMA Quiet ==
    ASSUME Setting, Base, Base', TellingInv, UNCHANGED unseeing, outbox \subseteq outbox',
           \A c \in ChannelIds : Live(c) =>
              /\ Live(c)' /\ channels'[c].dm = channels[c].dm
              /\ channels'[c].group = channels[c].group /\ channels'[c].parent = channels[c].parent
              /\ ~channels[c].dm => members'[c] = members[c],
           \A g \in GroupIds : groups[g] # Nil => groups'[g] = groups[g],
           \A e \in outbox' \ outbox : Live(e.ch)' /\ e.prior = Nil
    PROVE  TellingInv'
  <1>1. \A e \in outbox : e.ch \in ChannelIds
    BY DEF Base, ChannelsTypeOK, Events
  <1>2. \A e \in outbox' : Live(e.ch)' /\ (e.prior # Nil => ~channels'[e.ch].dm)
    BY <1>1 DEF TellingInv
  <1>3. ASSUME NEW p \in unseeing
        PROVE  /\ Live(p[2])'
               /\ ~channels'[p[2]].dm => ~ChannelVisibleTo(p[1], p[2])'
               /\ \E e \in outbox' : e.ch = p[2] /\ Tells(e, p[1])
    <2> DEFINE x == p[1]
               c == p[2]
    <2>1. x \in Accounts /\ c \in ChannelIds /\ Live(c) /\ Live(c)'
      BY DEF Base, ChannelsTypeOK, TellingInv
    <2>2. \E e \in outbox' : e.ch = c /\ Tells(e, x)
      BY DEF TellingInv
    <2>3. ASSUME ~channels'[c].dm PROVE ~ChannelVisibleTo(x, c)'
      <3>1. ~channels[c].dm /\ members'[c] = members[c]
        BY <2>1, <2>3
      <3>2. ~Seen(x, channels[c], members[c], groups)
        BY <2>1, <3>1, VisibleIsSeen DEF TellingInv
      <3>3. channels[c].group # Nil => groups'[channels[c].group] = groups[channels[c].group]
        <4>1. channels[c].group # Nil => channels[c].group \in GroupIds /\ groups[channels[c].group] # Nil
          BY <2>1 DEF Base, RowsInv, ChannelsTypeOK, Live, Channel
        <4> QED BY <4>1
      <3>4. ~Seen(x, channels'[c], members'[c], groups')
        BY <2>1, <3>1, <3>2, <3>3 DEF Seen
      <3> QED BY <2>1, <3>4, VisibleIsSeenNext
    <2> QED BY <2>1, <2>2, <2>3
  <1>4. \A p \in unseeing' : \E e \in outbox' : e.ch = p[2] /\ Tells(e, p[1])
    BY <1>3
  <1> QED BY <1>2, <1>3, <1>4 DEF TellingInv, Tells

-----------------------------------------------------------------------------
(* Owners are users, so one expansion closes a set under owners.               *)
LEMMA ExpandClosed ==
    ASSUME Setting, NEW x \in Accounts, NEW requested \in SUBSET Accounts
    PROVE  /\ ExpandOwnerMembership(x, requested) \subseteq Accounts
           /\ AgentOwnersByIDs(ExpandOwnerMembership(x, requested))
                 \subseteq ExpandOwnerMembership(x, requested)
  BY DEF ExpandOwnerMembership, AgentOwnersByIDs, Setting, Accounts

LEMMA OwnersUnion ==
    ASSUME NEW S, NEW T, AgentOwnersByIDs(S) \subseteq S, AgentOwnersByIDs(T) \subseteq T
    PROVE  AgentOwnersByIDs(S \union T) \subseteq S \union T
  BY DEF AgentOwnersByIDs

LEMMA Announced ==
    ASSUME NEW c \in ChannelIds, NEW prior \in Agents \union {Nil}, NEW removed \in SUBSET Accounts,
           outbox \subseteq Events, Announce(c, prior, removed)
    PROVE  /\ outbox' \subseteq Events /\ outbox \subseteq outbox'
           /\ \A e \in outbox' \ outbox : /\ e.ch = c /\ e.prior = prior
                                          /\ e.removed = removed /\ ~e.read
           /\ \E e \in outbox' : /\ e.ch = c /\ e.prior = prior
                                 /\ e.removed = removed /\ ~e.read
  <1> DEFINE n == [ch |-> c, prior |-> prior, removed |-> removed, now |-> Nil, read |-> FALSE]
  <1>1. n \in Events
    BY DEF Events
  <1>2. outbox' = outbox \union {n}
    BY DEF Announce
  <1>3. n.ch = c /\ n.prior = prior /\ n.removed = removed /\ ~n.read
    OBVIOUS
  <1> HIDE DEF n
  <1> QED BY <1>1, <1>2, <1>3

(* An announcement that names nobody.                                          *)
LEMMA AnnouncedPlain ==
    ASSUME NEW c \in ChannelIds, outbox \subseteq Events, Announce(c, Nil, {})
    PROVE  /\ outbox' \subseteq Events /\ outbox \subseteq outbox'
           /\ \A e \in outbox' \ outbox : e.ch = c /\ e.prior = Nil
  <1> DEFINE removed == {}
  <1>1. Nil \in Agents \union {Nil} /\ removed \in SUBSET Accounts
    OBVIOUS
  <1> HIDE DEF removed
  <1>2. Announce(c, Nil, removed)
    BY DEF removed
  <1> QED BY <1>1, <1>2, Announced

(* One channel's row becomes n and its member rows become rows.                *)
LEMMA RowsWritten ==
    ASSUME ChannelsTypeOK, RowsInv, ShapesHold, NEW c, NEW n, NEW rows,
           n # Nil, ValidateNewChannel(n), n.tree => rows = NoRows,
           n.group # Nil => groups'[n.group] # Nil,
           \A g \in GroupIds : groups[g] # Nil => groups'[g] # Nil,
           \A d \in ChannelIds : channels'[d] = IF d = c THEN n ELSE channels[d],
           \A d \in ChannelIds : members'[d] = IF d = c THEN rows ELSE members[d]
    PROVE  RowsInv' /\ ShapesHold'
  <1>1. ASSUME NEW d \in ChannelIds
        PROVE  /\ Live(d)' /\ channels'[d].group # Nil => groups'[channels'[d].group] # Nil
               /\ ~Live(d)' => members'[d] = NoRows
               /\ Live(d)' => /\ ValidateNewChannel(channels'[d])
                              /\ channels'[d].tree => members'[d] = NoRows
    <2>1. CASE d = c
      <3>1. channels'[d] = n /\ members'[d] = rows
        BY <2>1
      <3> QED BY <3>1 DEF Live
    <2>2. CASE d # c
      <3>1. channels'[d] = channels[d] /\ members'[d] = members[d]
        BY <2>2
      <3>2. Live(d) /\ channels[d].group # Nil => channels[d].group \in GroupIds
        BY DEF ChannelsTypeOK, Live, Channel
      <3>3. /\ Live(d) /\ channels[d].group # Nil => groups[channels[d].group] # Nil
            /\ ~Live(d) => members[d] = NoRows
        BY DEF RowsInv
      <3>4. Live(d) => ValidateNewChannel(channels[d]) /\ (channels[d].tree => members[d] = NoRows)
        BY DEF ShapesHold
      <3> QED BY <3>1, <3>2, <3>3, <3>4 DEF Live
    <2> QED BY <2>1, <2>2
  <1>2. RowsInv'
    BY <1>1 DEF RowsInv
  <1>3. ShapesHold'
    BY <1>1 DEF ShapesHold
  <1> QED BY <1>2, <1>3

LEMMA CallFields ==
    ASSUME NEW call \in Calls
    PROVE  /\ call.ch \in ChannelIds /\ call.actor \in Accounts
           /\ call.op = "members" => call.update \in MemberUpdate /\ call.name \in Names \union {Nil}
           /\ call.op = "policy" => call.policy \in Policy
           /\ call.op = "reparent" => call.to \in Agents \union {Nil}
  BY DEF Calls

(* No channel goes away, so a waiting call keeps the one it names.             *)
LEMMA CallsKept ==
    ASSUME ChannelsTypeOK, CallsInv, calls' \subseteq calls,
           \A d \in ChannelIds : Live(d) => Live(d)'
    PROVE  CallsInv'
  <1>1. \A k \in calls : k.ch \in ChannelIds /\ Live(k.ch)
    BY CallFields DEF ChannelsTypeOK, CallsInv
  <1> QED BY <1>1 DEF CallsInv

LEMMA Conjuncts ==
    ASSUME ChannelsInv
    PROVE  /\ Base /\ ChannelsTypeOK /\ GroupsInv /\ RowsInv /\ CallsInv /\ OwnersPresent
           /\ ShapesHold /\ TellingInv
  BY DEF ChannelsInv, Base

LEMMA InitInv == ASSUME Setting, Init PROVE ChannelsInv
  <1>1. ChannelsTypeOK
    <2>1. DOMAIN NoRows = {} /\ NoRows \in [DOMAIN NoRows -> BOOLEAN]
      BY DEF NoRows
    <2> QED BY <2>1 DEF Init, ChannelsTypeOK
  <1>2. \A c \in ChannelIds : ~Live(c) /\ DOMAIN members[c] = {}
    BY DEF Init, Live, NoRows
  <1> QED BY <1>1, <1>2 DEF Init, ChannelsInv, Base, GroupsInv, RowsInv, CallsInv, TellingInv,
             OwnersPresent, ShapesHold, AgentOwnersByIDs

LEMMA CreateGroupStep ==
    ASSUME Setting, ChannelsInv, NEW x \in Accounts, NEW g \in GroupIds, NEW name \in Names,
           NEW parent \in GroupIds \union {Nil}, NEW shared \in BOOLEAN,
           CreateChannelGroup(x, g, name, parent, shared)
    PROVE  ChannelsInv'
  <1> DEFINE row == [name |-> name, parent |-> parent, owner |-> x, namespace |-> ResolveOwner(x),
                     shared |-> shared, reserved |-> FALSE]
  <1>1. row \in Group
    BY DEF Group, Setting, ResolveOwner, Accounts
  <1>2. /\ groups[g] = Nil /\ groups' = [groups EXCEPT ![g] = row]
        /\ UNCHANGED <<channels, members, overrides, calls, outbox, unseeing>>
        /\ parent # Nil => groups[parent] # Nil /\ shared = groups[parent].shared
    BY DEF CreateChannelGroup, GroupCreateAuthorized, SameVisibility
  <1>3. row.parent = parent /\ row.shared = shared /\ row # Nil
    BY Zenon, <1>1 DEF Setting
  <1> HIDE DEF row
  <1>4. ChannelsTypeOK'
    BY <1>1, <1>2 DEF ChannelsInv, Base, ChannelsTypeOK
  <1>5. \A h \in GroupIds : groups'[h] = IF h = g THEN row ELSE groups[h]
    BY <1>2 DEF ChannelsInv, Base, ChannelsTypeOK
  <1>6. GroupsInv'
    BY <1>2, <1>3, <1>5 DEF ChannelsInv, Base, GroupsInv, ChannelsTypeOK, Group
  <1>7. RowsInv'
    BY <1>2, <1>3, <1>5 DEF ChannelsInv, Base, RowsInv, ChannelsTypeOK, Channel, Live
  <1>8. TellingInv'
    BY <1>2, <1>4, <1>5, <1>6, <1>7, Quiet DEF ChannelsInv, Base, Live
  <1> QED BY <1>2, <1>4, <1>6, <1>7, <1>8
          DEF ChannelsInv, Base, CallsInv, OwnersPresent, ShapesHold, Live

LEMMA CreateStep ==
    ASSUME Setting, ChannelsInv, NEW x \in Accounts, NEW c \in ChannelIds, NEW row \in Channel,
           NEW requested \in SUBSET Accounts, CreateChannel(x, c, row, requested)
    PROVE  ChannelsInv'
  <1> DEFINE all == ExpandOwnerMembership(x, requested)
             rows == IF row.tree THEN NoRows ELSE [y \in all |-> FALSE]
  <1>0. all \subseteq Accounts /\ AgentOwnersByIDs(all) \subseteq all
    BY ExpandClosed
  <1>1. /\ ~Live(c) /\ ValidateNewChannel(row) /\ row # Nil
        /\ row.group # Nil => groups[row.group] # Nil
        /\ channels' = [channels EXCEPT ![c] = row] /\ Announce(c, Nil, {})
        /\ UNCHANGED <<groups, overrides, calls, unseeing>>
    BY DEF CreateChannel, StoreCreateChannel, GroupCreateAuthorized, InsertChannel, Setting
  <1>2. members[c] = NoRows
    BY <1>1 DEF ChannelsInv, Base, RowsInv
  <1>3. DOMAIN members = ChannelIds /\ \A d \in ChannelIds : members'[d] = IF d = c THEN rows ELSE members[d]
    BY Zenon, <1>2 DEF CreateChannel, StoreCreateChannel, WriteExplicitMembers, ChannelsInv, Base, ChannelsTypeOK
  <1>4. /\ DOMAIN rows \subseteq Accounts /\ rows \in [DOMAIN rows -> BOOLEAN]
        /\ AgentOwnersByIDs(DOMAIN rows) \subseteq DOMAIN rows
        /\ row.tree => rows = NoRows
    <2>1. CASE row.tree
      BY <2>1 DEF NoRows, AgentOwnersByIDs
    <2>2. CASE ~row.tree
      BY <2>2, <1>0
    <2> QED BY <2>1, <2>2
  <1>5. DOMAIN members' = ChannelIds
    BY DEF CreateChannel, StoreCreateChannel, WriteExplicitMembers, ChannelsInv, Base, ChannelsTypeOK
  <1> HIDE DEF rows, all
  <1>6. \A d \in ChannelIds : channels'[d] = IF d = c THEN row ELSE channels[d]
    BY <1>1 DEF ChannelsInv, Base, ChannelsTypeOK
  <1>7. /\ outbox' \subseteq Events /\ outbox \subseteq outbox'
        /\ \A e \in outbox' \ outbox : e.ch = c /\ e.prior = Nil
    <2>1. outbox \subseteq Events
      BY DEF ChannelsInv, Base, ChannelsTypeOK
    <2> QED BY <1>1, <2>1, Announced
  <1>8. ChannelsTypeOK'
    BY <1>1, <1>3, <1>4, <1>5, <1>7 DEF ChannelsInv, Base, ChannelsTypeOK
  <1>9. GroupsInv' /\ RowsInv' /\ ShapesHold'
    <2>1. GroupsInv'
      BY <1>1, Conjuncts DEF GroupsInv
    <2>2. \A h \in GroupIds : groups[h] # Nil => groups'[h] # Nil
      BY <1>1
    <2> QED BY <1>1, <1>3, <1>4, <1>6, <2>1, <2>2, Conjuncts, RowsWritten
  <1>10. TellingInv'
    BY <1>1, <1>3, <1>6, <1>7, <1>8, <1>9, Quiet DEF ChannelsInv, Base, Live
  <1>11. CallsInv'
    BY <1>1, <1>6 DEF ChannelsInv, Base, CallsInv, Live
  <1>12. OwnersPresent'
    BY <1>3, <1>4 DEF ChannelsInv, OwnersPresent, AgentOwnersByIDs
  <1> QED BY <1>8, <1>9, <1>10, <1>11, <1>12 DEF ChannelsInv, Base

LEMMA OpenDMStep ==
    ASSUME Setting, ChannelsInv, NEW x \in Accounts, NEW y \in Accounts, NEW host \in Users,
           NEW c \in ChannelIds, NEW g \in GroupIds, NEW name \in Names,
           OpenDM(x, y, host, c, g, name)
    PROVE  ChannelsInv'
  <1> DEFINE all == ExpandOwnerMembership(x, {y})
             rows == EnsureChannelMember(members[c], all)
             grp == OwnerDMGroup(host)
             new == [name |-> name, group |-> g, parent |-> Nil, dm |-> TRUE, tree |-> FALSE,
                     ownerOnly |-> FALSE, owner |-> Nil, mandatory |-> TRUE]
             old == [channels[c] EXCEPT !.mandatory = TRUE]
  <1>1. all \subseteq Accounts /\ AgentOwnersByIDs(all) \subseteq all
    BY ExpandClosed
  <1>2. grp \in Group /\ grp.parent = Nil /\ grp # Nil
    <2>1. grp \in Group
      BY DEF OwnerDMGroup, Group, Accounts
    <2> QED BY Zenon, <2>1 DEF OwnerDMGroup, Setting
  <1>3. (groups[g] = grp \/ groups[g] = Nil) /\ groups' = [groups EXCEPT ![g] = grp]
    BY DEF OpenDM, EnsureOwnerDMGroupTx
  <1>4. \A h \in GroupIds : groups'[h] = IF h = g THEN grp ELSE groups[h]
    BY <1>3 DEF ChannelsInv, Base, ChannelsTypeOK
  <1>5. /\ DOMAIN rows \subseteq Accounts /\ rows \in [DOMAIN rows -> BOOLEAN]
        /\ AgentOwnersByIDs(DOMAIN rows) \subseteq DOMAIN rows
    <2>1. /\ DOMAIN members[c] \subseteq Accounts /\ members[c] \in [DOMAIN members[c] -> BOOLEAN]
          /\ AgentOwnersByIDs(DOMAIN members[c]) \subseteq DOMAIN members[c]
      BY DEF ChannelsInv, Base, ChannelsTypeOK, OwnersPresent
    <2>2. DOMAIN rows = DOMAIN members[c] \union all
      BY DEF EnsureChannelMember
    <2>3. rows \in [DOMAIN rows -> BOOLEAN]
      BY <2>1, <2>2 DEF EnsureChannelMember
    <2>4. AgentOwnersByIDs(DOMAIN rows) \subseteq DOMAIN rows
      BY Zenon, <1>1, <2>1, <2>2, OwnersUnion
    <2> QED BY <1>1, <2>1, <2>2, <2>3, <2>4
  <1>6. members' = [members EXCEPT ![c] = rows] /\ UNCHANGED <<overrides, calls, unseeing>>
    BY DEF OpenDM, UpsertDMChannelTx
  <1>7. DOMAIN members' = ChannelIds
        /\ \A d \in ChannelIds : members'[d] = IF d = c THEN rows ELSE members[d]
    BY <1>6 DEF ChannelsInv, Base, ChannelsTypeOK
  <1>8. /\ outbox' \subseteq Events /\ outbox \subseteq outbox'
        /\ \A e \in outbox' \ outbox : e.ch = c /\ e.prior = Nil
    <2>1. outbox \subseteq Events
      BY DEF ChannelsInv, Base, ChannelsTypeOK
    <2>2. Announce(c, Nil, {}) \/ UNCHANGED outbox
      BY DEF OpenDM, UpsertDMChannelTx
    <2> QED BY <2>1, <2>2, Announced
  <1>9. PICK row \in Channel :
           /\ channels' = [channels EXCEPT ![c] = row]
           /\ row # Nil /\ row.dm /\ row.group = g /\ row.parent = Nil /\ ~row.tree
           /\ ValidateNewChannel(row)
           /\ Live(c) => channels[c].dm /\ channels[c].group = g /\ channels[c].parent = Nil
    <2>1. CASE InsertDMChannel(c, g, name)
      <3>1. new \in Channel /\ new # Nil
        <4>1. new \in Channel
          BY DEF Channel
        <4> QED BY Zenon, <4>1 DEF Setting
      <3>2. channels' = [channels EXCEPT ![c] = new] /\ ~Live(c)
        BY <2>1 DEF InsertDMChannel
      <3>3. new.dm /\ new.group = g /\ new.parent = Nil /\ ~new.tree /\ ValidateNewChannel(new)
        BY DEF ValidateNewChannel
      <3> HIDE DEF new
      <3> QED BY Zenon, <3>1, <3>2, <3>3
    <2>2. CASE VerifyReconcileDMTx(c, g, name)
      <3>1. channels[c] \in Channel /\ channels[c].dm /\ channels[c].group = g /\ Live(c)
        BY <2>2 DEF VerifyReconcileDMTx, GetDMChannelByName, Live, ChannelsInv, Base, ChannelsTypeOK
      <3>2. ValidateNewChannel(channels[c])
        BY <3>1 DEF ChannelsInv, ShapesHold
      <3>3. channels' = [channels EXCEPT ![c] = old]
        BY <2>2 DEF VerifyReconcileDMTx
      <3>4. old \in Channel
        BY Zenon, <3>1 DEF Channel
      <3>5. old # Nil
        BY Zenon, <3>4 DEF Setting
      <3>6. channels[c].parent = Nil /\ ~channels[c].tree
        BY <3>1, <3>2 DEF ValidateNewChannel
      <3>7. /\ old.dm /\ old.group = g /\ old.parent = channels[c].parent /\ old.tree = channels[c].tree
            /\ old.ownerOnly = channels[c].ownerOnly /\ old.owner = channels[c].owner
        BY <3>1 DEF Channel
      <3>8. ValidateNewChannel(old)
        BY <3>2, <3>6, <3>7 DEF ValidateNewChannel
      <3> HIDE DEF old
      <3> QED BY Zenon, <3>1, <3>3, <3>4, <3>5, <3>6, <3>7, <3>8
    <2> QED BY <2>1, <2>2 DEF OpenDM, UpsertDMChannelTx
  <1> HIDE DEF rows, all, grp
  <1>10. \A d \in ChannelIds : channels'[d] = IF d = c THEN row ELSE channels[d]
    BY <1>9 DEF ChannelsInv, Base, ChannelsTypeOK
  <1>11. ChannelsTypeOK'
    BY <1>2, <1>3, <1>5, <1>6, <1>7, <1>8, <1>9 DEF ChannelsInv, Base, ChannelsTypeOK
  <1>12. GroupsInv'
    <2> SUFFICES ASSUME NEW h \in GroupIds, groups'[h] # Nil, groups'[h].parent # Nil
                 PROVE  /\ groups'[groups'[h].parent] # Nil
                        /\ groups'[h].shared = groups'[groups'[h].parent].shared
      BY DEF GroupsInv
    <2>1. h # g /\ groups'[h] = groups[h]
      BY <1>2, <1>4
    <2>2. groups[h].parent \in GroupIds
      BY <2>1, Conjuncts DEF ChannelsTypeOK, Group
    <2>3. groups[groups[h].parent] # Nil /\ groups[h].shared = groups[groups[h].parent].shared
      BY <2>1, Conjuncts DEF GroupsInv
    <2>4. groups'[groups[h].parent] = groups[groups[h].parent]
      BY <1>3, <1>4, <2>2, <2>3
    <2> QED BY <2>1, <2>3, <2>4
  <1>13. RowsInv' /\ ShapesHold'
    <2>1. \A h \in GroupIds : groups[h] # Nil => groups'[h] # Nil
      BY <1>2, <1>4
    <2>2. row.group # Nil => groups'[row.group] # Nil
      BY <1>2, <1>4, <1>9
    <2>3. row # Nil /\ ValidateNewChannel(row) /\ (row.tree => rows = NoRows)
      BY <1>9
    <2>4. \A d \in ChannelIds : members'[d] = IF d = c THEN rows ELSE members[d]
      BY <1>7
    <2>5. ChannelsTypeOK /\ RowsInv /\ ShapesHold
      BY Conjuncts
    <2> QED BY <1>10, <2>1, <2>2, <2>3, <2>4, <2>5, RowsWritten
  <1>14. TellingInv'
    <2>1. \A d \in ChannelIds : Live(d) =>
              /\ Live(d)' /\ channels'[d].dm = channels[d].dm
              /\ channels'[d].group = channels[d].group /\ channels'[d].parent = channels[d].parent
              /\ ~channels[d].dm => members'[d] = members[d]
      <3> SUFFICES ASSUME NEW d \in ChannelIds, Live(d)
                   PROVE  /\ Live(d)' /\ channels'[d].dm = channels[d].dm
                          /\ channels'[d].group = channels[d].group /\ channels'[d].parent = channels[d].parent
                          /\ ~channels[d].dm => members'[d] = members[d]
        OBVIOUS
      <3>1. CASE d # c
        BY <3>1, <1>7, <1>10 DEF Live
      <3>2. CASE d = c
        <4>1. channels[c].dm = TRUE /\ row.dm = TRUE
          BY <3>2, <1>9 DEF Channel, Live, ChannelsInv, Base, ChannelsTypeOK
        <4> QED BY Zenon, <3>2, <4>1, <1>9, <1>10 DEF Live
      <3> QED BY <3>1, <3>2
    <2>2. \A h \in GroupIds : groups[h] # Nil => groups'[h] = groups[h]
      BY <1>3, <1>4
    <2>3. \A e \in outbox' \ outbox : Live(e.ch)' /\ e.prior = Nil
      BY <1>8, <1>9, <1>10 DEF Live
    <2> QED BY Zenon, <1>6, <1>8, <1>11, <1>12, <1>13, <2>1, <2>2, <2>3, Quiet DEF ChannelsInv, Base
  <1>15. CallsInv'
    <2>1. \A d \in ChannelIds : Live(d) => Live(d)'
      BY <1>9, <1>10 DEF Live
    <2> QED BY <1>6, <2>1, Conjuncts, CallsKept
  <1>16. OwnersPresent'
    BY <1>5, <1>7 DEF ChannelsInv, OwnersPresent, AgentOwnersByIDs
  <1> QED BY <1>11, <1>12, <1>13, <1>14, <1>15, <1>16 DEF ChannelsInv, Base

(* A call passes its gate, or is refused under the row lock: no row changes.   *)
LEMMA CallStep ==
    ASSUME Setting, ChannelsInv, calls' \subseteq Calls, \A call \in calls' : Live(call.ch),
           UNCHANGED <<groups, channels, members, overrides, outbox, unseeing>>
    PROVE  ChannelsInv'
  <1>1. ChannelsTypeOK'
    BY DEF ChannelsInv, Base, ChannelsTypeOK
  <1>2. GroupsInv' /\ RowsInv'
    BY DEF ChannelsInv, Base, GroupsInv, RowsInv, Live
  <1>3. TellingInv'
    BY <1>1, <1>2, Quiet DEF ChannelsInv, Base, Live
  <1> QED BY <1>1, <1>2, <1>3 DEF ChannelsInv, Base, CallsInv, OwnersPresent, ShapesHold, Live

LEMMA TreeStep ==
    ASSUME Setting, ChannelsInv, NEW call \in calls, call.op = "members", calls' = calls \ {call},
           UpdateTreeSubscriptions(call)
    PROVE  ChannelsInv'
  <1> DEFINE c == call.ch
             u == call.update
             n == UpsertChannelSubscription(overrides[c], u.account, u.subscribe)
  <1>1. call \in Calls /\ Live(c)
    BY DEF ChannelsInv, Base, ChannelsTypeOK, CallsInv
  <1>2. c \in ChannelIds /\ u \in MemberUpdate
    BY <1>1, CallFields
  <1>3. /\ overrides' = [overrides EXCEPT ![c] = n] /\ Announce(c, Nil, {})
        /\ UNCHANGED <<groups, channels, members, unseeing>>
    BY DEF UpdateTreeSubscriptions
  <1>4. n \in SUBSET Accounts
    BY <1>2 DEF ChannelsInv, Base, ChannelsTypeOK, UpsertChannelSubscription, MemberUpdate
  <1>5. /\ outbox' \subseteq Events /\ outbox \subseteq outbox'
        /\ \A e \in outbox' \ outbox : e.ch = c /\ e.prior = Nil
    <2>1. outbox \subseteq Events
      BY DEF ChannelsInv, Base, ChannelsTypeOK
    <2> QED BY <1>2, <1>3, <2>1, Announced
  <1> HIDE DEF n, c, u
  <1>6. ChannelsTypeOK'
    BY <1>2, <1>3, <1>4, <1>5 DEF ChannelsInv, Base, ChannelsTypeOK
  <1>7. GroupsInv' /\ RowsInv'
    BY <1>3 DEF ChannelsInv, Base, GroupsInv, RowsInv, Live
  <1>8. TellingInv'
    BY <1>1, <1>3, <1>5, <1>6, <1>7, Quiet DEF ChannelsInv, Base, Live
  <1> QED BY <1>3, <1>6, <1>7, <1>8
          DEF ChannelsInv, Base, CallsInv, OwnersPresent, ShapesHold, Live

LEMMA PolicyStep ==
    ASSUME Setting, ChannelsInv, NEW call \in calls, SetChannelPolicy(call)
    PROVE  ChannelsInv'
  <1> DEFINE c == call.ch
             p == call.policy
             row == channels[c]
             n == UpdateChannelPolicy(row, p)
  <1>1. call \in Calls /\ Live(c) /\ call.op = "policy"
    BY DEF ChannelsInv, Base, ChannelsTypeOK, CallsInv, SetChannelPolicy
  <1>2. c \in ChannelIds /\ p \in Policy
    BY <1>1, CallFields
  <1>3. /\ channels' = [channels EXCEPT ![c] = n] /\ Announce(c, Nil, {}) /\ calls' = calls \ {call}
        /\ UNCHANGED <<groups, members, overrides, unseeing>>
        /\ row.tree => p.mandatory = row.mandatory /\ ~p.ownerOnly
        /\ p.ownerOnly <=> p.owner # Nil
    BY Zenon DEF SetChannelPolicy
  <1>4. row \in Channel /\ ValidateNewChannel(row)
    BY <1>1, <1>2 DEF ChannelsInv, Base, ChannelsTypeOK, Live, ShapesHold
  <1>5. n \in Channel
    BY Zenon, <1>2, <1>4 DEF UpdateChannelPolicy, Channel, Policy
  <1>6. n # Nil
    BY <1>5 DEF Setting
  <1>7. /\ n.group = row.group /\ n.parent = row.parent /\ n.dm = row.dm /\ n.tree = row.tree
        /\ n.ownerOnly = p.ownerOnly /\ n.owner = p.owner /\ n.mandatory = p.mandatory
    BY <1>4 DEF UpdateChannelPolicy, Channel
  <1>8. ValidateNewChannel(n)
    BY Zenon, <1>3, <1>4, <1>7 DEF ValidateNewChannel
  <1>9. /\ outbox' \subseteq Events /\ outbox \subseteq outbox'
        /\ \A e \in outbox' \ outbox : e.ch = c /\ e.prior = Nil
    <2>1. outbox \subseteq Events
      BY DEF ChannelsInv, Base, ChannelsTypeOK
    <2>2. c \in ChannelIds /\ Announce(c, Nil, {})
      BY <1>2, <1>3
    <2> HIDE DEF c
    <2> QED BY <2>1, <2>2, AnnouncedPlain
  <1> HIDE DEF n, c, p
  <1>10. \A d \in ChannelIds : channels'[d] = IF d = c THEN n ELSE channels[d]
    BY <1>3 DEF ChannelsInv, Base, ChannelsTypeOK
  <1>11. ChannelsTypeOK'
    BY <1>2, <1>3, <1>5, <1>9 DEF ChannelsInv, Base, ChannelsTypeOK
  <1>12. GroupsInv' /\ RowsInv' /\ ShapesHold'
    <2>1. GroupsInv'
      BY <1>3, Conjuncts DEF GroupsInv
    <2>2. \A h \in GroupIds : groups[h] # Nil => groups'[h] # Nil
      BY <1>3
    <2>3. n.group # Nil => groups'[n.group] # Nil
      BY <1>1, <1>2, <1>3, <1>7, Conjuncts DEF RowsInv
    <2>4. n.tree => members[c] = NoRows
      BY Zenon, <1>1, <1>2, <1>7, Conjuncts DEF ShapesHold
    <2>5. \A d \in ChannelIds : members'[d] = IF d = c THEN members[c] ELSE members[d]
      BY <1>3
    <2> QED BY Zenon, <1>6, <1>8, <1>10, <2>1, <2>2, <2>3, <2>4, <2>5, Conjuncts, RowsWritten
  <1>13. TellingInv'
    BY Zenon, <1>1, <1>2, <1>3, <1>6, <1>7, <1>9, <1>10, <1>11, <1>12, Quiet DEF ChannelsInv, Base, Live
  <1>14. CallsInv' /\ OwnersPresent'
    BY <1>3, <1>6, <1>10 DEF ChannelsInv, Base, CallsInv, OwnersPresent, Live
  <1> QED BY <1>11, <1>12, <1>13, <1>14 DEF ChannelsInv, Base

-----------------------------------------------------------------------------
(* A step that may cost accounts their sight of channel c: those it costs are  *)
(* named by an event of the step.                                              *)
LEMMA LosingTyped ==
    ASSUME NEW c \in ChannelIds, Losing(c), unseeing \subseteq Accounts \X ChannelIds
    PROVE  unseeing' \subseteq Accounts \X ChannelIds
  BY DEF Losing

LEMMA Lost ==
    ASSUME Setting, Base, TellingInv, NEW c \in ChannelIds, Losing(c), Live(c)',
           outbox \subseteq outbox',
           \A d \in ChannelIds \ {c} : channels'[d] = channels[d],
           channels'[c].dm => channels[c].dm,
           \A e \in outbox' \ outbox : e.ch = c /\ (e.prior # Nil => ~channels'[c].dm),
           \A y \in Accounts : ChannelVisibleTo(y, c) /\ ~ChannelVisibleTo(y, c)' =>
              \E e \in outbox' : e.ch = c /\ Tells(e, y)
    PROVE  TellingInv'
  <1>1. \A e \in outbox' : Live(e.ch)' /\ (e.prior # Nil => ~channels'[e.ch].dm)
    <2> SUFFICES ASSUME NEW e \in outbox'
                 PROVE  Live(e.ch)' /\ (e.prior # Nil => ~channels'[e.ch].dm)
      OBVIOUS
    <2>1. CASE e \in outbox
      <3>1. e.ch \in ChannelIds /\ Live(e.ch) /\ (e.prior # Nil => ~channels[e.ch].dm)
        BY Zenon, <2>1 DEF Base, ChannelsTypeOK, Events, TellingInv
      <3> QED BY <3>1 DEF Live
    <2>2. CASE e \notin outbox
      BY <2>2
    <2> QED BY Zenon, <2>1, <2>2
  <1>2. ASSUME NEW p \in unseeing'
        PROVE  /\ Live(p[2])'
               /\ ~channels'[p[2]].dm => ~ChannelVisibleTo(p[1], p[2])'
               /\ \E e \in outbox' : e.ch = p[2] /\ Tells(e, p[1])
    <2>1. CASE p \in unseeing /\ ~ChannelVisibleTo(p[1], p[2])'
      <3>1. p[2] \in ChannelIds /\ Live(p[2]) /\ \E e \in outbox : e.ch = p[2] /\ Tells(e, p[1])
        BY Zenon, <2>1 DEF Base, ChannelsTypeOK, TellingInv
      <3> QED BY <2>1, <3>1 DEF Live
    <2>2. CASE \E y \in Accounts : p = <<y, c>> /\ ChannelVisibleTo(y, c) /\ ~ChannelVisibleTo(y, c)'
      <3>1. PICK y \in Accounts : p = <<y, c>> /\ ChannelVisibleTo(y, c) /\ ~ChannelVisibleTo(y, c)'
        BY <2>2
      <3>2. p[1] = y /\ p[2] = c
        BY <3>1
      <3> QED BY Zenon, <3>1, <3>2
    <2> QED BY Zenon, <2>1, <2>2 DEF Losing
  <1> QED BY Zenon, <1>1, <1>2 DEF TellingInv, Tells

LEMMA AddStep ==
    ASSUME Setting, ChannelsInv, NEW call \in calls, call.op = "members", calls' = calls \ {call},
           ~channels[call.ch].tree, AddOrUpdateMember(call)
    PROVE  ChannelsInv'
  <1> DEFINE c == call.ch
             u == call.update
             row == channels[c]
             n == IF Converts(c, u) THEN ConvertDMChannel(row, call.name) ELSE row
             subs == IF Converts(c, u) THEN SubscribeConvertedDMParties(members[c]) ELSE members[c]
             ups == UpsertChannelMember(subs, u.account, u.subscribe)
             all == ExpandOwnerMembership(u.account, {})
             rows == EnsureChannelMember(ups, all)
  <1>1. call \in Calls /\ Live(c)
    BY DEF ChannelsInv, Base, ChannelsTypeOK, CallsInv
  <1>2. c \in ChannelIds /\ u \in MemberUpdate /\ call.name \in Names \union {Nil} /\ u.account \in Accounts
    BY <1>1, CallFields DEF MemberUpdate
  <1>3. row \in Channel /\ ValidateNewChannel(row)
    BY <1>1, <1>2 DEF ChannelsInv, Base, ChannelsTypeOK, Live, ShapesHold
  <1>4. /\ members' = [members EXCEPT ![c] = rows] /\ Announce(c, Nil, {})
        /\ UNCHANGED <<groups, overrides>> /\ Losing(c)
    BY Zenon DEF AddOrUpdateMember
  <1>5. channels' = [channels EXCEPT ![c] = n] /\ (Converts(c, u) => call.name \in Names)
    BY <1>2 DEF AddOrUpdateMember, MaybeConvertDM, ChannelsInv, Base, ChannelsTypeOK
  <1>6. n \in Channel /\ n.parent = row.parent /\ n.tree = row.tree
        /\ n.ownerOnly = row.ownerOnly /\ n.owner = row.owner
        /\ (n.dm => row.dm) /\ (n.group = row.group \/ n.group = Nil)
        /\ (row.dm = n.dm => n = row) /\ (~n.dm /\ row.dm => n.group = Nil)
    <2>1. CASE Converts(c, u)
      <3>1. n = [row EXCEPT !.dm = FALSE, !.name = call.name, !.group = Nil, !.mandatory = FALSE]
        BY <2>1 DEF ConvertDMChannel
      <3>2. row.dm = TRUE
        BY <2>1, <1>3 DEF Converts, Channel
      <3> HIDE DEF n
      <3>3. n \in Channel
        BY Zenon, <3>1, <1>3, <1>5, <2>1 DEF Channel
      <3>4. /\ n.parent = row.parent /\ n.tree = row.tree /\ n.ownerOnly = row.ownerOnly
            /\ n.owner = row.owner /\ n.dm = FALSE /\ n.group = Nil
        BY <3>1, <1>3 DEF Channel
      <3> QED BY <3>2, <3>3, <3>4
    <2>2. CASE ~Converts(c, u)
      <3>1. n = row
        BY <2>2
      <3> QED BY Zenon, <3>1, <1>3
    <2> QED BY Zenon, <2>1, <2>2
  <1>7. n # Nil /\ ~n.tree
    BY Zenon, <1>6 DEF Setting
  <1>8. ValidateNewChannel(n)
    BY Zenon, <1>3, <1>6, <1>7 DEF ValidateNewChannel
  <1>9. /\ DOMAIN rows \subseteq Accounts /\ rows \in [DOMAIN rows -> BOOLEAN]
        /\ AgentOwnersByIDs(DOMAIN rows) \subseteq DOMAIN rows
        /\ DOMAIN members[c] \subseteq DOMAIN rows
    <2>1. /\ DOMAIN members[c] \subseteq Accounts /\ members[c] \in [DOMAIN members[c] -> BOOLEAN]
          /\ AgentOwnersByIDs(DOMAIN members[c]) \subseteq DOMAIN members[c]
      BY <1>2 DEF ChannelsInv, Base, ChannelsTypeOK, OwnersPresent
    <2>2. all \subseteq Accounts /\ AgentOwnersByIDs(all) \subseteq all /\ u.account \in all
      BY Zenon, <1>2, ExpandClosed DEF ExpandOwnerMembership
    <2>3. DOMAIN subs = DOMAIN members[c]
      BY DEF SubscribeConvertedDMParties
    <2>4. DOMAIN ups = DOMAIN subs \union {u.account}
      BY DEF UpsertChannelMember
    <2>5. DOMAIN rows = DOMAIN ups \union all
      BY Zenon DEF EnsureChannelMember
    <2>6. subs \in [DOMAIN members[c] -> BOOLEAN]
      BY <2>1 DEF SubscribeConvertedDMParties
    <2>7. ups \in [DOMAIN ups -> BOOLEAN]
      BY <1>2, <2>3, <2>4, <2>6 DEF UpsertChannelMember, MemberUpdate
    <2>8. rows \in [DOMAIN rows -> BOOLEAN]
      BY Zenon, <2>5, <2>7 DEF EnsureChannelMember
    <2> HIDE DEF subs, ups, rows, all
    <2>9. DOMAIN rows = DOMAIN members[c] \union all
      BY <2>2, <2>3, <2>4, <2>5
    <2>10. AgentOwnersByIDs(DOMAIN rows) \subseteq DOMAIN rows
      BY <2>1, <2>2, <2>9, OwnersUnion
    <2> QED BY <2>1, <2>2, <2>8, <2>9, <2>10
  <1>10. /\ outbox' \subseteq Events /\ outbox \subseteq outbox'
         /\ \A e \in outbox' \ outbox : e.ch = c /\ e.prior = Nil
    <2>1. outbox \subseteq Events
      BY DEF ChannelsInv, Base, ChannelsTypeOK
    <2>2. c \in ChannelIds /\ Announce(c, Nil, {})
      BY <1>2, <1>4
    <2> HIDE DEF c
    <2> QED BY <2>1, <2>2, AnnouncedPlain
  <1>11. unseeing' \subseteq Accounts \X ChannelIds
    BY <1>2, <1>4, LosingTyped DEF ChannelsInv, Base, ChannelsTypeOK
  <1> HIDE DEF n, c, u, subs, ups, all, rows
  <1>12. DOMAIN members' = ChannelIds
         /\ \A d \in ChannelIds : /\ members'[d] = IF d = c THEN rows ELSE members[d]
                                  /\ channels'[d] = IF d = c THEN n ELSE channels[d]
    BY <1>4, <1>5 DEF ChannelsInv, Base, ChannelsTypeOK
  <1>13. ChannelsTypeOK'
    BY <1>2, <1>4, <1>5, <1>6, <1>9, <1>10, <1>11, <1>12 DEF ChannelsInv, Base, ChannelsTypeOK
  <1>14. GroupsInv' /\ RowsInv' /\ ShapesHold'
    <2>1. GroupsInv'
      BY <1>4, Conjuncts DEF GroupsInv
    <2>2. \A h \in GroupIds : groups[h] # Nil => groups'[h] # Nil
      BY <1>4
    <2>3. n.group # Nil => groups'[n.group] # Nil
      BY Zenon, <1>1, <1>2, <1>4, <1>6, Conjuncts DEF RowsInv
    <2>4. n # Nil /\ ValidateNewChannel(n) /\ (n.tree => rows = NoRows)
      BY <1>7, <1>8
    <2>5. \A d \in ChannelIds : channels'[d] = IF d = c THEN n ELSE channels[d]
      BY <1>12
    <2>6. \A d \in ChannelIds : members'[d] = IF d = c THEN rows ELSE members[d]
      BY <1>12
    <2>7. ChannelsTypeOK /\ RowsInv /\ ShapesHold
      BY Conjuncts
    <2>8. RowsInv' /\ ShapesHold'
      BY <2>2, <2>3, <2>4, <2>5, <2>6, <2>7, RowsWritten
    <2> QED BY <2>1, <2>8
  <1>15. ASSUME NEW y \in Accounts, ChannelVisibleTo(y, c) PROVE ChannelVisibleTo(y, c)'
    <2>1. Seen(y, row, members[c], groups)
      BY <1>1, <1>2, <1>15, VisibleIsSeen DEF ChannelsInv
    <2>2. Seen(y, n, rows, groups)
      BY <2>1, <1>3, <1>6, <1>9 DEF Seen, Channel
    <2> QED BY Zenon, <2>2, <1>2, <1>4, <1>7, <1>12, <1>13, <1>14, VisibleIsSeenNext DEF Base, Live
  <1>16. TellingInv'
    <2>1. Live(c)' /\ (channels'[c].dm => channels[c].dm)
      BY <1>2, <1>6, <1>7, <1>12 DEF Live
    <2>2. \A d \in ChannelIds \ {c} : channels'[d] = channels[d]
      BY <1>12
    <2>3. \A e \in outbox' \ outbox : e.ch = c /\ (e.prior # Nil => ~channels'[c].dm)
      BY <1>10
    <2>4. \A y \in Accounts : ChannelVisibleTo(y, c) /\ ~ChannelVisibleTo(y, c)' =>
              \E e \in outbox' : e.ch = c /\ Tells(e, y)
      BY <1>15
    <2> QED BY Zenon, <1>2, <1>4, <1>10, <2>1, <2>2, <2>3, <2>4, Conjuncts, Lost
  <1>17. CallsInv' /\ OwnersPresent'
    <2>1. CallsInv'
      <3>1. \A k \in calls : k.ch \in ChannelIds /\ Live(k.ch)
        BY CallFields DEF ChannelsInv, Base, ChannelsTypeOK, CallsInv
      <3> QED BY <3>1, <1>7, <1>12 DEF CallsInv, Live
    <2>2. OwnersPresent'
      BY <1>9, <1>12 DEF ChannelsInv, OwnersPresent, AgentOwnersByIDs
    <2> QED BY <2>1, <2>2
  <1> QED BY <1>13, <1>14, <1>16, <1>17 DEF ChannelsInv, Base

LEMMA RemoveStep ==
    ASSUME Setting, ChannelsInv, NEW call \in calls, call.op = "members", calls' = calls \ {call},
           ~channels[call.ch].tree, RemoveMember(call)
    PROVE  ChannelsInv'
  <1> DEFINE c == call.ch
             x == call.update.account
             rest == DeleteChannelMember(members[c], x)
             gone == DOMAIN members[c] \intersect {x}
  <1>1. call \in Calls /\ Live(c)
    BY DEF ChannelsInv, Base, ChannelsTypeOK, CallsInv
  <1>2. c \in ChannelIds /\ x \in Accounts
    BY <1>1, CallFields DEF MemberUpdate
  <1>3. /\ members' = [members EXCEPT ![c] = rest] /\ Announce(c, Nil, gone)
        /\ UNCHANGED <<groups, channels, overrides>> /\ Losing(c)
        /\ ~OwnerHasPresentAgent(c, x)
    BY Zenon DEF RemoveMember
  <1>4. /\ DOMAIN members[c] \subseteq Accounts /\ members[c] \in [DOMAIN members[c] -> BOOLEAN]
        /\ AgentOwnersByIDs(DOMAIN members[c]) \subseteq DOMAIN members[c]
    BY <1>2 DEF ChannelsInv, Base, ChannelsTypeOK, OwnersPresent
  <1>5. DOMAIN rest = DOMAIN members[c] \ {x} /\ rest \in [DOMAIN rest -> BOOLEAN]
    BY <1>4 DEF DeleteChannelMember
  <1>6. AgentOwnersByIDs(DOMAIN rest) \subseteq DOMAIN rest
    BY <1>3, <1>4, <1>5 DEF AgentOwnersByIDs, OwnerHasPresentAgent
  <1>7. gone \in SUBSET Accounts
    BY <1>4
  <1>8. /\ outbox' \subseteq Events /\ outbox \subseteq outbox'
        /\ \A e \in outbox' \ outbox : e.ch = c /\ e.prior = Nil
        /\ \E e \in outbox' : e.ch = c /\ e.removed = gone
    <2>1. outbox \subseteq Events
      BY DEF ChannelsInv, Base, ChannelsTypeOK
    <2>2. c \in ChannelIds /\ Announce(c, Nil, gone)
      BY <1>2, <1>3
    <2> HIDE DEF gone, c
    <2>3. Nil \in Agents \union {Nil}
      OBVIOUS
    <2> QED BY <1>7, <2>1, <2>2, <2>3, Announced
  <1>9. unseeing' \subseteq Accounts \X ChannelIds
    BY <1>2, <1>3, LosingTyped DEF ChannelsInv, Base, ChannelsTypeOK
  <1> HIDE DEF c, x, rest
  <1>10. DOMAIN members' = ChannelIds
         /\ \A d \in ChannelIds : members'[d] = IF d = c THEN rest ELSE members[d]
    BY <1>3 DEF ChannelsInv, Base, ChannelsTypeOK
  <1>11. ChannelsTypeOK'
    BY Zenon, <1>2, <1>3, <1>4, <1>5, <1>8, <1>9, <1>10 DEF ChannelsInv, Base, ChannelsTypeOK
  <1>12. GroupsInv' /\ RowsInv'
    BY Zenon, <1>1, <1>3, <1>10 DEF ChannelsInv, Base, GroupsInv, RowsInv, Live
  <1>13. ASSUME NEW y \in Accounts, ChannelVisibleTo(y, c), ~ChannelVisibleTo(y, c)'
         PROVE  y \in gone
    <2>1. Seen(y, channels[c], members[c], groups)
      BY Zenon, <1>1, <1>2, <1>13, VisibleIsSeen DEF ChannelsInv
    <2>2. ~Seen(y, channels[c], rest, groups)
      BY Zenon, <1>1, <1>2, <1>3, <1>10, <1>11, <1>12, <1>13, VisibleIsSeenNext DEF Base, Live
    <2> QED BY <2>1, <2>2, <1>5 DEF Seen
  <1>14. TellingInv'
    <2>1. \A y \in Accounts : ChannelVisibleTo(y, c) /\ ~ChannelVisibleTo(y, c)' =>
              \E e \in outbox' : e.ch = c /\ Tells(e, y)
      BY <1>8, <1>13 DEF Tells
    <2> QED BY Zenon, <1>1, <1>2, <1>3, <1>8, <2>1, Lost DEF ChannelsInv, Live
  <1>15. CallsInv'
    BY <1>3 DEF ChannelsInv, CallsInv, Live
  <1>16. OwnersPresent'
    BY <1>6, <1>10 DEF ChannelsInv, OwnersPresent, AgentOwnersByIDs
  <1>17. ShapesHold'
    BY Zenon, <1>3, <1>10 DEF ChannelsInv, ShapesHold, Live, ValidateNewChannel, c
  <1> QED BY <1>11, <1>12, <1>14, <1>15, <1>16, <1>17 DEF ChannelsInv, Base

LEMMA ReparentStep ==
    ASSUME Setting, ChannelsInv, NEW call \in calls, ReparentChannel(call)
    PROVE  ChannelsInv'
  <1> DEFINE c == call.ch
             prior == channels[c].parent
             n == UpdateChannelParent(channels[c], call.to)
  <1>1. call \in Calls /\ Live(c) /\ call.op = "reparent"
    BY Zenon DEF ChannelsInv, Base, ChannelsTypeOK, CallsInv, ReparentChannel
  <1>2. c \in ChannelIds /\ call.to \in Agents \union {Nil}
    BY <1>1, CallFields
  <1>3. /\ channels' = [channels EXCEPT ![c] = n] /\ Announce(c, prior, {}) /\ calls' = calls \ {call}
        /\ UNCHANGED <<groups, members, overrides>> /\ Losing(c) /\ Attachable(n)
    BY Zenon DEF ReparentChannel
  <1>4. channels[c] \in Channel /\ ValidateNewChannel(channels[c])
    BY Zenon, <1>1, <1>2 DEF ChannelsInv, Base, ChannelsTypeOK, Live, ShapesHold
  <1>5. n \in Channel
    BY <1>2, <1>4 DEF UpdateChannelParent, Channel
  <1>6. /\ n.group = channels[c].group /\ n.dm = channels[c].dm /\ n.tree = channels[c].tree
        /\ n.ownerOnly = channels[c].ownerOnly /\ n.owner = channels[c].owner
        /\ n.mandatory = channels[c].mandatory
    BY <1>4 DEF UpdateChannelParent, Channel
  <1>7. n # Nil /\ n.group = Nil /\ ~n.dm /\ ValidateNewChannel(n)
    BY Zenon, <1>3, <1>4, <1>5, <1>6 DEF Setting, Attachable, ValidateNewChannel
  <1>8. prior \in Agents \union {Nil}
    BY <1>4 DEF Channel
  <1> HIDE DEF n, c, prior
  <1>9. /\ outbox' \subseteq Events /\ outbox \subseteq outbox'
        /\ \A e \in outbox' \ outbox : e.ch = c
        /\ \E e \in outbox' : e.ch = c /\ e.prior = prior /\ ~e.read
    <2>1. outbox \subseteq Events
      BY DEF ChannelsInv, Base, ChannelsTypeOK
    <2> DEFINE removed == {}
    <2>2. Announce(c, prior, removed) /\ removed \in SUBSET Accounts
      BY <1>3
    <2> HIDE DEF removed
    <2> QED BY <1>2, <1>8, <2>1, <2>2, Announced
  <1>10. unseeing' \subseteq Accounts \X ChannelIds
    BY Zenon, <1>2, <1>3, LosingTyped DEF ChannelsInv, Base, ChannelsTypeOK
  <1>11. \A d \in ChannelIds : channels'[d] = IF d = c THEN n ELSE channels[d]
    BY <1>3 DEF ChannelsInv, Base, ChannelsTypeOK
  <1>12. ChannelsTypeOK'
    BY Zenon, <1>2, <1>3, <1>5, <1>9, <1>10 DEF ChannelsInv, Base, ChannelsTypeOK
  <1>13. GroupsInv' /\ RowsInv' /\ ShapesHold'
    <2>1. GroupsInv'
      BY <1>3, Conjuncts DEF GroupsInv
    <2>2. \A h \in GroupIds : groups[h] # Nil => groups'[h] # Nil
      BY <1>3
    <2>3. n.tree => members[c] = NoRows
      BY Zenon, <1>1, <1>2, <1>6, Conjuncts DEF ShapesHold
    <2>4. \A d \in ChannelIds : members'[d] = IF d = c THEN members[c] ELSE members[d]
      BY <1>3
    <2> QED BY Zenon, <1>7, <1>11, <2>1, <2>2, <2>3, <2>4, Conjuncts, RowsWritten
  <1>14. ASSUME NEW y \in Accounts, ChannelVisibleTo(y, c), ~ChannelVisibleTo(y, c)'
         PROVE  prior # Nil /\ OwnerOf[prior] = ResolveOwner(y)
    <2>1. Seen(y, channels[c], members[c], groups)
      BY <1>1, <1>2, <1>14, VisibleIsSeen DEF ChannelsInv
    <2>2. ~Seen(y, n, members[c], groups)
      BY <1>2, <1>3, <1>7, <1>11, <1>12, <1>13, <1>14, VisibleIsSeenNext DEF Base, Live
    <2> QED BY <2>1, <2>2, <1>6, <1>7 DEF Seen, prior
  <1>15. TellingInv'
    <2>1. \A y \in Accounts : ChannelVisibleTo(y, c) /\ ~ChannelVisibleTo(y, c)' =>
              \E e \in outbox' : e.ch = c /\ Tells(e, y)
      BY <1>9, <1>14 DEF Tells
    <2>2. channels'[c] = n /\ Live(c)' /\ ~channels'[c].dm
      BY <1>2, <1>7, <1>11 DEF Live
    <2>3. \A d \in ChannelIds \ {c} : channels'[d] = channels[d]
      BY <1>11
    <2>4. \A e \in outbox' \ outbox : e.ch = c /\ (e.prior # Nil => ~channels'[c].dm)
      BY <1>9, <2>2
    <2> QED BY Zenon, <1>2, <1>3, <1>9, <2>1, <2>2, <2>3, <2>4, Conjuncts, Lost
  <1>16. CallsInv'
    <2>1. \A k \in calls : k.ch \in ChannelIds /\ Live(k.ch)
      BY CallFields DEF ChannelsInv, Base, ChannelsTypeOK, CallsInv
    <2> QED BY <2>1, <1>3, <1>7, <1>11 DEF CallsInv, Live
  <1>17. OwnersPresent'
    BY <1>3 DEF ChannelsInv, OwnersPresent
  <1> QED BY <1>12, <1>13, <1>15, <1>16, <1>17 DEF ChannelsInv, Base

(* Reading the channel back keeps every promise: who still lacks it is not     *)
(* shown it by the anchor that is read.                                        *)
LEMMA ReadStep ==
    ASSUME Setting, ChannelsInv, NEW e \in outbox, GetChannel(e)
    PROVE  ChannelsInv'
  <1> DEFINE n == [e EXCEPT !.read = TRUE, !.now = channels[e.ch].parent]
  <1>1. e \in Events /\ Live(e.ch)
    BY Zenon DEF ChannelsInv, Base, ChannelsTypeOK, TellingInv
  <1>2. e.ch \in ChannelIds /\ channels[e.ch] \in Channel
    BY <1>1 DEF Events, ChannelsInv, Base, ChannelsTypeOK, Live
  <1>3. /\ outbox' = (outbox \ {e}) \union {n}
        /\ UNCHANGED <<groups, channels, members, overrides, calls, unseeing>>
    BY DEF GetChannel
  <1>4. n \in Events /\ n.ch = e.ch /\ n.prior = e.prior /\ n.removed = e.removed
        /\ n.now = channels[e.ch].parent
    BY Zenon, <1>1, <1>2 DEF Events, Channel
  <1> HIDE DEF n
  <1>5. ChannelsTypeOK'
    BY <1>3, <1>4 DEF ChannelsInv, Base, ChannelsTypeOK
  <1>6. GroupsInv' /\ RowsInv'
    BY <1>3 DEF ChannelsInv, Base, GroupsInv, RowsInv, Live
  <1>7. \A f \in outbox' : Live(f.ch)' /\ (f.prior # Nil => ~channels'[f.ch].dm)
    BY Zenon, <1>3, <1>4 DEF ChannelsInv, TellingInv, Live
  <1>8. \A x \in Accounts, c \in ChannelIds :
           Live(c) => (ChannelVisibleTo(x, c)' <=> ChannelVisibleTo(x, c))
    BY <1>3, <1>5, <1>6, VisibleIsSeen, VisibleIsSeenNext DEF ChannelsInv, Base, Live
  <1>9. ASSUME NEW p \in unseeing
        PROVE  /\ Live(p[2])'
               /\ ~channels'[p[2]].dm => ~ChannelVisibleTo(p[1], p[2])'
               /\ \E f \in outbox' : f.ch = p[2] /\ Tells(f, p[1])
    <2>1. /\ p[1] \in Accounts /\ p[2] \in ChannelIds /\ Live(p[2])
          /\ ~channels[p[2]].dm => ~ChannelVisibleTo(p[1], p[2])
      BY Zenon DEF ChannelsInv, Base, ChannelsTypeOK, TellingInv
    <2>2. PICK f \in outbox : f.ch = p[2] /\ Tells(f, p[1])
      BY DEF ChannelsInv, TellingInv
    <2>3. CASE f # e
      BY <2>1, <2>2, <2>3, <1>3, <1>8 DEF Live
    <2>4. CASE f = e /\ p[1] \in e.removed
      BY Zenon, <2>1, <2>2, <2>4, <1>3, <1>4, <1>8 DEF Live, Tells
    <2>5. CASE f = e /\ p[1] \notin e.removed
      <3>1. e.prior # Nil /\ OwnerOf[e.prior] = ResolveOwner(p[1])
        BY <2>2, <2>5 DEF Tells
      <3>2. ~ChannelVisibleTo(p[1], p[2])
        BY <2>1, <2>2, <2>5, <3>1 DEF ChannelsInv, TellingInv
      <3>3. ~Seen(p[1], channels[p[2]], members[p[2]], groups)
        BY <2>1, <3>2, VisibleIsSeen DEF ChannelsInv
      <3>4. n.now = Nil \/ OwnerOf[n.now] # OwnerOf[n.prior]
        BY <2>2, <2>5, <3>1, <3>3, <1>4 DEF Seen
      <3>5. Tells(n, p[1]) /\ n.ch = p[2]
        BY <2>2, <2>5, <3>1, <3>4, <1>4 DEF Tells
      <3> QED BY Zenon, <2>1, <3>5, <1>3, <1>8 DEF Live
    <2> QED BY <2>3, <2>4, <2>5
  <1>10. TellingInv'
    BY Zenon, <1>3, <1>7, <1>9 DEF TellingInv, Tells
  <1> QED BY Zenon, <1>3, <1>5, <1>6, <1>10
          DEF ChannelsInv, Base, CallsInv, OwnersPresent, ShapesHold, Live

(* Publishing an event tells everyone it was to tell.                          *)
LEMMA PublishStep ==
    ASSUME Setting, ChannelsInv, NEW e \in outbox, PublishChannelChanged(e)
    PROVE  ChannelsInv'
  <1> DEFINE told == (e.removed \union LostAnchorViewers(e)) \X {e.ch}
  <1>1. e.read /\ outbox' = outbox \ {e} /\ unseeing' = unseeing \ told
        /\ UNCHANGED <<groups, channels, members, overrides, calls>>
    BY DEF PublishChannelChanged
  <1>2. ASSUME NEW p \in unseeing', NEW f \in outbox, f.ch = p[2], Tells(f, p[1]) PROVE f # e
    <2> SUFFICES ASSUME f = e PROVE FALSE
      OBVIOUS
    <2>1. /\ p \in unseeing /\ p[1] \in Accounts /\ p[2] \in ChannelIds /\ p = <<p[1], p[2]>>
          /\ ~channels[p[2]].dm => ~ChannelVisibleTo(p[1], p[2])
      <3>1. p \in unseeing /\ unseeing \subseteq Accounts \X ChannelIds
        BY <1>1, Conjuncts DEF ChannelsTypeOK
      <3>2. ~channels[p[2]].dm => ~ChannelVisibleTo(p[1], p[2])
        BY <3>1, Conjuncts DEF TellingInv
      <3> QED BY <3>1, <3>2
    <2>2. p[1] \notin e.removed /\ p[1] \notin LostAnchorViewers(e)
      BY <1>1, <1>2, <2>1
    <2>3. /\ e.prior # Nil /\ OwnerOf[e.prior] = ResolveOwner(p[1])
          /\ e.now = Nil \/ OwnerOf[e.now] # OwnerOf[e.prior]
      BY <1>1, <1>2, <2>2 DEF Tells
    <2>4. LostAnchorViewers(e) = OwnerSetLostChannelVisibility(OwnerOf[e.prior], e.ch)
      BY <2>3 DEF LostAnchorViewers
    <2>5. ~ChannelVisibleTo(p[1], e.ch)
      BY <1>2, <2>1, <2>3 DEF ChannelsInv, TellingInv
    <2> QED BY <2>1, <2>2, <2>3, <2>4, <2>5 DEF OwnerSetLostChannelVisibility
  <1> HIDE DEF told
  <1>3. ChannelsTypeOK'
    BY <1>1 DEF ChannelsInv, Base, ChannelsTypeOK
  <1>4. GroupsInv' /\ RowsInv'
    BY <1>1 DEF ChannelsInv, Base, GroupsInv, RowsInv, Live
  <1>5. \A x \in Accounts, c \in ChannelIds :
           Live(c) => (ChannelVisibleTo(x, c)' <=> ChannelVisibleTo(x, c))
    BY Zenon, <1>1, <1>3, <1>4, VisibleIsSeen, VisibleIsSeenNext DEF ChannelsInv, Base, Live
  <1>6. \A f \in outbox' : Live(f.ch)' /\ (f.prior # Nil => ~channels'[f.ch].dm)
    BY <1>1 DEF ChannelsInv, TellingInv, Live
  <1>7. ASSUME NEW p \in unseeing'
        PROVE  /\ Live(p[2])'
               /\ ~channels'[p[2]].dm => ~ChannelVisibleTo(p[1], p[2])'
               /\ \E f \in outbox' : f.ch = p[2] /\ Tells(f, p[1])
    <2>1. /\ p \in unseeing /\ p[1] \in Accounts /\ p[2] \in ChannelIds /\ Live(p[2])
          /\ ~channels[p[2]].dm => ~ChannelVisibleTo(p[1], p[2])
      BY Zenon, <1>1 DEF ChannelsInv, Base, ChannelsTypeOK, TellingInv
    <2>2. PICK f \in outbox : f.ch = p[2] /\ Tells(f, p[1])
      BY Zenon, <2>1 DEF ChannelsInv, TellingInv
    <2>3. f \in outbox'
      BY Zenon, <1>1, <1>2, <2>2
    <2> QED BY <1>1, <1>5, <2>1, <2>2, <2>3 DEF Live
  <1>8. TellingInv'
    BY <1>6, <1>7 DEF TellingInv, Tells
  <1> QED BY <1>1, <1>3, <1>4, <1>8
          DEF ChannelsInv, Base, CallsInv, OwnersPresent, ShapesHold, Live

(* When a read fails, whoever is still to be told is so by another event.      *)
LEMMA ReadFailsStep ==
    ASSUME Setting, ChannelsInv, NEW e \in outbox, ReadFails(e)
    PROVE  ChannelsInv'
  <1>1. outbox' = outbox \ {e} /\ UNCHANGED <<groups, channels, members, overrides, calls>>
    BY DEF ReadFails
  <1>2. unseeing' = {p \in unseeing : Told(p, {e}) => Told(p, outbox')}
    BY DEF ReadFails
  <1>3. ChannelsTypeOK'
    BY <1>1, <1>2 DEF ChannelsInv, Base, ChannelsTypeOK
  <1>4. GroupsInv' /\ RowsInv'
    BY <1>1 DEF ChannelsInv, Base, GroupsInv, RowsInv, Live
  <1>5. \A x \in Accounts, c \in ChannelIds :
           Live(c) => (ChannelVisibleTo(x, c)' <=> ChannelVisibleTo(x, c))
    BY Zenon, <1>1, <1>3, <1>4, VisibleIsSeen, VisibleIsSeenNext DEF ChannelsInv, Base, Live
  <1>6. \A f \in outbox' : Live(f.ch)' /\ (f.prior # Nil => ~channels'[f.ch].dm)
    BY <1>1 DEF ChannelsInv, TellingInv, Live
  <1>7. ASSUME NEW p \in unseeing'
        PROVE  /\ Live(p[2])'
               /\ ~channels'[p[2]].dm => ~ChannelVisibleTo(p[1], p[2])'
               /\ \E f \in outbox' : f.ch = p[2] /\ Tells(f, p[1])
    <2>1. /\ p \in unseeing /\ p[1] \in Accounts /\ p[2] \in ChannelIds /\ Live(p[2])
          /\ ~channels[p[2]].dm => ~ChannelVisibleTo(p[1], p[2])
      BY Zenon, <1>2 DEF ChannelsInv, Base, ChannelsTypeOK, TellingInv
    <2>2. PICK f \in outbox : f.ch = p[2] /\ Tells(f, p[1])
      BY Zenon, <2>1 DEF ChannelsInv, TellingInv
    <2>3. \E h \in outbox' : h.ch = p[2] /\ Tells(h, p[1])
      <3>1. CASE f = e
        BY Zenon, <1>2, <2>2, <3>1 DEF Told
      <3>2. CASE f # e
        BY Zenon, <1>1, <2>2, <3>2
      <3> QED BY <3>1, <3>2
    <2> QED BY <1>1, <1>5, <2>1, <2>3 DEF Live
  <1>8. TellingInv'
    BY <1>6, <1>7 DEF TellingInv, Tells
  <1> QED BY <1>1, <1>3, <1>4, <1>8
          DEF ChannelsInv, Base, CallsInv, OwnersPresent, ShapesHold, Live

-----------------------------------------------------------------------------
LEMMA NextInv == ASSUME Setting, ChannelsInv, [Next]_chvars PROVE ChannelsInv'
  <1>1. CASE UNCHANGED chvars
    <2>1. calls' \subseteq Calls /\ \A call \in calls' : Live(call.ch)
      BY <1>1 DEF chvars, ChannelsInv, Base, ChannelsTypeOK, CallsInv
    <2> QED BY <1>1, <2>1, CallStep DEF chvars
  <1>2. ASSUME NEW call \in Calls, Gate(call) PROVE ChannelsInv'
    <2>1. calls' \subseteq Calls /\ \A k \in calls' : Live(k.ch)
      BY <1>2 DEF Gate, ChannelParticipant, ChannelsInv, Base, ChannelsTypeOK, CallsInv
    <2> QED BY <1>2, <2>1, CallStep DEF Gate
  <1>3. ASSUME NEW call \in calls, Refused(call) PROVE ChannelsInv'
    <2>1. calls' \subseteq Calls /\ \A k \in calls' : Live(k.ch)
      BY <1>3 DEF Refused, ChannelsInv, Base, ChannelsTypeOK, CallsInv
    <2> QED BY <1>3, <2>1, CallStep DEF Refused
  <1>4. ASSUME NEW call \in calls, UpdateChannelMembers(call) PROVE ChannelsInv'
    BY <1>4, TreeStep, AddStep, RemoveStep DEF UpdateChannelMembers
  <1> QED BY <1>1, <1>2, <1>3, <1>4, CreateGroupStep, CreateStep, OpenDMStep, PolicyStep,
             ReparentStep, ReadStep, PublishStep, ReadFailsStep DEF Next

(* The inductive invariant holds in every reachable state, for every call,     *)
(* gate, row lock and publication of CommsService in any order.                *)
THEOREM ChannelsInvariant == ASSUME Setting PROVE Spec => []ChannelsInv
  <1>1. Init => ChannelsInv
    BY InitInv
  <1>2. ChannelsInv /\ [Next]_chvars => ChannelsInv'
    BY NextInv
  <1> QED BY <1>1, <1>2, PTL DEF Spec

(* Owners stay beside their agents, a channel's kind fits its policy, and the  *)
(* bare shared column GroupCreateAuthorized reads is the effective visibility, *)
(* whichever call commits between another call's gate and its row lock.        *)
THEOREM RowsStayCoherent == ASSUME Setting PROVE Spec => []ChannelsCoherent
  <1>1. ChannelsInv => ChannelsCoherent
    BY Bare DEF ChannelsInv, Base, ChannelsCoherent, BareIsEffective
  <1> QED BY <1>1, ChannelsInvariant, PTL

(* Nobody loses sight of a channel in silence: until they were told, an event  *)
(* that will name them is on its way, though publishChannelChanged looks the   *)
(* losers up only after the commit.  Only a read that fails after the commit   *)
(* of the call they lost the channel by leaves them untold.                    *)
THEOREM LosersAreTold == ASSUME Setting PROVE Spec => []LosersTold
  <1>1. ChannelsInv => LosersTold
    BY DEF ChannelsInv, TellingInv, Told, LosersTold
  <1> QED BY <1>1, ChannelsInvariant, PTL

-----------------------------------------------------------------------------
(* Only a removal takes members away from a channel there is.                  *)
LEMMA OnlyRemoved ==
    ASSUME Setting, ChannelsInv, Next, NEW c \in ChannelIds, Live(c)
    PROVE  \/ DOMAIN members[c] \subseteq DOMAIN members'[c]
           \/ \E call \in calls : call.ch = c /\ RemoveMember(call)
  <1>0. DOMAIN members = ChannelIds /\ \A call \in calls : call.ch \in ChannelIds
    BY CallFields DEF ChannelsInv, Base, ChannelsTypeOK
  <1>1. CASE UNCHANGED members
    BY <1>1
  <1>2. ASSUME NEW x \in Accounts, NEW d \in ChannelIds, NEW row \in Channel,
               NEW requested \in SUBSET Accounts, CreateChannel(x, d, row, requested)
        PROVE  DOMAIN members[c] \subseteq DOMAIN members'[c]
    BY Zenon, <1>0, <1>2 DEF CreateChannel, StoreCreateChannel, WriteExplicitMembers
  <1>3. ASSUME NEW x \in Accounts, NEW y \in Accounts, NEW host \in Users, NEW d \in ChannelIds,
               NEW g \in GroupIds, NEW name \in Names, OpenDM(x, y, host, d, g, name)
        PROVE  DOMAIN members[c] \subseteq DOMAIN members'[c]
    BY <1>0, <1>3 DEF OpenDM, UpsertDMChannelTx, EnsureChannelMember
  <1>4. ASSUME NEW call \in calls, AddOrUpdateMember(call)
        PROVE  DOMAIN members[c] \subseteq DOMAIN members'[c]
    <2> DEFINE subs == IF Converts(call.ch, call.update)
                       THEN SubscribeConvertedDMParties(members[call.ch]) ELSE members[call.ch]
               ups == UpsertChannelMember(subs, call.update.account, call.update.subscribe)
               rows == EnsureChannelMember(ups, ExpandOwnerMembership(call.update.account, {}))
    <2>1. DOMAIN subs = DOMAIN members[call.ch]
      BY DEF SubscribeConvertedDMParties
    <2>2. DOMAIN subs \subseteq DOMAIN ups
      BY DEF UpsertChannelMember
    <2>3. DOMAIN ups \subseteq DOMAIN rows
      BY DEF EnsureChannelMember
    <2>4. members' = [members EXCEPT ![call.ch] = rows]
      BY Zenon, <1>4 DEF AddOrUpdateMember
    <2> HIDE DEF subs, ups, rows
    <2> QED BY <1>0, <2>1, <2>2, <2>3, <2>4
  <1>5. ASSUME NEW call \in calls, RemoveMember(call)
        PROVE  call.ch = c \/ members'[c] = members[c]
    BY Zenon, <1>0, <1>5 DEF RemoveMember
  <1>6. ASSUME NEW call \in calls, UpdateChannelMembers(call)
        PROVE  UNCHANGED members \/ AddOrUpdateMember(call) \/ RemoveMember(call)
    BY <1>6 DEF UpdateChannelMembers, UpdateTreeSubscriptions
  <1>7. ASSUME NEW call \in calls, Refused(call) \/ SetChannelPolicy(call) \/ ReparentChannel(call)
        PROVE  UNCHANGED members
    BY Zenon, <1>7 DEF Refused, SetChannelPolicy, ReparentChannel
  <1> QED BY Zenon, <1>1, <1>2, <1>3, <1>4, <1>5, <1>6, <1>7
          DEF Next, CreateChannelGroup, Gate, GetChannel, PublishChannelChanged, ReadFails

LEMMA PartiesStep ==
    ASSUME Setting, IsFiniteSet(Agents), ChannelsInv, Next
    PROVE  PartiesStay
  <1> SUFFICES ASSUME NEW c \in ChannelIds, Live(c), channels[c].dm,
                      CountAgentMembers(members[c]) >= 2
               PROVE  CountAgentMembers(members'[c]) >= 2
    BY DEF PartiesStay
  <1>1. CASE DOMAIN members[c] \subseteq DOMAIN members'[c]
    <2>1. IsFiniteSet(DOMAIN members'[c] \intersect Agents)
      BY FS_Subset
    <2>2. DOMAIN members[c] \intersect Agents \subseteq DOMAIN members'[c] \intersect Agents
      BY <1>1
    <2>3. /\ Cardinality(DOMAIN members[c] \intersect Agents) \in Nat
          /\ Cardinality(DOMAIN members'[c] \intersect Agents) \in Nat
          /\ Cardinality(DOMAIN members[c] \intersect Agents)
                <= Cardinality(DOMAIN members'[c] \intersect Agents)
      BY Zenon, <2>1, <2>2, FS_Subset, FS_CardinalityType
    <2> QED BY <2>3 DEF CountAgentMembers
  <1>2. ASSUME NEW call \in calls, call.ch = c, RemoveMember(call)
        PROVE  CountAgentMembers(members'[c]) >= 2
    <2>1. DOMAIN members = ChannelIds
      BY Zenon DEF ChannelsInv, Base, ChannelsTypeOK
    <2>2. members'[c] = DeleteChannelMember(members[c], call.update.account)
      BY Zenon, <1>2, <2>1 DEF RemoveMember
    <2> QED BY Zenon, <1>2, <2>2 DEF RemoveMember, RequireDMTwoParties
  <1> QED BY Zenon, <1>1, <1>2, OnlyRemoved

(* No step of any call takes a DM below two agent parties: requireDMTwoParties *)
(* guards the only one that deletes a member row.                              *)
THEOREM PartiesKept == ASSUME Setting, IsFiniteSet(Agents) PROVE Spec => DMKeepsParties
  <1>1. ChannelsInv /\ [Next]_chvars => [PartiesStay]_chvars
    BY PartiesStep
  <1> QED BY <1>1, ChannelsInvariant, PTL DEF Spec, DMKeepsParties

-----------------------------------------------------------------------------
(* The bounded specification TLC explores takes only steps of the general one, *)
(* so what is proved of every behaviour covers each of its behaviours.         *)
THEOREM BoundedIsSpec ==
    ASSUME Setting, Names # {}, Nil \notin Names, Creator \in Users, Party \in Accounts,
           Anchors \subseteq Agents, Invited \subseteq Agents
    PROVE  ChSpec => Spec
  <1> DEFINE first == CHOOSE n \in Names : TRUE
  <1>0. first \in Names /\ Creator \in Accounts
    BY DEF Accounts
  <1> HIDE DEF first
  <1>1. NewRows \subseteq Channel
    <2>1. Row = [name |-> first, group |-> Nil, parent |-> Nil, dm |-> FALSE, tree |-> FALSE,
                 ownerOnly |-> FALSE, owner |-> Nil, mandatory |-> FALSE]
      BY DEF Row, first
    <2>2. Row \in Channel
      BY <1>0, <2>1 DEF Channel
    <2>3. \A g \in GroupIds : [Row EXCEPT !.group = g] \in Channel
      BY <2>2 DEF Channel
    <2>4. \A a \in Anchors, t \in BOOLEAN : [Row EXCEPT !.parent = a, !.tree = t] \in Channel
      BY Zenon, <2>2 DEF Channel
    <2>5. [Row EXCEPT !.ownerOnly = TRUE, !.owner = Creator] \in Channel
      BY Zenon, <1>0, <2>2 DEF Channel
    <2> DEFINE grouped(g) == [Row EXCEPT !.group = g]
               anchored(a, t) == [Row EXCEPT !.parent = a, !.tree = t]
               owned == [Row EXCEPT !.ownerOnly = TRUE, !.owner = Creator]
    <2>6. /\ \A g \in GroupIds : grouped(g) \in Channel
          /\ \A a \in Anchors, t \in BOOLEAN : anchored(a, t) \in Channel
          /\ owned \in Channel
      BY Zenon, <2>3, <2>4, <2>5
    <2>7. NewRows = {grouped(g) : g \in {h \in GroupIds : groups[h] # Nil}}
                    \union {anchored(a, t) : a \in Anchors, t \in BOOLEAN} \union {owned}
      BY DEF NewRows
    <2> HIDE DEF grouped, anchored, owned
    <2> QED BY <2>6, <2>7
  <1>2. ASSUME NEW c \in ChannelIds PROVE NewCalls(c) \subseteq Calls
    <2> DEFINE update(y, k) == [account |-> y, remove |-> k = "remove", subscribe |-> k = "subscribe",
                                unsubscribe |-> k = "unsubscribe"]
    <2>1. NewUpdates \subseteq MemberUpdate
      <3>1. ASSUME NEW y \in Users \union Invited, NEW k PROVE update(y, k) \in MemberUpdate
        <4>1. (k = "remove") \in BOOLEAN /\ (k = "subscribe") \in BOOLEAN /\ (k = "unsubscribe") \in BOOLEAN
          BY Zenon
        <4>2. y \in Accounts
          BY DEF Accounts
        <4> QED BY <4>1, <4>2, Zenon DEF MemberUpdate
      <3>2. NewUpdates = {update(y, k) : y \in Users \union Invited, k \in {"remove", "subscribe", "unsubscribe"}}
        BY DEF NewUpdates
      <3> HIDE DEF update
      <3> QED BY <3>1, <3>2
    <2>2. NewPolicies \subseteq Policy
      <3> SUFFICES ASSUME NEW o \in Users \union {Nil}
                   PROVE  [ownerOnly |-> o # Nil, owner |-> o, mandatory |-> o = Nil] \in Policy
        BY Zenon DEF NewPolicies
      <3>1. (o # Nil) \in BOOLEAN /\ (o = Nil) \in BOOLEAN
        BY Zenon
      <3>2. o \in Accounts \union {Nil}
        BY DEF Accounts
      <3> QED BY <3>1, <3>2, Zenon DEF Policy
    <2>3. ASSUME NEW x \in Users, NEW u \in NewUpdates PROVE MemberCall(c, x, u) \in Calls
      <3>1. x \in Accounts /\ u \in MemberUpdate /\ first \in Names \union {Nil}
        BY <1>0, <2>1 DEF Accounts
      <3> QED BY <3>1 DEF Calls, MemberCall
    <2>4. ASSUME NEW x \in Users, NEW p \in NewPolicies PROVE PolicyCall(c, x, p) \in Calls
      <3>1. x \in Accounts /\ p \in Policy
        BY <2>2 DEF Accounts
      <3> QED BY <3>1 DEF Calls, PolicyCall
    <2>5. ASSUME NEW x \in Users, NEW a \in Anchors \union {Nil} PROVE ReparentCall(c, x, a) \in Calls
      <3>1. x \in Accounts /\ a \in Agents \union {Nil}
        BY DEF Accounts
      <3> QED BY <3>1 DEF Calls, ReparentCall
    <2> QED BY <2>3, <2>4, <2>5 DEF NewCalls
  <1>3. ChNext => Next
    <2>1. DoCreateGroup => Next
      BY <1>0 DEF DoCreateGroup, Write, Next
    <2>2. DoCreate => Next
      <3> SUFFICES ASSUME NEW c \in ChannelIds, NEW row \in NewRows, NEW y \in Invited,
                          CreateChannel(Creator, c, row, {y})
                   PROVE  Next
        BY DEF DoCreate, Write
      <3>1. {y} \in SUBSET Accounts /\ row \in Channel
        BY <1>1 DEF Accounts
      <3> QED BY <1>0, <3>1 DEF Next
    <2>3. DoDM => Next
      <3> SUFFICES ASSUME NEW y \in Invited, NEW c \in ChannelIds, NEW g \in GroupIds,
                          OpenDM(Party, y, Creator, c, g, first)
                   PROVE  Next
        BY DEF DoDM, Write, first
      <3> QED BY <1>0 DEF Next, Accounts
    <2>4. DoGate => Next
      BY Zenon, <1>2 DEF DoGate, Free, Next
    <2>5. DoMembers \/ DoPolicy \/ DoReparent \/ DoRefuse => Next
      BY DEF DoMembers, DoPolicy, DoReparent, DoRefuse, Write, Free, Next
    <2>6. DoRead \/ DoPublish \/ DoFail => Next
      BY DEF DoRead, DoPublish, DoFail, Free, Next
    <2> QED BY <2>1, <2>2, <2>3, <2>4, <2>5, <2>6 DEF ChNext
  <1>4. [ChNext]_<<chvars, load>> => [Next]_chvars
    BY <1>3
  <1>5. ChInit => Init
    BY DEF ChInit
  <1> QED BY <1>4, <1>5, PTL DEF ChSpec, Spec
=============================================================================
