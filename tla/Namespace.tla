------------------------------ MODULE Namespace ----------------------------
(* One tenant's accounts: the agent tree, the handles, and the three kinds of  *)
(* channel whose name or members follow from them (home, coordination and DM). *)
(*                                                                             *)
(* Every operation is a Postgres transaction under READ COMMITTED: it takes    *)
(* its advisory locks one after the other, others see its writes when it       *)
(* commits, and it may roll back at any point (an error, a caller gone, or     *)
(* chosen as the victim of a deadlock).  A statement sees what was committed   *)
(* when it ran, plus the transaction's own writes.                             *)
EXTENDS Naturals, FiniteSets

CONSTANTS Users, AgentIds, Handles, Txs, MaxSuffix, Nil

VARIABLES
    agents, \* [AgentIds -> Nil or [owner, parent, home]]; home is the home channel's name
    handle, \* [accounts -> handle or Nil]: account_handles
    coords, \* coordination channels: [manager, base, suffix, members]
    dms,    \* DM channels: [host, name, parties]
    peers,  \* <<user, peer>>: user_peers
    locks,  \* [kind \X owner -> Nil or the transaction holding the advisory lock]
    txs     \* [Txs -> Nil or the open transaction]
nsvars == <<agents, handle, coords, dms, peers, locks, txs>>

Accounts == Users \union AgentIds
ResolveOwner(x) == IF x \in AgentIds THEN agents[x].owner ELSE x
Exists(x) == x \in AgentIds => agents[x] # Nil
Running(t, op, pc) == txs[t] # Nil /\ txs[t].op = op /\ txs[t].pc = pc

(* Advisory locks: taken when free or already held, released at the end.       *)
Acquire(t, kind, u) ==
    /\ locks[kind, u] \in {Nil, t}
    /\ locks' = [locks EXCEPT ![kind, u] = t]
Begin(t, rec) == txs[t] = Nil /\ txs' = [txs EXCEPT ![t] = rec]
Step(t, pc) == txs' = [txs EXCEPT ![t].pc = pc]
End(t) == /\ locks' = [l \in DOMAIN locks |-> IF locks[l] = t THEN Nil ELSE locks[l]]
          /\ txs' = [txs EXCEPT ![t] = Nil]
Rollback(t) == txs[t] # Nil /\ End(t) /\ UNCHANGED <<agents, handle, coords, dms, peers>>

(* account_handles_global_key and account_handles_owner_key: a write of a      *)
(* taken handle fails, and one of a handle written by an open transaction      *)
(* waits for that transaction to end.                                          *)
HandleTaken(x, u, h) ==
    IF x \in Users THEN \E v \in Users \ {x} : handle[v] = h
    ELSE \E a \in AgentIds \ {x} : agents[a] # Nil /\ agents[a].owner = u /\ handle[a] = h
KeyFree(t, x, u, h) ==
    x \in AgentIds => \A s \in Txs \ {t} : txs[s] # Nil /\ txs[s].op = "create" =>
                        ~(txs[s].owner = u /\ txs[s].handle = h)

-----------------------------------------------------------------------------
(* The coordination reconcile, run inside the transaction that wrote the edge; *)
(* tree is what that transaction sees.                                         *)
CoordinationReports(tree, m) == {m} \union {a \in AgentIds : tree[a] # Nil /\ tree[a].parent = m}
CoordinationChannelName(h, suffix) == [base |-> h, suffix |-> suffix]
GetCoordinationChannelByName(rows, u, name) ==
    {c \in rows : agents[c.manager].owner = u /\ CoordinationChannelName(c.base, c.suffix) = name}
UpsertCoordinationChannelTx(rows, m, h) ==
    LET Usable(s) == \A c \in GetCoordinationChannelByName(rows, agents[m].owner, CoordinationChannelName(h, s)) :
                        c.manager = m
    IN CHOOSE s \in 1..MaxSuffix : Usable(s) /\ \A r \in 1..(s - 1) : ~Usable(r)
SetCoordinationMembersTx(rows, m, h, s, want) ==
    {c \in rows : ~(c.manager = m /\ CoordinationChannelName(c.base, c.suffix) = CoordinationChannelName(h, s))}
        \union {[manager |-> m, base |-> h, suffix |-> s, members |-> want]}

(* The handle that names the channel is read again once the owner's            *)
(* coordination lock is held.                                                  *)
ResolveCoordinationManagerTx_BeforeLock(tx, m) == tx.seen[m]
ResolveCoordinationManagerTx(tx, m) == handle[m]
ReconcileCoordinationTx(rows, tree, tx, m) ==
    LET h == ResolveCoordinationManagerTx(tx, m)
    IN IF m = Nil THEN rows
       ELSE SetCoordinationMembersTx(rows, m, h, UpsertCoordinationChannelTx(rows, m, h), CoordinationReports(tree, m))

LockOwnerCoordinationTx(t) ==
    /\ Running(t, "create", "inserted") \/ Running(t, "reparent", "written")
    /\ Acquire(t, "coord", txs[t].owner)
    /\ Step(t, "reconcile")
    /\ UNCHANGED <<agents, handle, coords, dms, peers>>

(* EnsureCoordinationChannel and ReconcileCoordinationMembership.              *)
EnsureCoordinationChannel(t, m) ==
    /\ txs[t] = Nil /\ agents[m] # Nil /\ locks["coord", agents[m].owner] = Nil
    /\ coords' = ReconcileCoordinationTx(coords, agents, [seen |-> handle], m)
    /\ UNCHANGED <<agents, handle, dms, peers, locks, txs>>

-----------------------------------------------------------------------------
(* CreateAgent: the rows and the handle, the coordination hook of the parent,  *)
(* then the home channel.                                                      *)
InsertAgentAccount(t, a, u, h, p) ==
    /\ agents[a] = Nil /\ \A s \in Txs : txs[s] # Nil => txs[s].who # a
    /\ p # Nil => agents[p] # Nil /\ agents[p].owner = u
    /\ KeyFree(t, a, u, h) /\ ~HandleTaken(a, u, h)
    /\ Begin(t, [op |-> "create", pc |-> IF p = Nil THEN "reconcile" ELSE "inserted", who |-> a,
                 owner |-> u, handle |-> h, parent |-> p, seen |-> handle])
    /\ UNCHANGED <<agents, handle, coords, dms, peers, locks>>
CreateAgent(t) ==
    LET x == txs[t]
        tree == [agents EXCEPT ![x.who] = [owner |-> x.owner, parent |-> x.parent, home |-> x.handle]]
    IN
    /\ Running(t, "create", "reconcile")
    /\ agents' = tree
    /\ handle' = [handle EXCEPT ![x.who] = x.handle]
    /\ coords' = IF x.parent = Nil THEN coords ELSE ReconcileCoordinationTx(coords, tree, x, x.parent)
    /\ End(t) /\ UNCHANGED <<dms, peers>>

-----------------------------------------------------------------------------
(* ReparentAgent: the owner's tree lock, the checks and the edge, the hook of  *)
(* the new and of the old parent.                                              *)
AcquireOwnerTreeLock_None(t, u) == UNCHANGED locks
AcquireOwnerTreeLock(t, u) == Acquire(t, "tree", u)

Above(a) ==
    LET up[n \in 0..Cardinality(AgentIds)] ==
            IF n = 0 THEN {a}
            ELSE up[n - 1] \union ({agents[b].parent : b \in up[n - 1]} \ {Nil})
    IN up[Cardinality(AgentIds)]
ValidateNewParent(a, p, u) == p # Nil => agents[p] # Nil /\ agents[p].owner = u /\ a \notin Above(p)

UpdateAgentParent(t, a, p) ==
    /\ agents[a] # Nil
    /\ Begin(t, [op |-> "reparent", pc |-> IF {p, agents[a].parent} = {Nil} THEN "reconcile" ELSE "written",
                 who |-> a, owner |-> agents[a].owner, handle |-> Nil, parent |-> p, seen |-> handle])
    /\ AcquireOwnerTreeLock(t, agents[a].owner)
    /\ ValidateNewParent(a, p, agents[a].owner)
    /\ UNCHANGED <<agents, handle, coords, dms, peers>>
Hooked(rows, tree, tx, m) == IF m = Nil THEN rows ELSE ReconcileCoordinationTx(rows, tree, tx, m)
ReparentAgent(t) ==
    LET x == txs[t]
        old == agents[x.who].parent
        tree == [agents EXCEPT ![x.who].parent = x.parent]
    IN
    /\ Running(t, "reparent", "reconcile")
    /\ agents' = tree
    /\ coords' = Hooked(Hooked(coords, tree, x, x.parent), tree, x, IF old = x.parent THEN Nil ELSE old)
    /\ End(t) /\ UNCHANGED <<handle, dms, peers>>

-----------------------------------------------------------------------------
(* OpenDM: the host owner's DM lock, the name from the handles of that moment  *)
(* (or from the account ids across owners, which needs a peering), the upsert. *)
DMChannelName(h1, h2) == {h1, h2}
OwnersPeeredTx(u, v) == <<u, v>> \in peers /\ <<v, u>> \in peers
DMHost(u, v) == CHOOSE w \in {u, v} : TRUE
DMName(tx) ==
    IF tx.owner = tx.peer THEN DMChannelName(handle[tx.who], handle[tx.with]) ELSE {tx.who, tx.with}
UpsertDMChannelTx(host, name, parties) ==
    LET same == {d \in dms : d.host = host /\ d.name = name}
    IN (dms \ same) \union {[host |-> host, name |-> name, parties |-> parties \union UNION {d.parties : d \in same}]}

BeginOpenDM(t, x, y) ==
    LET u == ResolveOwner(x)
        v == ResolveOwner(y)
    IN
    /\ y \in AgentIds /\ x # y /\ agents[y] # Nil /\ Exists(x)
    /\ u = v \/ OwnersPeeredTx(u, v)
    /\ Begin(t, [op |-> "open", pc |-> "resolved", who |-> x, with |-> y, owner |-> u, peer |-> v, seen |-> handle])
    /\ UNCHANGED <<agents, handle, coords, dms, peers, locks>>
LockOwnerDMTx(t) ==
    /\ Running(t, "open", "resolved")
    /\ Acquire(t, "dm", DMHost(txs[t].owner, txs[t].peer))
    /\ txs[t].owner # txs[t].peer => OwnersPeeredTx(txs[t].owner, txs[t].peer)
    /\ Step(t, "locked")
    /\ UNCHANGED <<agents, handle, coords, dms, peers>>
OpenDM(t) ==
    LET x == txs[t] IN
    /\ Running(t, "open", "locked")
    /\ dms' = UpsertDMChannelTx(DMHost(x.owner, x.peer), DMName(x), {x.who, x.with})
    /\ End(t) /\ UNCHANGED <<agents, handle, coords, peers>>
(* A third member turns a DM into a channel, which no handle names any more.   *)
ConvertDMChannel(d) ==
    /\ d \in dms /\ dms' = dms \ {d}
    /\ UNCHANGED <<agents, handle, coords, peers, locks, txs>>

ApprovePeer(u, v) ==
    /\ u # v /\ peers' = peers \union {<<u, v>>}
    /\ UNCHANGED <<agents, handle, coords, dms, locks, txs>>
(* The delete waits for the row locks OwnersPeeredRowsForShare took.           *)
RowShared_Never(u, v) == FALSE
RowShared(u, v) == \E t \in Txs : Running(t, "open", "locked") /\ {txs[t].owner, txs[t].peer} = {u, v}
RevokePeer(u, v) ==
    /\ <<u, v>> \in peers /\ ~RowShared(u, v)
    /\ peers' = peers \ {<<u, v>>}
    /\ UNCHANGED <<agents, handle, coords, dms, locks, txs>>

-----------------------------------------------------------------------------
(* RenameHandle: the owner's DM lock, then (an agent) its coordination lock;   *)
(* then the handle, the DMs named by it, the home channel and the              *)
(* coordination channels named by it.                                          *)
AccountDMChannelsForRename(x) ==
    {d \in dms : x \in d.parties /\ d.host = ResolveOwner(x) /\ Cardinality(d.parties) = 2
                 /\ d.name = {handle[y] : y \in d.parties}}
CoordinationChannelsForRename(x) == {c \in coords : c.manager = x /\ c.base = handle[x]}
RenameDMChannel(rows, listed, x, h) ==
    {IF d \in listed THEN [d EXCEPT !.name = {h} \union {handle[y] : y \in d.parties \ {x}}] ELSE d : d \in rows}
(* channels_group_name_key: a re-key onto a name the group has fails it all.   *)
GroupNamesUnique(rows) ==
    /\ Cardinality(rows) = Cardinality(dms)
    /\ \A d, e \in rows : d.host = e.host /\ d.name = e.name => d = e
RenameCoordinationChannel(rows, listed, x, h) ==
    {IF c \in listed THEN [c EXCEPT !.base = h, !.suffix = UpsertCoordinationChannelTx(rows \ {c}, x, h)] ELSE c : c \in rows}
RenameAgentHomeChannel(x, h) == [agents EXCEPT ![x].home = IF @ = handle[x] THEN h ELSE @]

BeginRename(t, x, h) ==
    /\ Exists(x)
    /\ Acquire(t, "dm", ResolveOwner(x))
    /\ Begin(t, [op |-> "rename", pc |-> IF x \in Users THEN "update" ELSE "listed", who |-> x,
                 owner |-> ResolveOwner(x), handle |-> h, listed |-> AccountDMChannelsForRename(x)])
    /\ UNCHANGED <<agents, handle, coords, dms, peers>>
RenameLocksCoordination(t) ==
    /\ Running(t, "rename", "listed")
    /\ Acquire(t, "coord", txs[t].owner)
    /\ Step(t, "update")
    /\ UNCHANGED <<agents, handle, coords, dms, peers>>
RenameHandleTx(t) ==
    LET x == txs[t].who
        h == txs[t].handle
    IN
    /\ Running(t, "rename", "update")
    /\ KeyFree(t, x, txs[t].owner, h) /\ ~HandleTaken(x, txs[t].owner, h)
    /\ handle' = [handle EXCEPT ![x] = h]
    /\ GroupNamesUnique(RenameDMChannel(dms, txs[t].listed, x, h))
    /\ dms' = RenameDMChannel(dms, txs[t].listed, x, h)
    /\ agents' = IF x \in AgentIds THEN RenameAgentHomeChannel(x, h) ELSE agents
    /\ coords' = IF x \in AgentIds THEN RenameCoordinationChannel(coords, CoordinationChannelsForRename(x), x, h)
                 ELSE coords
    /\ End(t) /\ UNCHANGED peers

-----------------------------------------------------------------------------
(* The agent tree is a forest, whatever re-parents overlap: no agent is its    *)
(* own ancestor (the cycle check of validateNewParent under the tree lock).    *)
Forest ==
    \A a \in AgentIds : agents[a] # Nil /\ agents[a].parent # Nil => a \notin Above(agents[a].parent)

(* A manager has at most one coordination channel, named by the manager's      *)
(* handle of the moment, and its members are the manager and its reports; an   *)
(* agent with a report has one.                                                *)
CoordinationFollows ==
    /\ \A c, d \in coords : c.manager = d.manager => c = d
    /\ \A c \in coords : /\ c.base = handle[c.manager]
                         /\ c.members = CoordinationReports(agents, c.manager)
    /\ \A a \in AgentIds : agents[a] # Nil /\ agents[a].parent # Nil => \E c \in coords : c.manager = agents[a].parent

(* A DM within one owner is named by its two parties' handles of the moment,   *)
(* so a handle that is freed and taken again never resumes another's history;  *)
(* a home channel is named by its agent's handle.                              *)
NamesFollow ==
    /\ \A d \in dms : (\A x \in d.parties : ResolveOwner(x) = d.host) => d.name = {handle[x] : x \in d.parties}
    /\ \A a \in AgentIds : agents[a] # Nil => agents[a].home = handle[a]

(* A DM is the surface of the two accounts it was opened for.                  *)
DMTwoParties == \A d \in dms : Cardinality(d.parties) = 2

(* A DM across owners opens only while both owners approve each other, the     *)
(* commit included (the FOR SHARE rows hold a revoke off).                     *)
OpensPeered ==
    \A d \in dms' \ dms : \A x, y \in d.parties :
        ResolveOwner(x) # ResolveOwner(y) => OwnersPeeredTx(ResolveOwner(x), ResolveOwner(y))
OnlyPeersOpen == [][OpensPeered]_nsvars

(* The derived structure of an owner's namespace follows the agent tree and    *)
(* the handles: the tree is a forest, each manager's coordination channel has  *)
(* its reports, and every derived name is current.                             *)
NamespaceFollows == Forest /\ CoordinationFollows /\ NamesFollow

-----------------------------------------------------------------------------
(* Bounds for Namespace: MaxOps operations from a tenant that has two owners,  *)
(* a manager with one report, and a DM between the two.                        *)
CONSTANTS Owner, Peer, Manager, Report, Foreign, HandleOf, AgentHandles, MaxOps
VARIABLE load

NsInit ==
    /\ agents = [a \in AgentIds |->
          IF a = Manager THEN [owner |-> Owner, parent |-> Nil, home |-> HandleOf[a]]
          ELSE IF a = Report THEN [owner |-> Owner, parent |-> Manager, home |-> HandleOf[a]]
          ELSE IF a = Foreign THEN [owner |-> Peer, parent |-> Nil, home |-> HandleOf[a]] ELSE Nil]
    /\ handle = HandleOf
    /\ coords = {[manager |-> Manager, base |-> HandleOf[Manager], suffix |-> 1, members |-> {Manager, Report}]}
    /\ dms = {[host |-> Owner, name |-> {HandleOf[Manager], HandleOf[Report]}, parties |-> {Manager, Report}]}
    /\ peers = {<<Owner, Peer>>, <<Peer, Owner>>}
    /\ locks = [l \in {"tree", "coord", "dm"} \X Users |-> Nil]
    /\ txs = [t \in Txs |-> Nil]
    /\ load = 0

Op(A) == load < MaxOps /\ A /\ load' = load + 1
Free(A) == A /\ load' = load
NewHandles(x) == IF x \in Users THEN Handles ELSE AgentHandles
Own(x) == x \in AgentIds /\ (agents[x] # Nil => agents[x].owner = Owner)

DoCreate(t) == Op(\E a \in AgentIds, h \in AgentHandles, p \in {Manager, Report, Nil} : InsertAgentAccount(t, a, Owner, h, p))
DoReparent(t) == Op(\E a \in {x \in AgentIds : Own(x)}, p \in {x \in AgentIds : Own(x)} \union {Nil} : UpdateAgentParent(t, a, p))
DoOpen(t) == Op(\E x \in {Owner} \union {y \in AgentIds : Own(y)}, y \in AgentIds : BeginOpenDM(t, x, y))
DoRename(t) == Op(\E x \in {Owner, Manager, Report} : \E h \in NewHandles(x) \ {handle[x]} : BeginRename(t, x, h))
DoBackfill(t) == Op(\E m \in {Manager, Report} : EnsureCoordinationChannel(t, m))
DoPeers == Op(ApprovePeer(Peer, Owner) \/ RevokePeer(Peer, Owner))
DoConvert == Op(\E d \in dms : ConvertDMChannel(d))
NsNext ==
    \/ DoPeers \/ DoConvert
    \/ \E t \in Txs : DoCreate(t) \/ DoReparent(t) \/ DoOpen(t) \/ DoRename(t) \/ DoBackfill(t)
    \/ \E t \in Txs : Free(LockOwnerCoordinationTx(t)) \/ Free(CreateAgent(t)) \/ Free(ReparentAgent(t))
          \/ Free(LockOwnerDMTx(t)) \/ Free(OpenDM(t)) \/ Free(RenameLocksCoordination(t))
          \/ Free(RenameHandleTx(t)) \/ Free(Rollback(t))
NsSpec == NsInit /\ [][NsNext]_<<nsvars, load>>
=============================================================================
