-------------------------- MODULE VolumeSnapshots --------------------------
(***************************************************************************)
(* Snapshots of session volumes (vfs/snapshot_store.go, vfs/checkout.go):  *)
(* a tree is cloned in a staging directory and renamed into the store, an  *)
(* index names the current one of each account and repository, and a       *)
(* session's root is filled from it, under a marker that says whether that *)
(* was finished.                                                           *)
(*                                                                         *)
(*   staging, trees   snapshot |-> Nil or [of, at]: what it holds, and when*)
(*                    it was last touched.  "part" of a clone, a "whole"   *)
(*                    one, or "torn": a whole clone of a root that was not *)
(*                    whole, or a tree whose removal stopped half way      *)
(*   index   key |-> the snapshot that is current, or Nil                  *)
(*   vol     the session's root: "empty", "part" of a tree, a whole tree   *)
(*           ("tree"), a copy of a "torn" one, or the agent's own work     *)
(*           ("work"); the marker; active: handed to an agent              *)
(*   locks   the store's lock and the volume's; staging locks are held     *)
(*           exactly while their snapshot is being taken                   *)
(*   calls   one call per thread                                           *)
(***************************************************************************)
EXTENDS Integers, FiniteSets
CONSTANTS Procs, Ids, Keys, Window, Nil
VARIABLES staging, trees, index, vol, locks, calls, env
vars == <<staging, trees, index, vol, locks, calls, env>>

Idle == [op |-> "idle", at |-> "done", id |-> Nil, key |-> Nil, repo |-> FALSE]
Init == /\ staging = [i \in Ids |-> Nil] /\ trees = [i \in Ids |-> Nil]
        /\ index = [k \in Keys |-> Nil]
        /\ vol = [root |-> "empty", mark |-> FALSE, active |-> FALSE]
        /\ locks = [store |-> Nil, volume |-> Nil]
        /\ calls = [p \in Procs |-> Idle]
        /\ env = [now |-> 0, lost |-> FALSE, torn |-> FALSE, cold |-> FALSE]

Begin(p, r) == calls[p].op = "idle" /\ calls' = [calls EXCEPT ![p] = r]
Go(p, at) == calls' = [calls EXCEPT ![p].at = at]
End(p) == calls' = [calls EXCEPT ![p] = Idle]
Free(l) == locks[l] = Nil
Take(l, p) == locks' = [locks EXCEPT ![l] = p]
Busy(i) == \E p \in Procs : calls[p].op = "snap" /\ calls[p].id = i

(* ---- a snapshot -------------------------------------------------------- *)
Snapshot(p, i) ==
    /\ Free("volume") /\ ~\E q \in Procs : calls[q].id = i
    /\ staging[i] = Nil /\ trees[i] = Nil
    /\ Begin(p, [Idle EXCEPT !.op = "snap", !.at = "clone", !.id = i])
    /\ staging' = [staging EXCEPT ![i] = [of |-> "part", at |-> env.now]]
    /\ Take("volume", p) /\ UNCHANGED <<trees, index, vol, env>>
(* The clone is of whatever the root holds: the restore marker is not read.*)
cloneTree(p) ==
    LET i == calls[p].id IN
    /\ calls[p].op = "snap" /\ calls[p].at = "clone" /\ staging[i] # Nil
    /\ staging' = [staging EXCEPT ![i] = [of |-> IF vol.root \in {"part", "torn"} THEN "torn" ELSE "whole", at |-> env.now]]
    /\ Go(p, "commit") /\ UNCHANGED <<trees, index, vol, locks, env>>
(* The tree appears by one rename, fresh, and the staging lock goes.       *)
snapshotLocked(p) ==
    LET i == calls[p].id IN
    /\ calls[p].op = "snap" /\ calls[p].at = "commit" /\ staging[i] # Nil
    /\ trees' = [trees EXCEPT ![i] = staging[i]] /\ staging' = [staging EXCEPT ![i] = Nil]
    /\ End(p) /\ Take("volume", Nil) /\ UNCHANGED <<index, vol, env>>
SnapshotFails(p) ==
    /\ calls[p].op = "snap"
    /\ staging' = [staging EXCEPT ![calls[p].id] = Nil]
    /\ End(p) /\ Take("volume", Nil) /\ UNCHANGED <<trees, index, vol, env>>

(* ---- the index --------------------------------------------------------- *)
referencedSnapshots(x) == {x[k] : k \in Keys} \ {Nil}
Torn == [of |-> "torn", at |-> env.now]
removeTreeIfUnreferenced(x, old, left) ==
    IF old = Nil \/ old \in referencedSnapshots(x) THEN trees ELSE [trees EXCEPT ![old] = left]
promoteSnapshotLocked_Removes(k, i) ==
    /\ index' = [index EXCEPT ![k] = i]
    /\ trees' = IF index[k] \in {Nil, i} THEN trees ELSE [trees EXCEPT ![index[k]] = Nil]
promoteSnapshotLocked(k, i) ==
    LET x == [index EXCEPT ![k] = i]
    IN  index' = x /\ trees' = IF index[k] = i THEN trees ELSE removeTreeIfUnreferenced(x, index[k], Nil)
(* A snapshot that is not there, swept or superseded, is refused.          *)
PromoteSnapshot(p, k, i) ==
    /\ calls[p].op = "idle" /\ Free("store")
    /\ IF trees[i] = Nil THEN UNCHANGED <<index, trees>> ELSE promoteSnapshotLocked(k, i)
    /\ UNCHANGED <<staging, vol, locks, calls, env>>
(* The new entry is renamed in, then a sync or the removal of the old tree *)
(* fails, or the Runner dies: the old tree stays, or some of its files do. *)
PromoteCut(k, i) ==
    /\ Free("store") /\ trees[i] # Nil /\ index[k] # i
    /\ LET x == [index EXCEPT ![k] = i]
       IN  index' = x /\ trees' \in {trees, removeTreeIfUnreferenced(x, index[k], Torn)}
    /\ UNCHANGED <<staging, vol, locks, calls, env>>
readSnapshotIndex(k) == index[k]
CurrentSnapshot(k) == IF readSnapshotIndex(k) # Nil /\ trees[index[k]] # Nil THEN index[k] ELSE Nil

(* ---- a session's root -------------------------------------------------- *)
(* The session reads the current snapshot, then asks for it; by then it may*)
(* be superseded.  `repo`: the agent can clone by itself.                  *)
Materialize(p, k, repo) ==
    /\ ~vol.active /\ ~\E q \in Procs : calls[q].op = "fill"
    /\ CurrentSnapshot(k) # Nil
    /\ Begin(p, [Idle EXCEPT !.op = "fill", !.at = "lock", !.id = CurrentSnapshot(k), !.key = k, !.repo = repo])
    /\ UNCHANGED <<staging, trees, index, vol, locks, env>>
(* Without a snapshot the root is handed over as it is, to clone into.     *)
MaterializeRepo ==
    /\ ~vol.active /\ ~\E q \in Procs : calls[q].op = "fill"
    /\ vol' = [vol EXCEPT !.active = TRUE] /\ env' = [env EXCEPT !.cold = vol.mark]
    /\ UNCHANGED <<staging, trees, index, locks, calls>>
(* The volume's lock, then the store's.                                    *)
RestoreSnapshot(p) ==
    /\ calls[p].op = "fill" /\ UNCHANGED <<staging, trees, index, vol, env>>
    /\ \/ calls[p].at = "lock" /\ Free("volume") /\ Take("volume", p) /\ Go(p, "store")
       \/ calls[p].at = "store" /\ Free("store") /\ Take("store", p) /\ Go(p, "look")
Unlock == locks' = [locks EXCEPT !.store = Nil, !.volume = Nil]
clearDirectory == "empty"
writeRestoreMarker == TRUE
(* An interrupted restore is cleared; anything else in the root is kept.   *)
restoreSnapshotLocked_Overwrites(p) ==
    /\ calls[p].op = "fill" /\ calls[p].at = "look" /\ trees[calls[p].id] # Nil
    /\ vol' = [vol EXCEPT !.root = clearDirectory, !.mark = writeRestoreMarker]
    /\ env' = [env EXCEPT !.lost = @ \/ (vol.root = "work" /\ ~env.cold)]
    /\ Go(p, "copy") /\ UNCHANGED <<staging, trees, index, locks>>
restoreSnapshotLocked(p) ==
    LET k == calls[p] IN
    /\ k.op = "fill" /\ k.at = "look" /\ trees[k.id] # Nil
    /\ vol.mark \/ vol.root = "empty"
    /\ vol' = [vol EXCEPT !.root = clearDirectory, !.mark = writeRestoreMarker]
    /\ env' = [env EXCEPT !.lost = @ \/ (vol.root = "work" /\ ~env.cold)]
    /\ Go(p, "copy") /\ UNCHANGED <<staging, trees, index, locks>>
CopyBegins(p) ==
    /\ calls[p].op = "fill" /\ calls[p].at = "copy"
    /\ vol' = [vol EXCEPT !.root = "part"]
    /\ Go(p, "whole") /\ UNCHANGED <<staging, trees, index, locks, env>>
Copy(i) == IF trees[i].of = "whole" THEN "tree" ELSE trees[i].of
(* Only a complete and synced copy drops the marker.                       *)
CopyEnds(p) ==
    LET k == calls[p] IN
    /\ k.op = "fill" /\ k.at = "whole"
    /\ trees[k.id] # Nil
    /\ vol' = [root |-> Copy(k.id), mark |-> FALSE, active |-> TRUE]
    /\ env' = [env EXCEPT !.torn = @ \/ Copy(k.id) = "part", !.cold = FALSE]
    /\ End(p) /\ Unlock /\ UNCHANGED <<staging, trees, index>>
(* A failed copy clears the root again and, if it can, the marker; any     *)
(* other failure leaves both, but for the last: the marker's removal was   *)
(* not synced.                                                             *)
CopyFails(p, how) ==
    LET k == calls[p] IN
    /\ k.op = "fill" /\ k.at \in {"look", "copy", "whole"} /\ (k.at = "whole" \/ how = "kept")
    /\ vol' = CASE how = "kept" -> vol
                [] how = "cleared" -> [vol EXCEPT !.root = clearDirectory, !.mark = FALSE]
                [] how = "unsynced" -> [vol EXCEPT !.root = Copy(k.id), !.mark = FALSE]
    /\ End(p) /\ Unlock /\ UNCHANGED <<staging, trees, index, env>>

hasWarmTree == ~vol.mark /\ vol.root # "empty"
(* A root with something in it beats the snapshot; without the snapshot the*)
(* agent starts from what is there, or from nothing if it has a repository.*)
restoreOrCold(p) ==
    LET k == calls[p]  gone == trees[k.id] = Nil IN
    /\ k.op = "fill" /\ k.at = "look"
    /\ gone \/ ~(vol.mark \/ vol.root = "empty")
    /\ IF ~gone \/ hasWarmTree \/ k.repo
       THEN /\ vol' = [vol EXCEPT !.active = TRUE]
            /\ env' = [env EXCEPT !.torn = @ \/ ((~gone \/ hasWarmTree) /\ vol.root = "part"),
                                  !.cold = vol.mark]
       ELSE UNCHANGED <<vol, env>>
    /\ End(p) /\ Unlock /\ UNCHANGED <<staging, trees, index>>
AgentWorks ==
    /\ vol.active /\ vol' = [vol EXCEPT !.root = "work"]
    /\ UNCHANGED <<staging, trees, index, locks, calls, env>>
Release ==
    /\ vol.active /\ vol' = [vol EXCEPT !.active = FALSE]
    /\ UNCHANGED <<staging, trees, index, locks, calls, env>>

(* ---- the sweep --------------------------------------------------------- *)
Old(e) == e # Nil /\ env.now - e.at > Window
sweepStagingEntry == [i \in Ids |-> IF Old(staging[i]) /\ ~Busy(i) THEN Nil ELSE staging[i]]
sweepSnapshotTrees(refs, left) == [i \in Ids |-> IF i \notin refs /\ Old(trees[i]) THEN left ELSE trees[i]]
sweepSnapshots(p) ==
    /\ calls[p].op = "idle" /\ Free("store")
    /\ staging' = sweepStagingEntry
    /\ trees' = sweepSnapshotTrees(referencedSnapshots(index), Nil)
    /\ UNCHANGED <<index, vol, locks, calls, env>>
(* Removals fail half way, or the Runner dies in one.                      *)
SweepCut(p) ==
    /\ calls[p].op = "idle" /\ Free("store")
    /\ trees' = sweepSnapshotTrees(referencedSnapshots(index), Torn) /\ trees' # trees
    /\ UNCHANGED <<staging, index, vol, locks, calls, env>>

Tick == env' = [env EXCEPT !.now = @ + 1] /\ UNCHANGED <<staging, trees, index, vol, locks, calls>>
(* The Runner dies: locks go, directories stay.                            *)
Crash == /\ calls' = [p \in Procs |-> Idle] /\ locks' = [store |-> Nil, volume |-> Nil]
         /\ vol' = [vol EXCEPT !.active = FALSE]
         /\ UNCHANGED <<staging, trees, index, env>>

(* ---- what must hold ---------------------------------------------------- *)
(* The index names trees that are there, and no unfinished clone is ever in*)
(* the store.  A root handed to an agent as filled holds a copy of such a  *)
(* tree or the agent's own work, never part of an interrupted copy taken   *)
(* for either; and no restore clears an agent's work.  The exceptions:     *)
(* work done in a root handed over cold while the marker of an interrupted *)
(* restore was still there (the marker stays, and the next restore clears  *)
(* the root); and a torn tree, which a snapshot of a root that is not whole*)
(* and a removal that stops half way leave in the store, and which         *)
(* promotion and restore take for a whole one.                             *)
SnapshotSound ==
    /\ \A k \in Keys : index[k] # Nil => trees[index[k]] # Nil
    /\ \A i \in Ids : trees[i] # Nil => trees[i].of # "part"
    /\ ~env.lost /\ ~env.torn

-----------------------------------------------------------------------------
(* VolumeSnapshots with bounds on calls, crashes and time.                 *)
CONSTANTS MaxCalls, MaxFaults, MaxTime
VARIABLE load
(* From nothing, or with a snapshot already promoted.                      *)
Promoted == /\ staging = [i \in Ids |-> Nil]
            /\ trees = [i \in Ids |-> IF i = 1 THEN [of |-> "whole", at |-> 0] ELSE Nil]
            /\ index = [k \in Keys |-> IF k = "k" THEN 1 ELSE Nil]
            /\ vol = [root |-> "empty", mark |-> FALSE, active |-> FALSE]
            /\ locks = [store |-> Nil, volume |-> Nil] /\ calls = [p \in Procs |-> Idle]
            /\ env = [now |-> 0, lost |-> FALSE, torn |-> FALSE, cold |-> FALSE]
SnInit == (Init \/ Promoted) /\ load = [calls |-> MaxCalls, faults |-> MaxFaults]
Call(A) == load.calls > 0 /\ A /\ load' = [load EXCEPT !.calls = @ - 1]
Fault(A) == load.faults > 0 /\ A /\ load' = [load EXCEPT !.faults = @ - 1]
Run(A) == A /\ UNCHANGED load
SnNext ==
    \/ Call(\E p \in Procs, i \in Ids : Snapshot(p, i))
    \/ Run(\E p \in Procs : cloneTree(p)) \/ Run(\E p \in Procs : snapshotLocked(p)) \/ Fault(\E p \in Procs : SnapshotFails(p))
    \/ Call(\E p \in Procs, k \in Keys, i \in Ids : PromoteSnapshot(p, k, i)) \/ Fault(\E k \in Keys, i \in Ids : PromoteCut(k, i))
    \/ Call(\E p \in Procs, k \in Keys, r \in BOOLEAN : Materialize(p, k, r)) \/ Call(MaterializeRepo)
    \/ Run(\E p \in Procs : RestoreSnapshot(p)) \/ Run(\E p \in Procs : restoreSnapshotLocked(p))
    \/ Run(\E p \in Procs : CopyBegins(p)) \/ Run(\E p \in Procs : CopyEnds(p))
    \/ Fault(\E p \in Procs, h \in {"kept", "cleared", "unsynced"} : CopyFails(p, h)) \/ Run(\E p \in Procs : restoreOrCold(p))
    \/ Run(vol.root # "work" /\ AgentWorks) \/ Run(Release)
    \/ Call(\E p \in Procs : sweepSnapshots(p)) \/ Fault(\E p \in Procs : SweepCut(p)) \/ Run(env.now < MaxTime /\ Tick) \/ Fault(Crash)
SnSpec == SnInit /\ [][SnNext]_<<vars, load>>
=============================================================================
