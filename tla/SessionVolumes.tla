--------------------------- MODULE SessionVolumes ---------------------------
(***************************************************************************)
(* A session's volume on the Runner's host (vfs/localvolume.go): created,  *)
(* attached, stamped closed or suspended, and reaped once a closed stamp   *)
(* is older than the retention.  Every operation takes the lock file beside*)
(* the volume, which the reaper unlinks when nothing is left.              *)
(*                                                                         *)
(*   fs     the volume's paths: root, the renamed tree (reap), the metadata*)
(*          directory, the stamp in it as read now and as it is on disk    *)
(*          (dur), and the lock file's inode, 0 when there is none         *)
(*   held   inode |-> the call that holds its flock                        *)
(*   calls  what each thread is doing; `at` is its next step               *)
(*   now    the clock                                                      *)
(*   use    what the session is to its owner: live from an attach to its   *)
(*          close, suspended, and since when it is not live                *)
(*   hist   `broken`: a tree was destroyed, or a call answered, that should*)
(*          not have been; `late`: the last change of the stamp was left   *)
(*          without its sync; `undone`: the stamp is one that a power      *)
(*          failure brought back after that                                *)
(***************************************************************************)
EXTENDS Integers, FiniteSets
CONSTANTS Procs, Inodes, Window, Nil
VARIABLES fs, held, calls, now, use, hist
vars == <<fs, held, calls, now, use, hist>>

Idle == [op |-> "idle", at |-> "done", ino |-> 0, intent |-> Nil, kind |-> Nil]
Fresh == [broken |-> FALSE, serving |-> TRUE, late |-> FALSE, undone |-> FALSE]
Init == /\ fs = [root |-> FALSE, reap |-> FALSE, meta |-> FALSE, stamp |-> Nil, dur |-> Nil, lock |-> 0]
        /\ held = [i \in Inodes |-> Nil] /\ calls = [p \in Procs |-> Idle] /\ now = 0
        /\ use = [live |-> FALSE, susp |-> FALSE, since |-> 0]
        /\ hist = Fresh

Same == UNCHANGED <<now, use, hist>>
Go(p, at) == calls' = [calls EXCEPT ![p].at = at]
Begin(p, op, x) ==
    /\ hist.serving /\ calls[p].op = "idle"
    /\ calls' = [calls EXCEPT ![p] = [Idle EXCEPT !.op = op, !.at = "open", !.intent = x]]
Inside(p) == calls[p].at \in {"in", "sync", "meta", "root", "rename", "remove", "reclaim", "unlink"}
Blocking(p) == calls[p].op \in {"create", "attach", "stamp"}
InUse == \E p \in Procs : calls[p].op \in {"attach", "stamp"}

(* ---- the calls --------------------------------------------------------- *)
Lookup == fs.root
CreateVolume(p) == Begin(p, "create", Nil) /\ UNCHANGED <<fs, held, now, use, hist>>
(* A session is attached once at a time, and closed or suspended after.    *)
Attach(p) ==
    /\ Lookup /\ ~use.live /\ ~InUse
    /\ Begin(p, "attach", Nil)
    /\ UNCHANGED <<fs, held, now, use, hist>>
Stamp(p, intent) ==
    /\ Lookup /\ use.live /\ ~InUse
    /\ Begin(p, "stamp", intent)
    /\ use' = [use EXCEPT !.live = FALSE, !.since = now]
    /\ UNCHANGED <<fs, held, now, hist>>
(* One entry of the reaper's scan: a volume, a renamed tree, or metadata   *)
(* and lock files whose volume is gone.                                    *)
scanBaseDir == {k \in {"volume", "reaping", "orphan"} :
    CASE k = "volume" -> fs.root /\ fs.meta
      [] k = "reaping" -> fs.reap
      [] OTHER -> (fs.lock # 0 \/ fs.meta) /\ ~fs.root /\ ~fs.reap}
Expire(p, k) ==
    /\ k \in scanBaseDir /\ hist.serving /\ calls[p].op = "idle"
    /\ calls' = [calls EXCEPT ![p] = [Idle EXCEPT !.op = "expire", !.at = "open", !.kind = k]]
    /\ UNCHANGED <<fs, held, now, use, hist>>

(* ---- the lock ---------------------------------------------------------- *)
openLockFile(p) ==
    /\ calls[p].at = "open"
    /\ IF fs.lock # 0 THEN calls' = [calls EXCEPT ![p].ino = fs.lock, ![p].at = "flock"] /\ UNCHANGED fs
       ELSE \E i \in Inodes :
            /\ \A q \in Procs : calls[q].ino # i
            /\ i = CHOOSE j \in Inodes : \A q \in Procs : calls[q].ino # j
            /\ fs' = [fs EXCEPT !.lock = i]
            /\ calls' = [calls EXCEPT ![p].ino = i, ![p].at = "flock"]
    /\ UNCHANGED held /\ Same
(* Held by another: a session's call waits, the reaper passes on.          *)
lockAttempt(p) ==
    LET k == calls[p] IN
    /\ k.at = "flock" /\ held[k.ino] = Nil
    /\ held' = [held EXCEPT ![k.ino] = p]
    /\ Go(p, "verify") /\ UNCHANGED fs /\ Same
tryLockVolume(p) ==
    LET k == calls[p] IN
    /\ k.at = "flock" /\ held[k.ino] # Nil /\ ~Blocking(p)
    /\ calls' = [calls EXCEPT ![p] = Idle] /\ UNCHANGED <<fs, held>> /\ Same
lockVolume(p) ==
    LET k == calls[p] IN
    /\ k.at = "flock" /\ held[k.ino] # Nil /\ Blocking(p)
    /\ calls' = [calls EXCEPT ![p] = Idle] /\ UNCHANGED <<fs, held>> /\ Same
(* The inode held must be the one the path names now.                      *)
lockAttemptOnFile_Any(p) ==
    /\ calls[p].at = "verify"
    /\ Go(p, "in") /\ UNCHANGED <<fs, held>> /\ Same
lockAttemptOnFile(p) ==
    LET k == calls[p] IN
    /\ k.at = "verify"
    /\ IF fs.lock = k.ino THEN Go(p, "in") /\ UNCHANGED held
       ELSE /\ held' = [held EXCEPT ![k.ino] = Nil]
            /\ calls' = [calls EXCEPT ![p].at = "open", ![p].ino = 0]
    /\ UNCHANGED fs /\ Same
release(p) ==
    LET k == calls[p] IN
    /\ k.at = "release"
    /\ held' = [held EXCEPT ![k.ino] = Nil]
    /\ calls' = [calls EXCEPT ![p] = Idle]
    /\ use' = IF k.kind # "ok" THEN use
              ELSE CASE k.op = "attach" -> [use EXCEPT !.live = TRUE]
                     [] k.op = "stamp" -> [use EXCEPT !.susp = k.intent = "suspended"]
                     [] OTHER -> use
    /\ hist' = [hist EXCEPT !.broken = @ \/ (k.kind = "ok" /\ k.op \in {"create", "attach"} /\ ~(fs.root /\ fs.meta))]
    /\ UNCHANGED <<fs, now>>

(* ---- under the lock ---------------------------------------------------- *)
Done(p, ok) == calls' = [calls EXCEPT ![p].at = "release", ![p].kind = IF ok THEN "ok" ELSE Nil]
requireVolumeRoot == fs.root
(* A stamp is removed, or replaced by rename; the directory's sync makes   *)
(* that last.  A stamp that is absent is taken to be gone: no sync.        *)
clearStamp(p, next) ==
    /\ fs' = [fs EXCEPT !.stamp = Nil]
    /\ IF fs.stamp # Nil THEN Go(p, "sync") ELSE next
writeStamp(intent) == [fs EXCEPT !.stamp = [intent |-> intent, at |-> now], !.meta = TRUE]
syncDir_Never == fs
syncDir == [fs EXCEPT !.dur = fs.stamp]
Synced == hist' = [hist EXCEPT !.late = FALSE, !.undone = FALSE]
Sync(p) ==
    /\ calls[p].at = "sync"
    /\ fs' = syncDir /\ Synced
    /\ IF calls[p].op = "create" THEN Go(p, "meta") ELSE Done(p, TRUE)
    /\ UNCHANGED <<held, now, use>>
(* A file operation fails: the call gives up, what it did before stays.    *)
StepFails(p) ==
    /\ Inside(p) /\ Done(p, FALSE)
    /\ hist' = [hist EXCEPT !.late = @ \/ calls[p].at = "sync"]
    /\ UNCHANGED <<fs, held, now, use>>

(* A new root starts without the stamp of the one before.                  *)
createLocked(p) ==
    /\ calls[p].op = "create" /\ UNCHANGED held /\ Same
    /\ \/ calls[p].at = "in" /\ fs.root /\ UNCHANGED fs /\ Go(p, "meta")
       \/ calls[p].at = "in" /\ ~fs.root /\ clearStamp(p, Go(p, "meta"))
       \/ calls[p].at = "meta" /\ fs' = [fs EXCEPT !.meta = TRUE] /\ Go(p, "root")
       \/ calls[p].at = "root" /\ fs' = [fs EXCEPT !.root = TRUE] /\ Done(p, TRUE)
attachLocked(p) ==
    /\ calls[p].op = "attach" /\ calls[p].at = "in" /\ UNCHANGED <<held, now, hist>>
    /\ IF requireVolumeRoot
       THEN clearStamp(p, Done(p, TRUE)) /\ use' = [use EXCEPT !.susp = FALSE]
       ELSE Done(p, FALSE) /\ UNCHANGED <<fs, use>>
stampLocked(p) ==
    /\ calls[p].op = "stamp" /\ calls[p].at = "in" /\ UNCHANGED held /\ Same
    /\ IF requireVolumeRoot THEN fs' = writeStamp(calls[p].intent) /\ Go(p, "sync")
       ELSE UNCHANGED fs /\ Done(p, FALSE)

eligible(s) == s # Nil /\ s.intent = "closed" /\ now - s.at > Window
(* The rename is the destruction; what follows only cleans up.             *)
Rightly == ~use.live /\ ~use.susp /\ now - use.since > Window
reapLocked(p) ==
    LET k == calls[p] IN
    /\ k.op = "expire" /\ k.kind = "volume" /\ k.at \in {"in", "rename"} /\ UNCHANGED <<held, now, use>>
    /\ \/ /\ k.at = "in" /\ UNCHANGED hist
          /\ IF fs.root /\ eligible(fs.stamp) THEN fs' = [fs EXCEPT !.reap = FALSE] /\ Go(p, "rename")
             ELSE UNCHANGED fs /\ Done(p, FALSE)
       \/ /\ k.at = "rename" /\ Go(p, "remove")
          /\ fs' = [fs EXCEPT !.root = FALSE, !.reap = TRUE]
          /\ hist' = [hist EXCEPT !.broken = @ \/ ~(Rightly \/ hist.undone)]
sweepReaping(p) ==
    /\ calls[p].op = "expire" /\ UNCHANGED held /\ Same
    /\ calls[p].at = "remove" \/ (calls[p].at = "in" /\ calls[p].kind = "reaping")
    /\ fs' = [fs EXCEPT !.reap = FALSE] /\ Go(p, "reclaim")
(* Metadata first, the lock file last, and only if no tree is there.       *)
reclaimLockLocked(p) ==
    LET k == calls[p] IN
    /\ k.op = "expire" /\ UNCHANGED <<held, now, use>>
    /\ \/ /\ k.at = "reclaim" \/ (k.at = "in" /\ k.kind = "orphan")
          /\ IF fs.root \/ fs.reap THEN UNCHANGED <<fs, hist>> /\ Done(p, FALSE)
             ELSE fs' = [fs EXCEPT !.meta = FALSE, !.stamp = Nil, !.dur = Nil] /\ Synced /\ Go(p, "unlink")
       \/ k.at = "unlink" /\ fs' = [fs EXCEPT !.lock = 0] /\ UNCHANGED hist /\ Done(p, FALSE)

(* ---- the Runner starts again ------------------------------------------- *)
(* A volume without a stamp is an orphan, closed as of now; nothing else is*)
(* served before.                                                          *)
stampOrphanLocked(synced) ==
    IF fs.stamp = Nil /\ fs.root /\ fs.meta
    THEN /\ fs' = IF synced THEN [writeStamp("closed") EXCEPT !.dur = [intent |-> "closed", at |-> now]]
                 ELSE writeStamp("closed")
         /\ hist' = [hist EXCEPT !.serving = TRUE, !.late = ~synced, !.undone = @ /\ ~synced]
    ELSE synced /\ UNCHANGED fs /\ hist' = [hist EXCEPT !.serving = TRUE]
ReconcileOrphans(synced) ==
    /\ ~hist.serving
    /\ stampOrphanLocked(synced)
    /\ UNCHANGED <<held, calls, now, use>>
Stopped == /\ hist.serving /\ held' = [i \in Inodes |-> Nil] /\ calls' = [p \in Procs |-> Idle]
           /\ use' = IF use.live THEN [use EXCEPT !.live = FALSE, !.since = now] ELSE use
           /\ UNCHANGED now
Crash == /\ Stopped /\ UNCHANGED fs
         /\ hist' = [hist EXCEPT !.serving = FALSE, !.late = @ \/ \E p \in Procs : calls[p].at = "sync"]
(* The machine fails: a change that was not synced may be undone.          *)
PowerFails ==
    /\ Stopped /\ fs' = [fs EXCEPT !.stamp = fs.dur]
    /\ hist' = [hist EXCEPT !.serving = FALSE, !.late = FALSE, !.undone = @ \/ (hist.late /\ fs.dur # Nil)]
Tick == now' = now + 1 /\ UNCHANGED <<fs, held, calls, use, hist>>

(* ---- what must hold ---------------------------------------------------- *)
(* Lock files come and go, and still two calls are never inside at once;   *)
(* no tree is reaped whose session is attached or suspended, or that was   *)
(* closed, or lost, less than the retention ago; and a volume a call       *)
(* answered with is there, with the metadata that makes it visible to the  *)
(* reaper.  An attach that has removed a suspended session's stamp ends the*)
(* suspension, even if the attach then fails.  The one exception: when the *)
(* sync of a stamp's change failed, or the Runner died before it, a later  *)
(* call that finds no stamp does not sync either, and a power failure may  *)
(* bring the old stamp back and the volume be reaped by it.                *)
VolumeSound ==
    /\ ~hist.broken
    /\ \A p, q \in Procs : Inside(p) /\ Inside(q) => p = q

-----------------------------------------------------------------------------
(* SessionVolumes with bounds on calls, restarts and time.                 *)
CONSTANTS MaxCalls, MaxFaults, MaxTime
VARIABLE load
(* From nothing, or from a volume closed long enough ago to be reaped.     *)
Old == [intent |-> "closed", at |-> 0]
Closed == /\ fs = [root |-> TRUE, reap |-> FALSE, meta |-> TRUE, stamp |-> Old, dur |-> Old, lock |-> 1]
          /\ held = [i \in Inodes |-> Nil] /\ calls = [p \in Procs |-> Idle] /\ now = Window + 1
          /\ use = [live |-> FALSE, susp |-> FALSE, since |-> 0] /\ hist = Fresh
VInit == (Init \/ Closed) /\ load = [calls |-> MaxCalls, faults |-> MaxFaults]
Call(A) == load.calls > 0 /\ A /\ load' = [load EXCEPT !.calls = @ - 1]
Fault(A) == load.faults > 0 /\ A /\ load' = [load EXCEPT !.faults = @ - 1]
Run(A) == A /\ UNCHANGED load
VNext ==
    \/ Call(\E p \in Procs : CreateVolume(p)) \/ Call(\E p \in Procs : Attach(p))
    \/ Call(\E p \in Procs, i \in {"closed", "suspended"} : Stamp(p, i))
    \/ Call(\E p \in Procs, k \in {"volume", "reaping", "orphan"} : Expire(p, k))
    \/ Run(\E p \in Procs : openLockFile(p)) \/ Run(\E p \in Procs : lockAttempt(p))
    \/ Run(\E p \in Procs : tryLockVolume(p)) \/ Fault(\E p \in Procs : lockVolume(p))
    \/ Run(\E p \in Procs : lockAttemptOnFile(p)) \/ Run(\E p \in Procs : release(p))
    \/ Run(\E p \in Procs : createLocked(p)) \/ Run(\E p \in Procs : attachLocked(p))
    \/ Run(\E p \in Procs : stampLocked(p)) \/ Run(\E p \in Procs : Sync(p)) \/ Fault(\E p \in Procs : StepFails(p))
    \/ Run(\E p \in Procs : reapLocked(p)) \/ Run(\E p \in Procs : sweepReaping(p))
    \/ Run(\E p \in Procs : reclaimLockLocked(p)) \/ Run(ReconcileOrphans(TRUE)) \/ Fault(ReconcileOrphans(FALSE))
    \/ Fault(Crash) \/ Fault(PowerFails) \/ Run(now < MaxTime /\ Tick)
VSpec == VInit /\ [][VNext]_<<vars, load>>
=============================================================================
