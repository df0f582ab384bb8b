----------------------------- MODULE GuestImage -----------------------------
(***************************************************************************)
(* The guest image a stack's Runner boots (stack/materialize.go): fetched  *)
(* from a registry by digest into a staging directory, file by file, and   *)
(* published by one rename; a directory that is there is used only if every*)
(* file of it still verifies.                                              *)
(*                                                                         *)
(* A file is what it hashes to: "ok" is what the pinned digest leads to,   *)
(* anything else is not.  The pin names a manifest, or an index whose      *)
(* member for this machine is the manifest (Indexed).                      *)
(*                                                                         *)
(*   final  the directory of the digest: Nil or name |-> content           *)
(*   junk   staging directories whose process died                         *)
(*   calls  the materialisations under way                                 *)
(*   hist   `edited`: somebody changed the published files; `wrong`: a call*)
(*          returned an image that is not the pinned one; `stuck`: a call  *)
(*          that met no fault and no other call failed                     *)
(***************************************************************************)
EXTENDS Integers, Sequences, FiniteSets
CONSTANTS Procs, Indexed, Attempts, Nil
VARIABLES final, junk, calls, hist
vars == <<final, junk, calls, hist>>

guestAssets == <<"kernel", "rootfs", "initrd">>
Assets == {"kernel", "rootfs", "initrd"}
Whole == Assets \cup {"sums", "raw"} \cup (IF Indexed THEN {"selected"} ELSE {})
Good == [f \in Whole |-> "ok"]
Empty == [f \in {} |-> "ok"]
Idle == [at |-> "idle", dir |-> Nil, k |-> 0, tries |-> 0, retried |-> FALSE, hurt |-> FALSE]

Init == /\ final = Nil /\ junk = 0
        /\ calls = [p \in Procs |-> Idle]
        /\ hist = [edited |-> FALSE, wrong |-> FALSE, stuck |-> FALSE]

(* ---- verification ------------------------------------------------------ *)
Has(d, f) == f \in DOMAIN d /\ d[f] = "ok"
hashGuestFile(d, f) == d[f]
(* The member an index names for this machine, kept beside it.             *)
cachedGuestManifest(d) == Indexed => Has(d, "selected")
verifyGuestAgainstManifest(d) == \A f \in Assets : f \in DOMAIN d /\ hashGuestFile(d, f) = "ok"
verifyGuestManifestFile(d) == Has(d, "sums")
cachedGuestTrusted_NoSums(d) == Has(d, "raw") /\ cachedGuestManifest(d) /\ verifyGuestAgainstManifest(d)
cachedGuestTrusted(d) ==
    /\ Has(d, "raw") /\ cachedGuestManifest(d)
    /\ verifyGuestAgainstManifest(d) /\ verifyGuestManifestFile(d)

(* ---- one call ---------------------------------------------------------- *)
Beside(p) == \E q \in Procs \ {p} : calls[q].at # "idle"
Touch(p) == [q \in Procs |-> IF q # p /\ calls[q].at # "idle" THEN [calls[q] EXCEPT !.hurt = TRUE] ELSE calls[q]]
Returns(p, d) ==
    /\ hist' = [hist EXCEPT !.wrong = @ \/ d # Good]
    /\ calls' = [calls EXCEPT ![p] = Idle]
(* Any failure removes this call's own staging directory.                  *)
Fails(p) ==
    /\ hist' = [hist EXCEPT !.stuck = @ \/ ~calls[p].hurt]
    /\ calls' = [calls EXCEPT ![p] = Idle]
    /\ UNCHANGED <<final, junk>>

(* A trusted directory is the answer without a request; any other goes, in *)
(* a step of its own that takes whatever is there by then.                 *)
materializeGuestArtifact(p) ==
    /\ calls[p].at = "idle"
    /\ IF final # Nil /\ cachedGuestTrusted(final)
       THEN Returns(p, final) /\ UNCHANGED <<final, junk>>
       ELSE /\ calls' = [Touch(p) EXCEPT ![p] =
                  [Idle EXCEPT !.at = IF final = Nil THEN "manifest" ELSE "remove", !.hurt = Beside(p)]]
            /\ UNCHANGED <<final, junk, hist>>
RemoveAll(p) ==
    /\ calls[p].at = "remove"
    /\ final' = Nil
    /\ calls' = [calls EXCEPT ![p].at = "manifest"]
    /\ UNCHANGED <<junk, hist>>
(* The removal fails, or its process dies, with some of the files gone.    *)
RemoveFails(p) ==
    /\ calls[p].at = "remove" /\ final # Nil
    /\ \E S \in SUBSET DOMAIN final : final' = [f \in S |-> final[f]]
    /\ calls' = [calls EXCEPT ![p] = Idle]
    /\ UNCHANGED <<junk, hist>>

(* One request and what the registry answers other than the file.  What is *)
(* transient is tried again, up to Attempts in all; a challenge is met once*)
(* per attempt with an anonymous token; the rest is final.                 *)
Asking(p) == calls[p].at \in {"manifest", "member", "blob"}
Same == UNCHANGED <<final, junk, hist>>
doGuestGet(p) ==
    LET k == calls[p] IN
    calls' = [calls EXCEPT ![p] = IF k.tries + 1 = Attempts THEN Idle
                                  ELSE [k EXCEPT !.tries = @ + 1, !.retried = FALSE, !.hurt = TRUE]]
fetchGuestBearerToken(p, answer) ==
    \/ answer = "token" /\ calls' = [calls EXCEPT ![p].retried = TRUE]
    \/ answer = "transient" /\ doGuestGet(p)
    \/ answer = "refused" /\ calls' = [calls EXCEPT ![p] = Idle]
guestGetAttempt(p, answer) ==
    /\ Asking(p) /\ Same
    /\ \/ answer = "transient" /\ doGuestGet(p)
       \/ answer = "refused" /\ calls' = [calls EXCEPT ![p] = Idle]
       \/ /\ answer = "challenge"
          /\ IF calls[p].retried THEN calls' = [calls EXCEPT ![p] = Idle]
             ELSE \E a \in {"token", "transient", "refused"} : fetchGuestBearerToken(p, a)
Advance(p, k) == calls' = [calls EXCEPT ![p] = [k EXCEPT !.tries = 0, !.retried = FALSE]] /\ Same
fetchGuestManifestBytes(got) == got = "ok"
selectGuestMember == Indexed
(* The manifest, through the index if there is one.                        *)
fetchGuestManifest(p, got) ==
    LET k == calls[p] IN
    /\ k.at \in {"manifest", "member"}
    /\ IF ~fetchGuestManifestBytes(got) THEN calls' = [calls EXCEPT ![p] = Idle] /\ Same
       ELSE IF k.at = "manifest" /\ selectGuestMember THEN Advance(p, [k EXCEPT !.at = "member"])
       ELSE Advance(p, [k EXCEPT !.at = "blob", !.k = 1, !.dir = Empty])
(* A file is hashed as it streams and takes its name only if it verifies.  *)
writeGuestBlob(got) == got = "ok"
Put(d, f, v) == [g \in DOMAIN d \cup {f} |-> IF g = f THEN v ELSE d[g]]
fetchGuestBlob(p, got) ==
    LET k == calls[p]  d == Put(k.dir, guestAssets[k.k], got) IN
    /\ k.at = "blob"
    /\ IF ~writeGuestBlob(got) THEN calls' = [calls EXCEPT ![p] = Idle] /\ Same
       ELSE Advance(p, IF k.k < Len(guestAssets) THEN [k EXCEPT !.dir = d, !.k = @ + 1]
                       ELSE [k EXCEPT !.dir = d, !.at = "sums"])
(* The checksum file, the whole read back, then the manifests themselves.  *)
guestManifestFileContent == "ok"
writeGuestManifestFile(p) ==
    LET k == calls[p] IN
    /\ k.at = "sums"
    /\ Advance(p, [k EXCEPT !.dir = Put(@, "sums", guestManifestFileContent), !.at = "verify"])
verifyStaged(p) ==
    LET k == calls[p] IN
    /\ k.at = "verify"
    /\ IF verifyGuestAgainstManifest(k.dir)
       THEN Advance(p, [k EXCEPT !.at = "publish",
                !.dir = IF Indexed THEN Put(Put(@, "raw", "ok"), "selected", "ok") ELSE Put(@, "raw", "ok")])
       ELSE Fails(p)
(* One rename; it fails on a directory that another call has published.    *)
Publish(p) ==
    LET k == calls[p] IN
    /\ k.at = "publish"
    /\ IF final = Nil THEN final' = k.dir /\ Returns(p, k.dir) /\ UNCHANGED junk
       ELSE Fails(p)

(* ---- faults ------------------------------------------------------------ *)
DiskFails(p) == calls[p].at # "idle" /\ calls' = [calls EXCEPT ![p] = Idle] /\ UNCHANGED <<final, junk, hist>>
Crash(p) ==
    /\ calls[p].at # "idle"
    /\ junk' = junk + (IF calls[p].dir = Nil THEN 0 ELSE 1)
    /\ calls' = [calls EXCEPT ![p] = Idle]
    /\ UNCHANGED <<final, hist>>
(* A published or a staged file is damaged or goes missing.                *)
Edit(f) ==
    /\ final # Nil /\ f \in DOMAIN final
    /\ final' \in {Put(final, f, "bad"), [g \in DOMAIN final \ {f} |-> final[g]]}
    /\ hist' = [hist EXCEPT !.edited = TRUE]
    /\ UNCHANGED <<junk, calls>>
Spoil(p, f) ==
    /\ calls[p].dir # Nil /\ f \in DOMAIN calls[p].dir \cap Assets /\ calls[p].at \in {"blob", "sums", "verify"}
    /\ calls' = [calls EXCEPT ![p] = [@ EXCEPT !.dir = Put(@, f, "bad"), !.hurt = TRUE]]
    /\ UNCHANGED <<final, junk, hist>>

(* ---- what must hold ---------------------------------------------------- *)
(* The image a call answers with is the pinned one in every file, checksum *)
(* file included; the directory of the digest is whole from the moment it  *)
(* is there, unless somebody edits it; and nothing an earlier call left    *)
(* behind, dead or failed, makes a later one fail that meets no fault of   *)
(* its own.                                                                *)
ImageSound == ~hist.wrong /\ ~hist.stuck /\ (final = Nil \/ final = Good \/ hist.edited)

-----------------------------------------------------------------------------
(* GuestImage with bounds on calls, challenges and faults.                 *)
CONSTANTS MaxCalls, MaxFaults
VARIABLE load
GInit == Init /\ load = [calls |-> MaxCalls, faults |-> MaxFaults]
Call(A) == load.calls > 0 /\ A /\ load' = [load EXCEPT !.calls = @ - 1]
Fault(A) == load.faults > 0 /\ A /\ load' = [load EXCEPT !.faults = @ - 1]
Run(A) == A /\ UNCHANGED load
GNext ==
    \/ Call(\E p \in Procs : materializeGuestArtifact(p))
    \/ Run(\E p \in Procs : RemoveAll(p)) \/ Fault(\E p \in Procs : RemoveFails(p))
    \/ Run(\E p \in Procs : fetchGuestManifest(p, "ok")) \/ Run(\E p \in Procs : fetchGuestBlob(p, "ok"))
    \/ Fault(\E p \in Procs : fetchGuestBlob(p, "bad"))
    \/ Fault(\E p \in Procs, a \in {"transient", "refused", "challenge"} : guestGetAttempt(p, a))
    \/ Fault(\E p \in Procs : fetchGuestManifest(p, "bad")) \/ Fault(\E p \in Procs : DiskFails(p))
    \/ Run(\E p \in Procs : writeGuestManifestFile(p)) \/ Run(\E p \in Procs : verifyStaged(p))
    \/ Run(\E p \in Procs : Publish(p))
    \/ Fault(\E p \in Procs : Crash(p)) \/ Fault(\E f \in Whole : Edit(f))
    \/ Fault(\E p \in Procs, f \in Assets : Spoil(p, f))
GSpec == GInit /\ [][GNext]_<<vars, load>>
=============================================================================
