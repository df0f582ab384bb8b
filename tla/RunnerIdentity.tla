--------------------------- MODULE RunnerIdentity ---------------------------
(***************************************************************************)
(* The Server's check of a Runner's workload token against the signing     *)
(* keys of the cluster that issued it.  Each cluster's keys are held in    *)
(* memory, refreshed by a ticker and, for an unknown key, on demand: one   *)
(* refetch at a time and at most one per cooldown.  Keys that could not be *)
(* refreshed for long, and clusters that share a key, are not used.        *)
(*                                                                         *)
(*   now     time, in units of the refresh interval                        *)
(*   issuer  the keys each cluster serves, and whether it answers          *)
(*   held    clusterKeys: keys, failingSince, overlap, lastRefetch         *)
(*   fetch   the two fetchers of a cluster, its ticker and its refetch,    *)
(*           and who of them holds fetchMu                                 *)
(*   calls   Verify calls under way                                        *)
(*   hist    when each cluster last served a key, and the first verdict    *)
(*           that broke what Verify promises (a history variable)          *)
(***************************************************************************)
EXTENDS Integers, FiniteSets

CONSTANTS Clusters, Files,   \* Files: the clusters whose keys are a file's
          Keys, Procs, Cooldown, StaleAfter, Nil

VARIABLES now, issuer, held, fetch, calls, hist

vars == <<now, issuer, held, fetch, calls, hist>>

Fetchers == {"ticker", "refetch"}

(* A cluster with a key file has its keys from the start.                  *)
NewRunnerVerifier(served) ==
    /\ now = 0
    /\ issuer = [c \in Clusters |-> [keys |-> served[c], up |-> TRUE]]
    /\ held = [c \in Clusters |-> [keys |-> IF c \in Files THEN served[c] ELSE Nil,
                                   since |-> Nil, overlap |-> FALSE, last |-> Nil]]
    /\ fetch = [c \in Clusters |-> [at |-> [f \in Fetchers |-> "idle"], got |-> Nil,
                                    leads |-> Nil, due |-> 0]]
    /\ calls = [p \in Procs |-> Nil]
    /\ hist = [served |-> [c \in Clusters |-> [k \in Keys |-> IF k \in served[c] THEN 0 ELSE Nil]],
               bad |-> Nil]

-----------------------------------------------------------------------------
(* Two clusters that hold a key in common are both marked.                 *)
recomputeOverlapLocked(h) ==
    [c \in Clusters |->
        [h[c] EXCEPT !.overlap = /\ h[c].keys # Nil
                                 /\ \E d \in Clusters \ {c} :
                                      h[d].keys # Nil /\ h[c].keys \cap h[d].keys # {}]]

(* Mutation: a fetch that failed does not start the clock of staleness.    *)
applyFetch_NoClock(c, set) ==
    recomputeOverlapLocked(
        IF set # Nil THEN [held EXCEPT ![c].keys = set, ![c].since = Nil] ELSE held)

(* Mutation: only the cluster just fetched is marked.                      *)
applyFetch_OneSide(c, set) ==
    LET h == IF set # Nil THEN [held EXCEPT ![c].keys = set, ![c].since = Nil]
             ELSE [held EXCEPT ![c].since = IF @ = Nil THEN now ELSE @]
    IN [held EXCEPT ![c] = recomputeOverlapLocked(h)[c]]

(* Keys are kept over failures until these have lasted StaleAfter.         *)
applyFetch(c, set) ==
    LET since == IF held[c].since = Nil THEN now ELSE held[c].since
    IN recomputeOverlapLocked(
         IF set # Nil THEN [held EXCEPT ![c].keys = set, ![c].since = Nil]
         ELSE [held EXCEPT ![c].since = since,
                           ![c].keys = IF now - since >= StaleAfter THEN Nil ELSE @])

usableKeysLocked(c) ==
    LET h == held[c] IN
    IF h.keys = Nil \/ h.overlap THEN Nil
    ELSE IF h.since # Nil /\ now - (IF h.since = Nil THEN now ELSE h.since) >= StaleAfter THEN Nil
    ELSE h.keys

(* The verdict on a key id, and whether a fetch may change it.             *)
keysFor(c, kid) ==
    LET set == usableKeysLocked(c) IN
    IF held[c].overlap THEN [verdict |-> "unavailable", fetch |-> FALSE]
    ELSE IF set = Nil THEN [verdict |-> "unavailable", fetch |-> TRUE]
    ELSE IF kid \in set THEN [verdict |-> "found", fetch |-> FALSE]
    ELSE [verdict |-> "unknown", fetch |-> TRUE]

-----------------------------------------------------------------------------
(* A fetch: fetchMu is taken, the issuer answers or not, the keys change.  *)

Set(c, f, at) == [fetch EXCEPT ![c].at[f] = at]

(* The ticker's refresh of an hour.                                        *)
Start(c) ==
    /\ c \notin Files /\ fetch[c].at["ticker"] = "idle" /\ fetch[c].due <= now
    /\ fetch' = [fetch EXCEPT ![c].at["ticker"] = "lock", ![c].due = now + 1]
    /\ UNCHANGED <<now, issuer, held, calls, hist>>

refresh(c, f) ==
    /\ fetch[c].at[f] = "lock"
    /\ \A g \in Fetchers : fetch[c].at[g] \notin {"fetch", "apply"}
    /\ fetch' = Set(c, f, "fetch")
    /\ UNCHANGED <<now, issuer, held, calls, hist>>

(* A request fails as a whole; an answer without a usable key is a failure,*)
(* which a set of keys the issuer serves never is.                         *)
fetchHTTPS(c) == issuer[c].up

parseJWKS(c) == IF issuer[c].keys = {} THEN Nil ELSE issuer[c].keys

fetchJWKS(c, f) ==
    /\ fetch[c].at[f] = "fetch"
    /\ fetch' = [fetch EXCEPT ![c].at[f] = "apply",
                              ![c].got = IF fetchHTTPS(c) THEN parseJWKS(c) ELSE Nil]
    /\ UNCHANGED <<now, issuer, held, calls, hist>>

(* The callers that wait for the refetch look again.                       *)
Woken(c) == [p \in Procs |-> IF calls[p] # Nil /\ calls[p].c = c /\ calls[p].at = "wait"
                             THEN [calls[p] EXCEPT !.at = "again"] ELSE calls[p]]

Apply(c, f) ==
    /\ fetch[c].at[f] = "apply"
    /\ held' = applyFetch(c, fetch[c].got)
    /\ fetch' = [fetch EXCEPT ![c].at[f] = "idle", ![c].got = Nil,
                              ![c].leads = IF f = "refetch" THEN Nil ELSE @]
    /\ calls' = IF f = "refetch" THEN Woken(c) ELSE calls
    /\ UNCHANGED <<now, issuer, hist>>

-----------------------------------------------------------------------------
(* Verify: the keys are looked up, perhaps fetched, and looked up again.   *)

(* What a call may be blamed for: a key accepted that its cluster has not  *)
(* served for longer than keys are kept, or that another cluster's keys    *)
(* hold as well; and a key refused as unknown although its cluster served  *)
(* it all along a refetch this call itself led.                            *)
Blame(p, verdict) ==
    LET v == calls[p] IN
    CASE verdict = "found" ->
           /\ v.c \notin Files
           /\ \/ hist.served[v.c][v.kid] = Nil
              \/ now - hist.served[v.c][v.kid] > StaleAfter + 1
              \/ \E d \in Clusters \ {v.c} : held[d].keys # Nil /\ v.kid \in held[d].keys
      [] verdict = "unknown" -> v.led /\ ~v.missed
      [] OTHER -> FALSE

Decide(p, verdict) ==
    /\ calls' = [calls EXCEPT ![p] = Nil]
    /\ hist' = IF hist.bad = Nil /\ Blame(p, verdict) THEN [hist EXCEPT !.bad = verdict] ELSE hist

(* A token that does not parse, has no registered issuer or no key id is   *)
(* refused before the keys are read, and one whose claims do not fit after *)
(* its key was found: neither changes state.                               *)
Verify(p, c, kid) ==
    /\ calls[p] = Nil
    /\ calls' = [calls EXCEPT ![p] =
          [c |-> c, kid |-> kid, at |-> "look", led |-> FALSE,
           missed |-> kid \notin issuer[c].keys \/ ~issuer[c].up]]
    /\ UNCHANGED <<now, issuer, held, fetch, hist>>

Look(p) ==
    /\ calls[p] # Nil /\ calls[p].at \in {"look", "again"}
    /\ LET v == calls[p]
           k == keysFor(v.c, v.kid)
       IN \/ /\ v.at = "again" \/ ~k.fetch \/ v.c \in Files
             /\ Decide(p, k.verdict)
          \/ /\ v.at = "look" /\ k.fetch /\ v.c \notin Files
             /\ calls' = [calls EXCEPT ![p].at = "join"]
             /\ UNCHANGED hist
    /\ UNCHANGED <<now, issuer, held, fetch>>

Cooling(c) == held[c].last # Nil /\ now - (IF held[c].last = Nil THEN now ELSE held[c].last) < Cooldown

(* refetchKeys joins the flight of its cluster, or leads one; in the       *)
(* cooldown that flight is over at once.                                   *)
refetchKeys(p) ==
    /\ calls[p] # Nil /\ calls[p].at = "join"
    /\ LET c == calls[p].c IN
       \/ /\ fetch[c].leads # Nil
          /\ calls' = [calls EXCEPT ![p].at = "wait"]
          /\ UNCHANGED <<held, fetch>>
       \/ /\ fetch[c].leads = Nil /\ Cooling(c)
          /\ calls' = [calls EXCEPT ![p].at = "again"]
          /\ UNCHANGED <<held, fetch>>
       \/ /\ fetch[c].leads = Nil /\ ~Cooling(c)
          /\ calls' = [calls EXCEPT ![p].at = "wait", ![p].led = TRUE]
          /\ held' = [held EXCEPT ![c].last = now]
          /\ fetch' = [fetch EXCEPT ![c].leads = p, ![c].at["refetch"] = "lock"]
    /\ UNCHANGED <<now, issuer, hist>>

(* The caller goes away; the flight it led runs on.                        *)
Cancel(p) ==
    /\ calls[p] # Nil /\ calls[p].at = "wait"
    /\ calls' = [calls EXCEPT ![p].at = "again", ![p].missed = TRUE]
    /\ UNCHANGED <<now, issuer, held, fetch, hist>>

-----------------------------------------------------------------------------
(* The issuers: keys are rotated, and an issuer may not answer.            *)

Missed(c, keys, up) == [p \in Procs |->
    IF calls[p] # Nil /\ calls[p].c = c
    THEN [calls[p] EXCEPT !.missed = @ \/ calls[p].kid \notin keys \/ ~up] ELSE calls[p]]

Rotate(c, keys) ==
    /\ c \notin Files /\ keys # {} /\ keys # issuer[c].keys
    /\ issuer' = [issuer EXCEPT ![c].keys = keys]
    /\ hist' = [hist EXCEPT !.served[c] = [k \in Keys |->
                   IF k \in keys \union issuer[c].keys THEN now ELSE @[k]]]
    /\ calls' = Missed(c, keys, issuer[c].up)
    /\ UNCHANGED <<now, held, fetch>>

Outage(c) ==
    /\ c \notin Files
    /\ issuer' = [issuer EXCEPT ![c].up = ~@]
    /\ calls' = Missed(c, issuer[c].keys, FALSE)
    /\ UNCHANGED <<now, held, fetch, hist>>

(* A fetch takes less than a unit, and the ticker is on time.              *)
Tick ==
    /\ \A c \in Clusters :
         /\ \A f \in Fetchers : fetch[c].at[f] = "idle"
         /\ c \in Files \/ fetch[c].due > now
    /\ now' = now + 1
    /\ hist' = [hist EXCEPT !.served = [c \in Clusters |-> [k \in Keys |->
                   IF k \in issuer[c].keys THEN now + 1 ELSE @[c][k]]]]
    /\ UNCHANGED <<issuer, held, fetch, calls>>

-----------------------------------------------------------------------------
(* A Runner's token is accepted only by a key its cluster served recently  *)
(* enough and no other cluster holds, a key that is served is found by the *)
(* refetch it caused, and clusters that share a key are both shut.         *)
IdentitySound ==
    /\ hist.bad = Nil
    /\ \A c, d \in Clusters :
         c # d /\ held[c].keys # Nil /\ held[d].keys # Nil
           => (held[c].keys \cap held[d].keys # {} => held[c].overlap /\ held[d].overlap)

-----------------------------------------------------------------------------
(* RunnerIdentity with bounds: calls, changes of the issuers, time.        *)
CONSTANTS MaxChanges, MaxTime, First
VARIABLE load
(* One call within the time it takes keys to go stale, or two at once.     *)
RInit == /\ NewRunnerVerifier(First)
         /\ load \in {[calls |-> 1, changes |-> MaxChanges, time |-> MaxTime],
                      [calls |-> 2, changes |-> 1, time |-> 1]}
Call(A) == load.calls > 0 /\ A /\ load' = [load EXCEPT !.calls = @ - 1]
Change(A) == load.changes > 0 /\ A /\ load' = [load EXCEPT !.changes = @ - 1]
Run(A) == A /\ UNCHANGED load
RNext ==
    \/ Call(\E p \in Procs, c \in Clusters, k \in Keys : Verify(p, c, k))
    \/ Run(\E p \in Procs : Look(p)) \/ Run(\E p \in Procs : refetchKeys(p))
    \/ Change(\E p \in Procs : Cancel(p))
    \/ Run(\E c \in Clusters : Start(c))
    \/ Run(\E c \in Clusters, f \in Fetchers : refresh(c, f))
    \/ Run(\E c \in Clusters, f \in Fetchers : fetchJWKS(c, f))
    \/ Run(\E c \in Clusters, f \in Fetchers : Apply(c, f))
    \/ Change(\E c \in Clusters, ks \in SUBSET Keys : Rotate(c, ks))
    \/ Change(\E c \in Clusters : Outage(c))
    \/ Run(now < load.time /\ Tick)
RSpec == RInit /\ [][RNext]_<<vars, load>>
=============================================================================
