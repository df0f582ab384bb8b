---------------------------- MODULE GitCredential ----------------------------
(***************************************************************************)
(* The broker of GitHub credentials (server/git_credential.go) and the     *)
(* service that grants and revokes an agent's repositories.  A credential  *)
(* is a token minted for a KEY, the set of repositories of one forge owner *)
(* an agent may use; the broker caches one token per key, remembers which  *)
(* keys it served to which agent, refreshes tokens before they expire, and *)
(* revokes the tokens a narrowed grant no longer covers.                   *)
(*                                                                         *)
(*   b      the broker's maps under its lock: entries, negative, last,     *)
(*          served, pending (revokes), gen; and what GitHub revoked (dead),*)
(*          a rejected refresh forgot, and earlier brokers minted (before) *)
(*   toks   the tokens minted, in order: [key, exp]                        *)
(*   flights   the singleflight of each key: Nil or [gen, by]              *)
(*   calls  the handler of each process; R is the refresh loop             *)
(*   runner   per agent: every token it was given, the last one, whether a *)
(*          secrets signal it has not answered yet reached it              *)
(*   grants   the scope rows of each agent; Base, its owner's, are fixed   *)
(***************************************************************************)
EXTENDS Integers, Sequences, FiniteSets
CONSTANTS Agents, Repos, Base, Procs, R, Life, Lead, MaxAge, MaxRepos, Nil
VARIABLES now, grants, b, toks, flights, calls, runner
vars == <<now, grants, b, toks, flights, calls, runner>>

Keys == SUBSET Repos \ {{}}
Idle == [op |-> "idle", a |-> Nil, at |-> "done", gen |-> 0, key |-> {},
         fell |-> FALSE, res |-> Nil, rev |-> {}, todo |-> {}, news |-> FALSE]
Empty == [tok |-> 0, used |-> 0, old |-> {}]

(* A broker just built: nothing cached, nothing served.                    *)
buildGitCredentialBroker ==
    [entries |-> [k \in Keys |-> Empty], negative |-> {}, last |-> [a \in Agents |-> {}],
     served |-> [a \in Agents |-> {}], pending |-> {}, dead |-> {}, gen |-> 0,
     forgot |-> {}, before |-> 0]

Init == /\ now = 0 /\ toks = <<>>
        /\ grants \in [Agents -> SUBSET Repos]
        /\ b = buildGitCredentialBroker
        /\ flights = [k \in Keys |-> Nil]
        /\ calls = [p \in Procs \cup {R} |-> Idle]
        /\ runner = [a \in Agents |-> [given |-> {}, cur |-> 0, owed |-> FALSE, lost |-> FALSE]]

(* ---- what the rows say ------------------------------------------------- *)
(* An agent's scopes are its own rows and its owner's.                     *)
listForgeScopeRepos(a) == grants[a] \cup Base
ListForgeScopeRepos(a) == listForgeScopeRepos(a)
(* One forge owner: the granted repositories are one key, or none.         *)
gitCredentialScopes(repos) == repos
gitCredentialScopeWithin(inner, outer) == inner \subseteq outer
Live(t) == now < toks[t].exp /\ t \notin b.dead
Fresh(k) == b.entries[k].tok # 0 /\ now < toks[b.entries[k].tok].exp - Lead
Held(a) == {t \in runner[a].given : Live(t)}

(* ---- the maps ---------------------------------------------------------- *)
Touch(m, k) == IF m.entries[k].tok = 0 THEN m ELSE [m EXCEPT !.entries[k].used = now]
Deleted(m, ks) == [m EXCEPT !.entries = [k \in Keys |-> IF k \in ks THEN Empty ELSE @[k]]]
dropLastFor(m, ks) == [m EXCEPT !.last = [a \in Agents |-> IF @[a] \in ks THEN {} ELSE @[a]]]
dropServedFor(m, ks) == [m EXCEPT !.served = [a \in Agents |-> @[a] \ ks]]
hasServedKey(m, k) == \E a \in Agents : k \in m.served[a]
queueRevoke(m, ts) == [m EXCEPT !.pending = @ \cup ts]
(* A token still worth serving: it outlives the minimum stale time.        *)
staleCredential(k) ==
    IF k # {} /\ b.entries[k].tok # 0 /\ toks[b.entries[k].tok].exp - now >= 1
    THEN b.entries[k].tok ELSE 0
credentialForLastKey(a, requested) ==
    IF gitCredentialScopeWithin(b.last[a], requested) THEN staleCredential(b.last[a]) ELSE 0
(* The broker tells every Runner that secrets changed; a lost signal is    *)
(* only logged.                                                            *)
signal(sent) ==
    [a \in Agents |-> IF sent THEN [runner[a] EXCEPT !.owed = TRUE]
                      ELSE [runner[a] EXCEPT !.lost = TRUE]]

(* ---- one credential ---------------------------------------------------- *)
Res(kind, t) == [kind |-> kind, tok |-> t, minted |-> FALSE]
Got(c, r) == [c EXCEPT !.at = "got", !.res = r]

(* credentialForGroup up to the mint: the cache, then the key's flight,    *)
(* whose leader looks at the negative cache and the cache again.           *)
Answerable(c) ==
    CASE Cardinality(c.key) > MaxRepos -> Res("rejected", 0)
      [] c.gen # b.gen -> Res("changed", 0)
      [] c.key \notin b.negative /\ Fresh(c.key) -> Res("tok", b.entries[c.key].tok)
      [] flights[c.key] = Nil /\ c.key \in b.negative -> Res("rejected", 0)
      [] OTHER -> Nil

credentialForGroup(p) ==
    LET c == calls[p]  r == Answerable(c) IN
    /\ c.at = "ask" /\ p # R
    /\ b' = Touch(b, c.key)
    /\ calls' = [calls EXCEPT ![p] = IF r # Nil THEN Got(c, r) ELSE [c EXCEPT !.at = "wait"]]
    /\ flights' = IF r = Nil /\ flights[c.key] = Nil
                  THEN [flights EXCEPT ![c.key] = [gen |-> c.gen, by |-> p]] ELSE flights
    /\ UNCHANGED <<now, grants, toks, runner>>

(* The mint's answer ends the flight and reaches everyone who waits.       *)
Finish(k, r) ==
    /\ flights' = [flights EXCEPT ![k] = Nil]
    /\ calls' = [p \in DOMAIN calls |-> IF calls[p].at = "wait" /\ calls[p].key = k
                                        THEN Got(calls[p], r) ELSE calls[p]]

(* A mint the budget refuses, or one that fails: "err" is transient, "none"*)
(* an empty token, "rejected" repeats for this scope and is cached.  A     *)
(* failure after the grants changed counts as the change.                  *)
mintFails(k) ==
    /\ flights[k] # Nil
    /\ \E kind \in {"err", "rejected", "none"} :
          LET changed == flights[k].gen # b.gen /\ kind # "none" IN
          /\ Finish(k, Res(IF changed THEN "changed" ELSE kind, 0))
          /\ b' = IF kind = "rejected" /\ ~changed THEN [b EXCEPT !.negative = @ \cup {k}] ELSE b
    /\ UNCHANGED <<now, grants, toks, runner>>

(* A token minted for grants that changed meanwhile is revoked at once, or *)
(* its revoke is queued.                                                   *)
revokeLateMint(k, t) ==
    /\ \E done \in BOOLEAN : b' = IF done THEN [b EXCEPT !.dead = @ \cup {t}] ELSE queueRevoke(b, {t})
    /\ Finish(k, Res("changed", 0))
    /\ UNCHANGED runner

Superseded(e) ==
    e.old \cup (IF e.tok # 0 /\ now < toks[e.tok].exp THEN {e.tok} ELSE {})
Stored(k, t) ==
    LET e == b.entries[k] IN
    [b EXCEPT !.negative = @ \ {k},
              !.entries[k] = [tok |-> t, used |-> IF e.tok = 0 THEN now ELSE e.used,
                              old |-> Superseded(e)]]
(* A token: cached under its key beside the ones it replaces; a leader that*)
(* replaced one signals it.                                                *)
mint(k) ==
    LET t == Len(toks) + 1  f == flights[k] IN
    /\ f # Nil
    /\ toks' = Append(toks, [key |-> k, exp |-> now + Life])
    /\ IF f.gen # b.gen THEN revokeLateMint(k, t)
       ELSE /\ b' = Stored(k, t)
            /\ Finish(k, [kind |-> "tok", tok |-> t, minted |-> f.by = R])
            /\ \E sent \in BOOLEAN :
                  runner' = IF f.by # R /\ b.entries[k].tok # 0 THEN signal(sent) ELSE runner
    /\ UNCHANGED <<now, grants>>

(* ---- an agent's credentials -------------------------------------------- *)
recordCredentialIfCurrent_NoEntry(a, k, t, gen) ==
    IF b.gen # gen \/ t = 0 \/ k = {} THEN Nil
    ELSE [b EXCEPT !.last[a] = k, !.served[a] = @ \cup {k}]
(* What is served is remembered, and only while it is what the cache holds *)
(* for grants that did not change since they were read.                    *)
recordCredentialIfCurrent(a, k, t, gen) ==
    IF b.gen # gen \/ t = 0 \/ k = {} \/ b.entries[k].tok # t THEN Nil
    ELSE [b EXCEPT !.last[a] = k, !.served[a] = @ \cup {k}]

(* The generation is read first, then the grants (a failed list serves     *)
(* nothing).                                                               *)
credentials(p) ==
    LET c == calls[p] IN
    /\ c.at = "gen"
    /\ calls' = [calls EXCEPT ![p].gen = b.gen, ![p].at = "list"]
    /\ UNCHANGED <<now, grants, b, toks, flights, runner>>

After(c) == IF c.op = "fetch" THEN "send" ELSE "signal"
ListScopes(p) ==
    LET c == calls[p]  key == gitCredentialScopes(ListForgeScopeRepos(c.a)) IN
    /\ c.at = "list"
    /\ calls' = [calls EXCEPT ![p].key = key, ![p].at = IF key = {} THEN After(c) ELSE "ask"]
    /\ b' = IF key = {} THEN [b EXCEPT !.last[c.a] = {}] ELSE b
    /\ UNCHANGED <<now, grants, toks, flights, runner>>
ListFails(p) ==
    /\ calls[p].at = "list"
    /\ calls' = [calls EXCEPT ![p].at = After(calls[p])]
    /\ UNCHANGED <<now, grants, b, toks, flights, runner>>

(* A rejected scope is asked again as the owner's own, if that differs.    *)
Falls(c) == c.res.kind = "rejected" /\ ~c.fell /\ Base # {} /\ Base # c.key
ownerUserGroups(p) ==
    LET c == calls[p] IN
    /\ c.at = "got" /\ p # R /\ Falls(c)
    /\ calls' = [calls EXCEPT ![p].key = Base, ![p].fell = TRUE, ![p].at = "ask"]
    /\ UNCHANGED <<now, grants, b, toks, flights, runner>>

(* The key and token served: the minted one, or after a failure that may   *)
(* pass a token still good for the key or for the key served last.         *)
Served(c) ==
    CASE c.res.kind = "tok" -> <<c.key, c.res.tok>>
      [] c.res.kind = "err" /\ staleCredential(c.key) # 0 -> <<c.key, staleCredential(c.key)>>
      [] c.res.kind = "err" -> <<b.last[c.a], credentialForLastKey(c.a, c.key)>>
      [] OTHER -> <<{}, 0>>
serveGroups(p) ==
    LET c == calls[p]  s == Served(c)
        m == recordCredentialIfCurrent(c.a, s[1], s[2], c.gen) IN
    /\ c.at = "got" /\ p # R /\ ~Falls(c)
    /\ b' = IF m = Nil THEN b ELSE Touch(m, s[1])
    /\ calls' = [calls EXCEPT ![p].at = After(c), ![p].res = Res("out", IF m = Nil THEN 0 ELSE s[2])]
    /\ UNCHANGED <<now, grants, toks, flights, runner>>

(* A Runner fetches an agent's secrets; its answer carries the credential  *)
(* in place of every GitHub secret the inner resolver gave.                *)
ResolveFor(p, a) ==
    /\ calls[p].at = "done" /\ p # R
    /\ \A q \in Procs : calls[q].op # "fetch" \/ calls[q].a # a
    /\ calls' = [calls EXCEPT ![p] = [Idle EXCEPT !.op = "fetch", !.a = a, !.at = "gen"]]
    /\ runner' = [runner EXCEPT ![a].owed = FALSE, ![a].lost = FALSE]
    /\ UNCHANGED <<now, grants, b, toks, flights>>
Reply(p) ==
    LET c == calls[p]  t == IF c.res = Nil THEN 0 ELSE c.res.tok IN
    /\ c.at = "send"
    /\ runner' = [runner EXCEPT ![c.a].cur = t, ![c.a].given = IF t = 0 THEN @ ELSE @ \cup {t}]
    /\ calls' = [calls EXCEPT ![p] = Idle]
    /\ UNCHANGED <<now, grants, b, toks, flights>>

(* ---- grants change ----------------------------------------------------- *)
Change(p, a, repos) ==
    /\ calls[p].at = "done" /\ p # R /\ repos # grants[a]
    /\ grants' = [grants EXCEPT ![a] = repos]
    /\ calls' = [calls EXCEPT ![p] = [Idle EXCEPT !.op = "change", !.a = a, !.at = "bump"]]
    /\ UNCHANGED <<now, b, toks, flights, runner>>
(* The rows: one per account and repository, added once.                   *)
grantAgentForgeScope(a, r) == grants[a] \cup {r}
revokeAgentForgeScope(a, r) == grants[a] \ {r}
GrantAgentForgeScope(a, r) == grantAgentForgeScope(a, r)
RevokeAgentForgeScope(a, r) == revokeAgentForgeScope(a, r)
(* Only a change that added or removed a row tells the broker.             *)
GrantAgentRepository(p, a, r) == Change(p, a, GrantAgentForgeScope(a, r))
RevokeAgentRepository(p, a, r) == Change(p, a, RevokeAgentForgeScope(a, r))

(* grantsChanged: the generation moves first ...                           *)
grantsChanged(p) ==
    /\ calls[p].at = "bump"
    /\ b' = [b EXCEPT !.gen = @ + 1]
    /\ calls' = [calls EXCEPT ![p].at = "read"]
    /\ UNCHANGED <<now, grants, toks, flights, runner>>
(* ... then the grants are listed (a failed list requests nothing) ...     *)
Requested(p) ==
    LET c == calls[p] IN
    /\ c.at = "read"
    /\ \E ok \in BOOLEAN :
          calls' = [calls EXCEPT ![p].key = IF ok THEN gitCredentialScopes(ListForgeScopeRepos(c.a)) ELSE {},
                                 ![p].at = "drop", ![p].news = ok]
    /\ UNCHANGED <<now, grants, b, toks, flights, runner>>

Gone(m, ks) == dropLastFor(dropServedFor(Deleted(m, ks), ks), ks)
Tokens(k) == b.entries[k].old \cup ({b.entries[k].tok} \ {0})
(* ... every key served to the agent that they no longer cover is dropped, *)
(* for every agent, with the tokens it holds and held ...                  *)
DropServed_KeepsOld(p) ==
    LET c == calls[p]
        ks == {k \in b.served[c.a] : ~gitCredentialScopeWithin(k, c.key)} IN
    /\ c.at = "drop"
    /\ b' = Gone(b, ks)
    /\ calls' = [calls EXCEPT ![p].rev = {b.entries[k].tok : k \in ks} \ {0},
                              ![p].at = IF c.news THEN "gen" ELSE "signal"]
    /\ UNCHANGED <<now, grants, toks, flights, runner>>
DropServed(p) ==
    LET c == calls[p]
        ks == {k \in b.served[c.a] : ~gitCredentialScopeWithin(k, c.key)} IN
    /\ c.at = "drop"
    /\ b' = Gone(b, ks)
    /\ calls' = [calls EXCEPT ![p].rev = UNION {Tokens(k) : k \in ks},
                              ![p].at = IF c.news THEN "gen" ELSE "signal"]
    /\ UNCHANGED <<now, grants, toks, flights, runner>>
(* ... the new scope is minted, the Runners are told, and what was dropped *)
(* is queued for revocation.                                               *)
QueueRevokes(p) ==
    LET c == calls[p] IN
    /\ c.at = "signal" /\ p # R
    /\ \E sent \in BOOLEAN : runner' = signal(sent)
    /\ b' = queueRevoke(b, c.rev)
    /\ calls' = [calls EXCEPT ![p] = Idle]
    /\ UNCHANGED <<now, grants, toks, flights>>

(* ---- the refresh loop -------------------------------------------------- *)
(* Queued revokes are tried (a failed one stays queued); an expired token  *)
(* needs none.                                                             *)
retryPendingRevokes(tried) ==
    [b EXCEPT !.dead = @ \cup tried, !.pending = {t \in @ \ tried : now < toks[t].exp}]
Pruned(m) ==
    LET unserved == {k \in Keys : ~hasServedKey(m, k)}
        unused == {k \in Keys \ unserved : m.entries[k].tok # 0 /\ now - m.entries[k].used > MaxAge} IN
    Gone(Deleted([m EXCEPT !.entries = [k \in Keys |-> [@[k] EXCEPT !.old = {t \in @ : now < toks[t].exp}]]],
                 unserved), unused)
Due(m) == {k \in Keys : m.entries[k].tok # 0 /\ now >= toks[m.entries[k].tok].exp - Lead}
refreshDue ==
    /\ calls[R].at = "done"
    /\ \E tried \in {{}, {t \in b.pending : now < toks[t].exp}} :
          LET m == Pruned(retryPendingRevokes(tried)) IN
          /\ b' = m
          /\ calls' = [calls EXCEPT ![R] = [Idle EXCEPT !.op = "refresh",
                          !.at = "snapshot", !.todo = {<<k, m.entries[k].tok>> : k \in Due(m)}]]
    /\ UNCHANGED <<now, grants, toks, flights, runner>>

(* One key of the snapshot, unless someone refreshed it meanwhile.         *)
refreshCredential(w) ==
    LET c == calls[R]  k == w[1]
        next == [c EXCEPT !.todo = @ \ {w}, !.key = k, !.rev = {w[2]}, !.gen = b.gen] IN
    /\ c.at = "snapshot" /\ w \in c.todo
    /\ IF flights[k] # Nil
       THEN calls' = [calls EXCEPT ![R] = [next EXCEPT !.at = "wait"]] /\ UNCHANGED flights
       ELSE IF k \in b.negative
       THEN calls' = [calls EXCEPT ![R] = Got(next, Res("rejected", 0))] /\ UNCHANGED flights
       ELSE IF b.entries[k].tok # w[2] \/ Fresh(k)
       THEN calls' = [calls EXCEPT ![R].todo = @ \ {w}] /\ UNCHANGED flights
       ELSE /\ calls' = [calls EXCEPT ![R] = [next EXCEPT !.at = "wait"]]
            /\ flights' = [flights EXCEPT ![k] = [gen |-> b.gen, by |-> R]]
    /\ UNCHANGED <<now, grants, b, toks, runner>>
(* A rejected scope loses its entry; a new token, or that, is news.        *)
Refreshed ==
    LET c == calls[R]  k == c.key
        gone == c.res.kind = "rejected" /\ b.entries[k].tok # 0 /\ b.entries[k].tok \in c.rev IN
    /\ c.at = "got"
    /\ b' = IF gone THEN dropLastFor([Deleted(b, {k}) EXCEPT !.forgot = @ \cup Tokens(k)], {k}) ELSE b
    /\ calls' = [calls EXCEPT ![R] = [c EXCEPT !.at = "snapshot", !.rev = {}, !.res = Nil,
                     !.news = @ \/ gone \/ (c.res.kind = "tok" /\ c.res.minted /\ c.res.tok \notin c.rev)]]
    /\ UNCHANGED <<now, grants, toks, flights, runner>>
refreshSnapshot ==
    LET c == calls[R] IN
    /\ c.at = "snapshot" /\ c.todo = {}
    /\ \E sent \in BOOLEAN : runner' = IF c.news THEN signal(sent) ELSE runner
    /\ calls' = [calls EXCEPT ![R] = Idle]
    /\ UNCHANGED <<now, grants, b, toks, flights>>

(* ---- the environment --------------------------------------------------- *)
Tick == now' = now + 1 /\ UNCHANGED <<grants, b, toks, flights, calls, runner>>
(* A negative entry outlives none of the clock's units.                    *)
Forget == /\ b.negative # {} /\ b' = [b EXCEPT !.negative = {}]
          /\ UNCHANGED <<now, grants, toks, flights, calls, runner>>

(* The Server restarts: the broker and every handler start from nothing,   *)
(* while the agents keep the tokens they have.                             *)
Restart ==
    /\ b' = [buildGitCredentialBroker EXCEPT !.dead = b.dead, !.before = Len(toks)]
    /\ flights' = [k \in Keys |-> Nil]
    /\ calls' = [p \in DOMAIN calls |-> Idle]
    /\ UNCHANGED <<now, grants, toks, runner>>

(* ---- what must hold ---------------------------------------------------- *)
Changing(a) == \E p \in Procs : calls[p].op = "change" /\ calls[p].a = a
Earlier == 1 .. b.before
Doomed == b.pending \cup UNION {calls[p].rev : p \in Procs}
(* Once the handler of a grant change returned, every token the agent was  *)
(* given by this broker, still good and for more than its grants, is       *)
(* revoked or will be, whatever mints, refreshes and fetches ran beside the*)
(* change.  A refresh the forge rejects forgets tokens that are about to   *)
(* expire.  A restart forgets every token: nothing revokes one that an     *)
(* earlier broker minted.                                                  *)
NarrowingRevokes ==
    \A a \in Agents : ~Changing(a) =>
        \A t \in Held(a) \ Earlier : \/ gitCredentialScopeWithin(toks[t].key, listForgeScopeRepos(a))
                                     \/ t \in Doomed
                                     \/ t \in b.forgot /\ toks[t].exp - now <= Lead
(* A token of this broker an agent uses that is no longer the one its key  *)
(* has is about to be replaced: a signal is on its way, or whoever replaced*)
(* it still works.                                                         *)
Working == \E p \in Procs \cup {R} : calls[p].op # "idle"
ReplacedTold ==
    \A a \in Agents : LET t == runner[a].cur IN
        t \notin Earlier \cup {0} /\ Live(t) /\ b.entries[toks[t].key].tok # t =>
            runner[a].owed \/ runner[a].lost \/ Working
CredentialSound == NarrowingRevokes /\ ReplacedTold

-----------------------------------------------------------------------------
(* GitCredential with bounds: fetches, changes, refreshes, tokens, time.   *)
CONSTANTS MaxToks, MaxTime
VARIABLE load
(* A broker that served every agent the widest key some time ago.          *)
Warm(t) ==
        /\ now = t /\ toks = <<[key |-> Repos, exp |-> Life]>>
        /\ grants = [a \in Agents |-> Repos]
        /\ b = [buildGitCredentialBroker EXCEPT !.entries[Repos].tok = 1,
                   !.last = [a \in Agents |-> Repos], !.served = [a \in Agents |-> {Repos}]]
        /\ flights = [k \in Keys |-> Nil]
        /\ calls = [p \in Procs \cup {R} |-> Idle]
        /\ runner = [a \in Agents |-> [given |-> {1}, cur |-> 1, owed |-> FALSE, lost |-> FALSE]]
Load(c, n, r, t, f) == [calls |-> c, changes |-> n, refresh |-> r, time |-> t, faults |-> f]
(* Two calls under a change, or a token that ages under a refresh.         *)
GInit == \/ Init /\ load = Load(2, 1, 0, 0, 1)
         \/ Warm(Life - Lead) /\ load = Load(1, 1, 1, 0, 0)
         \/ Warm(0) /\ load = Load(0, 1, 1, MaxTime, 1)
Call(A) == load.calls > 0 /\ A /\ load' = [load EXCEPT !.calls = @ - 1]
Changes(A) == load.changes > 0 /\ A /\ load' = [load EXCEPT !.changes = @ - 1]
Refresh(A) == load.refresh > 0 /\ A /\ load' = [load EXCEPT !.refresh = @ - 1]
Fault(A) == load.faults > 0 /\ A /\ load' = [load EXCEPT !.faults = @ - 1]
Run(A) == A /\ UNCHANGED load
GNext ==
    \/ Call(\E p \in Procs, a \in Agents : ResolveFor(p, a))
    \/ Changes(\E p \in Procs, a \in Agents, r \in Repos : GrantAgentRepository(p, a, r))
    \/ Changes(\E p \in Procs, a \in Agents, r \in Repos : RevokeAgentRepository(p, a, r))
    \/ Run(\E p \in Procs : credentials(p)) \/ Run(\E p \in Procs : ListScopes(p))
    \/ Run(\E p \in Procs : credentialForGroup(p)) \/ Fault(\E k \in Keys : mintFails(k))
    \/ Run(Len(toks) < MaxToks /\ \E k \in Keys : mint(k))
    \/ Run(\E p \in Procs : ownerUserGroups(p)) \/ Run(\E p \in Procs : serveGroups(p))
    \/ Run(\E p \in Procs : Reply(p)) \/ Run(\E p \in Procs : grantsChanged(p))
    \/ Run(\E p \in Procs : Requested(p)) \/ Run(\E p \in Procs : DropServed(p))
    \/ Run(\E p \in Procs : QueueRevokes(p))
    \/ Refresh(refreshDue) \/ Run(\E w \in calls[R].todo : refreshCredential(w))
    \/ Run(Refreshed) \/ Run(refreshSnapshot)
    \/ Run(now < load.time /\ Tick) \/ Run(Forget)
    \/ Fault(\E p \in Procs : ListFails(p)) \/ Fault(Restart)
GSpec == GInit /\ [][GNext]_<<vars, load>>
=============================================================================
