---------------------------- MODULE ForgeClient ----------------------------
(* The GitHub client the Server shares between its goroutines: the owner's     *)
(* installation (forge/installations.go), one client per installation          *)
(* (forge/owner_routed.go), its App token (forge/githubapp.go) and the rate    *)
(* gate around each request (forge/github.go, forge/github_graphql.go).  Time  *)
(* is counted in units of thirty seconds: the floor between two listings of    *)
(* the installations, the time a listing may take, and one unit of TTL (ten    *)
(* minutes), Life (an hour), Lead (five minutes) and Skip (a minute).          *)
EXTENDS Naturals, Sequences, FiniteSets

CONSTANTS Procs, Owners, Home, TTL, Life, Lead, Skip, Nil
(* Home is the owner of the configured installation, number 1.                 *)

VARIABLES
    now,
    insts,      \* installations GitHub ever had: owner, from, gone (0: listed)
    tokens,     \* installation tokens GitHub ever issued: inst, exp, live
    resolver,   \* InstallationResolver: snap, at, attempt, and its flight
    clients,    \* [installation -> its client: token, refresh, flight, gate]
    calls,      \* [Procs -> one operation of a goroutine]
    hold        \* ghost: what each gate was last told, and who had passed it by then
cvars == <<now, insts, tokens, resolver, clients, calls, hold>>

Resources == {"core", "graphql"}
Idle == [pc |-> "idle"]
NewGitHub == [token |-> 0, refresh |-> 0, flight |-> Nil, gate |-> [r \in Resources |-> 0]]
Open == [until |-> 0, fly |-> {}]
FcInit ==
    /\ now = 1 /\ tokens = <<>>
    /\ insts = <<[owner |-> Home, from |-> 0, gone |-> 0]>>
    /\ resolver = [snap |-> Nil, at |-> 0, attempt |-> 0, flight |-> Nil]
    /\ clients = [i \in {1} |-> NewGitHub]
    /\ calls = [p \in Procs |-> Idle]
    /\ hold = [i \in {1} |-> [r \in Resources |-> Open]]

At(p, pc) == calls[p].pc = pc
Goto(p, pc) == calls' = [calls EXCEPT ![p].pc = pc]
End(p) == calls' = [calls EXCEPT ![p] = Idle]
Waiting(pc) == {p \in Procs : At(p, pc)}
My(p) == clients[calls[p].inst]
With(i, c) == [j \in DOMAIN clients \union {i} |-> IF j = i THEN c ELSE clients[j]]

-----------------------------------------------------------------------------
(* GitHub.                                                                     *)

Listed(o) == {i \in DOMAIN insts : insts[i].owner = o /\ insts[i].gone = 0}
Install(o) ==
    /\ Listed(o) = {} /\ insts' = Append(insts, [owner |-> o, from |-> now, gone |-> 0])
    /\ UNCHANGED <<now, tokens, resolver, clients, calls, hold>>
(* An uninstalled App's tokens stop working.                                   *)
Uninstall(o) ==
    /\ \E i \in Listed(o) :
        /\ insts' = [insts EXCEPT ![i].gone = now]
        /\ tokens' = [n \in DOMAIN tokens |-> IF tokens[n].inst = i THEN [tokens[n] EXCEPT !.live = FALSE] ELSE tokens[n]]
    /\ UNCHANGED <<now, resolver, clients, calls, hold>>
Revoke(n) ==
    /\ tokens[n].live /\ tokens' = [tokens EXCEPT ![n].live = FALSE]
    /\ UNCHANGED <<now, insts, resolver, clients, calls, hold>>
(* A goroutine between its look at the snapshot and the flight it joins takes  *)
(* no half minute, and a listing no more than installationRefreshTimeout.      *)
Tick ==
    /\ Waiting("join") = {}
    /\ resolver.flight # Nil => resolver.flight.stage # "new" /\ now = resolver.attempt
    /\ now' = now + 1
    /\ UNCHANGED <<insts, tokens, resolver, clients, calls, hold>>

-----------------------------------------------------------------------------
(* The installation of an owner.                                               *)

snapshotFreshFor_Kept(found) == now < resolver.at + TTL
snapshotFreshFor(found) == now < resolver.at + (IF found THEN TTL ELSE 1)
snapshotFresh(o) == resolver.snap # Nil /\ snapshotFreshFor(resolver.snap[o] # 0)
(* 0: ErrNoInstallation.                                                       *)
installationFor(m, o) == m[o]
installationPage == [o \in Owners |-> IF Listed(o) = {} THEN 0 ELSE CHOOSE i \in Listed(o) : TRUE]

(* Every operation of the provider starts by finding its repository's client.  *)
Start(p, o, r) ==
    /\ At(p, "idle")
    /\ calls' = [calls EXCEPT ![p] = [pc |-> "resolve", owner |-> o, res |-> r, inst |-> 0, tok |-> 0, routed |-> 0,
                                      denied |-> {}, slack |-> 0, early |-> FALSE, answer |-> ""]]
    /\ UNCHANGED <<now, insts, tokens, resolver, clients, hold>>
Read(p, o) == Start(p, o, "core")
Write(p, o) == Start(p, o, "core")
Query(p, o) == Start(p, o, "graphql")

Answered(m, ps) == [p \in Procs |-> IF p \in ps THEN [calls[p] EXCEPT !.pc = "routed", !.inst = installationFor(m, calls[p].owner), !.routed = now] ELSE calls[p]]
Failed(ps) == [p \in Procs |-> IF p \in ps THEN Idle ELSE calls[p]]

InstallationFor(p) ==
    /\ At(p, "resolve")
    /\ calls' = IF snapshotFresh(calls[p].owner) THEN Answered(resolver.snap, {p}) ELSE [calls EXCEPT ![p].pc = "join"]
    /\ UNCHANGED <<now, insts, tokens, resolver, clients, hold>>
(* One flight lists the installations, for everyone who joins it.              *)
freshInstallations(p) ==
    /\ At(p, "join") /\ Goto(p, "listing")
    /\ resolver' = IF resolver.flight # Nil THEN resolver ELSE [resolver EXCEPT !.flight = [key |-> calls[p].owner, stage |-> "new", found |-> Nil]]
    /\ UNCHANGED <<now, insts, tokens, clients, hold>>
(* The flight looks again, with its leader's key, and keeps the floor.         *)
Relook ==
    /\ resolver.flight # Nil /\ resolver.flight.stage = "new"
    /\ IF snapshotFresh(resolver.flight.key)
         THEN calls' = Answered(resolver.snap, Waiting("listing")) /\ resolver' = [resolver EXCEPT !.flight = Nil]
         ELSE IF resolver.attempt # 0 /\ now < resolver.attempt + 1
                THEN calls' = Failed(Waiting("listing")) /\ resolver' = [resolver EXCEPT !.flight = Nil]
                ELSE resolver' = [resolver EXCEPT !.attempt = now, !.flight.stage = "asked"] /\ calls' = calls
    /\ UNCHANGED <<now, insts, tokens, clients, hold>>
listInstallations ==
    /\ resolver.flight # Nil /\ resolver.flight.stage = "asked"
    /\ resolver' = [resolver EXCEPT !.flight.stage = "read", !.flight.found = installationPage]
    /\ UNCHANGED <<now, insts, tokens, clients, calls, hold>>
TakeSnapshot ==
    /\ resolver.flight # Nil /\ resolver.flight.stage = "read"
    /\ resolver' = [resolver EXCEPT !.snap = resolver.flight.found, !.at = now, !.flight = Nil]
    /\ calls' = Answered(resolver.flight.found, Waiting("listing"))
    /\ UNCHANGED <<now, insts, tokens, clients, hold>>
(* The listing failed or timed out; the snapshot stays as it was.              *)
ListFails ==
    /\ resolver.flight # Nil /\ resolver.flight.stage \in {"asked", "read"}
    /\ resolver' = [resolver EXCEPT !.flight = Nil] /\ calls' = Failed(Waiting("listing"))
    /\ UNCHANGED <<now, insts, tokens, clients, hold>>
(* A caller whose context ends leaves; the flight goes on without it, and      *)
(* before the request nothing was sent.                                        *)
GiveUp(p) ==
    /\ At(p, "listing") \/ At(p, "gate")
    /\ End(p)
    /\ UNCHANGED <<now, insts, tokens, resolver, clients, hold>>

(* Each installation has one client, made when it is first routed to.          *)
clientFor(p) ==
    /\ At(p, "routed")
    /\ LET i == calls[p].inst new == i # 0 /\ i \notin DOMAIN clients IN
        /\ IF i = 0 THEN End(p) ELSE Goto(p, "gate")
        /\ clients' = IF new THEN With(i, NewGitHub) ELSE clients
        /\ hold' = IF new THEN [j \in DOMAIN clients \union {i} |-> IF j = i THEN [r \in Resources |-> Open] ELSE hold[j]] ELSE hold
    /\ UNCHANGED <<now, insts, tokens, resolver>>

-----------------------------------------------------------------------------
(* The rate gate.                                                              *)

Past(i, r) == {q \in Procs : calls[q].pc \notin {"idle", "resolve", "join", "listing", "routed", "gate"} /\ calls[q].inst = i /\ calls[q].res = r}
gateBlocked(p) ==
    /\ At(p, "gate")
    /\ LET c == calls[p] at == My(p).gate[c.res] IN
        /\ calls' = IF now < at THEN [calls EXCEPT ![p] = Idle]
                    ELSE [calls EXCEPT ![p].pc = "token", ![p].early = now < hold[c.inst][c.res].until, ![p].denied = {n \in DOMAIN tokens : tokens[n].rejected}]
        /\ clients' = IF now < at THEN clients ELSE [clients EXCEPT ![c.inst].gate[c.res] = 0]
    /\ UNCHANGED <<now, insts, tokens, resolver, hold>>
(* A time of 0 stands for no usable reset header.                              *)
armGate(i, r, at) ==
    LET t == IF at = 0 THEN now + Skip ELSE at IN
    /\ clients' = [clients EXCEPT ![i].gate[r] = t]
    /\ hold' = [hold EXCEPT ![i][r] = [until |-> t, fly |-> Past(i, r)]]

-----------------------------------------------------------------------------
(* The installation token.                                                     *)

cached(c) == c.token # 0 /\ now < c.refresh
effectiveTokenExpiry(exp) == IF exp <= now THEN now + Life ELSE exp
Got(n, ps) == [p \in Procs |-> IF p \in ps THEN [calls[p] EXCEPT !.pc = "send", !.tok = n] ELSE calls[p]]
Minting(i) == {p \in Procs : At(p, "minting") /\ calls[p].inst = i}

Token(p) ==
    /\ At(p, "token")
    /\ calls' = IF cached(My(p)) THEN [calls EXCEPT ![p].pc = "send", ![p].tok = My(p).token, ![p].slack = tokens[My(p).token].exp - now]
                ELSE [calls EXCEPT ![p].pc = "mint"]
    /\ UNCHANGED <<now, insts, tokens, resolver, clients, hold>>
(* A flight that has stored its token still answers who joins it.              *)
JoinMint(p) ==
    /\ At(p, "mint")
    /\ clients' = IF My(p).flight # Nil THEN clients ELSE [clients EXCEPT ![calls[p].inst].flight = [stage |-> "new", tok |-> 0]]
    /\ calls' = [calls EXCEPT ![p].pc = "minting", ![p].denied = IF My(p).flight # Nil /\ My(p).flight.stage = "stored" THEN {} ELSE @]
    /\ UNCHANGED <<now, insts, tokens, resolver, hold>>
Recheck(i) ==
    /\ clients[i].flight # Nil /\ clients[i].flight.stage = "new"
    /\ IF cached(clients[i])
         THEN clients' = [clients EXCEPT ![i].flight = Nil] /\ calls' = Got(clients[i].token, Minting(i))
         ELSE clients' = [clients EXCEPT ![i].flight.stage = "posted"] /\ calls' = calls
    /\ UNCHANGED <<now, insts, tokens, resolver, hold>>
(* GitHub issues a token; needless marks one issued beside a usable one.       *)
postInstallationToken(i) ==
    /\ clients[i].flight # Nil /\ clients[i].flight.stage = "posted" /\ insts[i].gone = 0
    /\ tokens' = Append(tokens, [inst |-> i, exp |-> now + Life, live |-> TRUE, rejected |-> FALSE, needless |-> cached(clients[i])])
    /\ clients' = [clients EXCEPT ![i].flight.stage = "issued", ![i].flight.tok = Len(tokens) + 1]
    /\ UNCHANGED <<now, insts, resolver, calls, hold>>
store(i) ==
    /\ clients[i].flight # Nil /\ clients[i].flight.stage = "issued"
    /\ clients' = [clients EXCEPT ![i].token = clients[i].flight.tok, ![i].flight.stage = "stored",
                                  ![i].refresh = effectiveTokenExpiry(tokens[clients[i].flight.tok].exp) - Lead]
    /\ UNCHANGED <<now, insts, tokens, resolver, calls, hold>>
mint(i) ==
    /\ clients[i].flight # Nil /\ clients[i].flight.stage = "stored"
    /\ clients' = [clients EXCEPT ![i].flight = Nil] /\ calls' = Got(clients[i].flight.tok, Minting(i))
    /\ UNCHANGED <<now, insts, tokens, resolver, hold>>
(* The key, the request or the answer fails, or the leader's context ends.     *)
MintFails(i) ==
    /\ clients[i].flight # Nil /\ clients[i].flight.stage \in {"posted", "issued"}
    /\ clients' = [clients EXCEPT ![i].flight = Nil] /\ calls' = Failed(Minting(i))
    /\ UNCHANGED <<now, insts, tokens, resolver, hold>>
Invalidate(i) == [clients EXCEPT ![i].token = 0, ![i].refresh = 0]

-----------------------------------------------------------------------------
(* The request.                                                                *)

Answers(p, a) ==
    /\ calls' = [calls EXCEPT ![p].pc = "answered", ![p].answer = a]
    /\ UNCHANGED <<now, insts, tokens, resolver, clients, hold>>
Good(n) == tokens[n].live /\ now < tokens[n].exp
(* GitHub's answer: enough budget (to a conditional read, nothing new), little *)
(* or none of it, the last one told by GraphQL within a good answer; or the    *)
(* token is refused, which a good one is where it lacks a permission; or the   *)
(* request fails and tells nothing.  The answer is charged to the bucket of    *)
(* the request.                                                                *)
Serve(p) ==
    /\ At(p, "send") /\ Good(calls[p].tok)
    /\ \E a \in {"ok", "low", "limited", IF calls[p].res = "core" THEN "same" ELSE "errors"} : Answers(p, a)
Deny(p) == At(p, "send") /\ ~Good(calls[p].tok) /\ Answers(p, "denied")
Forbid(p) == At(p, "send") /\ Good(calls[p].tok) /\ Answers(p, "denied")
Lose(p) ==
    /\ At(p, "send") /\ End(p)
    /\ UNCHANGED <<now, insts, tokens, resolver, clients, hold>>

(* A response with budget left opens the gate, whatever was learnt since.      *)
Reopen(i, r, p) ==
    /\ clients' = [clients EXCEPT ![i].gate[r] = 0]
    /\ hold' = IF p \in hold[i][r].fly THEN [hold EXCEPT ![i][r] = Open] ELSE hold
recordBudget(p) ==
    LET i == calls[p].inst r == calls[p].res IN
    /\ At(p, "answered")
    /\ IF calls[p].answer \in {"ok", "same"} THEN Reopen(i, r, p) ELSE \E at \in {0, now + 1} : armGate(i, r, at)
    /\ UNCHANGED <<now, insts, tokens, resolver>>
(* A further page goes through the gate and asks for the token again.          *)
getAllPages(p) == recordBudget(p) /\ calls[p].answer = "ok" /\ Goto(p, "gate")
getJSON(p) == recordBudget(p) /\ calls[p].answer \in {"ok", "low"} /\ End(p)
getJSONCond(p) == recordBudget(p) /\ calls[p].answer = "same" /\ End(p)
(* The budget header of the answer may have armed the gate already; else the   *)
(* default skip does.                                                          *)
graphQLRateLimited(p) ==
    /\ At(p, "answered") /\ calls[p].answer = "errors" /\ End(p)
    /\ \E at \in {0, now + 1} : armGate(calls[p].inst, "graphql", at)
    /\ UNCHANGED <<now, insts, tokens, resolver>>
mapErrorResponse_NoArm(p) ==
    /\ At(p, "answered") /\ calls[p].answer \in {"limited", "denied"} /\ End(p)
    /\ IF calls[p].answer = "limited"
         THEN hold' = [hold EXCEPT ![calls[p].inst][calls[p].res] = [until |-> now + 1, fly |-> Past(calls[p].inst, calls[p].res)]] /\ UNCHANGED <<tokens, clients>>
         ELSE clients' = Invalidate(calls[p].inst) /\ tokens' = [tokens EXCEPT ![calls[p].tok].rejected = TRUE] /\ hold' = hold
    /\ UNCHANGED <<now, insts, resolver>>
mapErrorResponse(p) ==
    /\ At(p, "answered") /\ calls[p].answer \in {"limited", "denied"} /\ End(p)
    /\ IF calls[p].answer = "limited"
         THEN (\E at \in {0, now + 1} : armGate(calls[p].inst, calls[p].res, at)) /\ tokens' = tokens
         ELSE clients' = Invalidate(calls[p].inst) /\ tokens' = [tokens EXCEPT ![calls[p].tok].rejected = TRUE] /\ hold' = hold
    /\ UNCHANGED <<now, insts, resolver>>

-----------------------------------------------------------------------------
(* An operation is routed to an installation its owner had no more than TTL    *)
(* and one listing before, and is told there is none only when the owner had   *)
(* none within the floor and one listing.                                      *)
Routed(p) ==
    LET c == calls[p] i == c.inst IN
    c.pc # "idle" /\ c.routed # 0 =>
        IF i = 0 THEN {j \in Listed(c.owner) : insts[j].from + 2 < c.routed} = {}
        ELSE insts[i].owner = c.owner /\ (insts[i].gone = 0 \/ c.routed <= insts[i].gone + TTL + 1)
(* A request carries a token of its installation, not one the operation could  *)
(* already know to be refused; one taken from the cache has Lead left.         *)
Carries(p) ==
    LET c == calls[p] IN
    c.pc \in {"send", "answered"} =>
        tokens[c.tok].inst = c.inst /\ c.tok \notin c.denied /\ (c.slack # 0 => c.slack > Lead)
(* Nobody passes a gate before the reset it was last told, except after a      *)
(* response to a request that was already past it; no token is issued beside   *)
(* a usable one.                                                               *)
ClientSound ==
    /\ \A p \in Procs : Routed(p) /\ Carries(p) /\ (calls[p].pc # "idle" => ~calls[p].early)
    /\ \A n \in DOMAIN tokens : ~tokens[n].needless

-----------------------------------------------------------------------------
(* Bounds for ForgeClient: MaxCalls operations and further pages, MaxFaults    *)
(* refusals, losses and changes on GitHub.  A behaviour is about the routing   *)
(* of operations of every owner, up to RouteTime, or about the requests of     *)
(* Home's once a listing has been taken, up to ServeTime.                      *)
CONSTANTS MaxCalls, MaxFaults, RouteTime, ServeTime
VARIABLE load

Load(kind, os, time) == [calls |-> 0, faults |-> 0, kind |-> kind, owners |-> os, time |-> time]
(* Home's installation has been listed. *)
Warm ==
    /\ now = 1 /\ tokens = <<>>
    /\ insts = <<[owner |-> Home, from |-> 0, gone |-> 0]>>
    /\ resolver = [snap |-> [o \in Owners |-> IF o = Home THEN 1 ELSE 0], at |-> 1, attempt |-> 1, flight |-> Nil]
    /\ clients = [i \in {1} |-> NewGitHub]
    /\ calls = [p \in Procs |-> Idle]
    /\ hold = [i \in {1} |-> [r \in Resources |-> Open]]
CInit ==
    \/ FcInit /\ load = Load("route", Owners, RouteTime)
    \/ Warm /\ load = Load("serve", {Home}, ServeTime)
Call(A) == load.calls < MaxCalls /\ A /\ load' = [load EXCEPT !.calls = @ + 1]
Fault(A) == load.faults < MaxFaults /\ A /\ load' = [load EXCEPT !.faults = @ + 1]
Run(A) == A /\ load' = load
Sends == load.kind = "serve"

FcNext ==
    \/ now < load.time /\ Run(Tick)
    \/ \E o \in load.owners : Fault(Install(o)) \/ Fault(Uninstall(o))
    \/ \E n \in DOMAIN tokens : Fault(Revoke(n))
    \/ Run(Relook) \/ Run(listInstallations) \/ Run(TakeSnapshot) \/ Fault(ListFails)
    \/ \E i \in DOMAIN clients : Run(Recheck(i)) \/ Run(postInstallationToken(i)) \/ Run(store(i)) \/ Run(mint(i)) \/ Fault(MintFails(i))
    \/ \E p \in Procs :
        \/ \E o \in load.owners : Call(Read(p, o)) \/ (Sends /\ Call(Write(p, o))) \/ (Sends /\ Call(Query(p, o)))
        \/ Run(InstallationFor(p)) \/ Run(freshInstallations(p)) \/ Run(clientFor(p))
        \/ ~Sends /\ Run(GiveUp(p))
        \/ Sends /\ Run(gateBlocked(p))
        \/ Run(Token(p)) \/ Run(JoinMint(p)) \/ Run(Serve(p)) \/ Run(Deny(p)) \/ Fault(Forbid(p)) \/ Fault(Lose(p))
        \/ Call(getAllPages(p)) \/ Run(getJSON(p)) \/ Run(getJSONCond(p)) \/ Run(graphQLRateLimited(p)) \/ Run(mapErrorResponse(p))
FcSpec == CInit /\ [][FcNext]_<<cvars, load>>
=============================================================================
