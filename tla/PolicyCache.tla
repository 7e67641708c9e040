------------------------------ MODULE PolicyCache ------------------------------
(* The caches of one tenant's active gateway rules: internal/policy/loader.go *)
(* of the gateway. Each gateway process keeps the rules in memory; all of     *)
(* them share one Redis key; the control plane holds the rules themselves.    *)
(* Entries of other tenants have keys of their own, so one tenant is enough.  *)
(*                                                                            *)
(* Time counts ticks. A version number stands for the rules between two       *)
(* changes. A process that has asked the control plane or Redis is through    *)
(* with its stores after MaxDelay: the HTTP client stops after 10 s, Redis    *)
(* operations after 3 s.                                                      *)
EXTENDS Naturals

CONSTANTS
    Gateways,   \* gateway processes; each runs one syncLoop
    Requests,   \* proxied requests that may be in GetRules at the same time
    Interval,   \* POLICY_SYNC_INTERVAL
    MaxDelay,   \* longest time from asking to the last store
    MaxVersion, \* bound on the number of changes of the rules
    MaxTime,    \* bound on the clock
    NoEntry,    \* nothing is cached
    NoGateway   \* the gateway of an idle request

ASSUME TimeAssumption == Interval \in Nat \ {0} /\ MaxDelay \in Nat
ASSUME BoundAssumption == MaxVersion \in Nat /\ MaxTime \in Nat
ASSUME DistinctAssumption ==
    /\ Gateways \cap Requests = {}
    /\ NoGateway \notin Gateways

VARIABLES
    rules,    \* version of the active rules at the control plane
    replaced, \* version -> when a later one replaced it
    now,
    mem,      \* gateway -> RuleSet in its map
    redis,    \* RuleSet under the tenant's key, with the expiry of the key
    proc      \* request or syncLoop -> where it is and its locals

vars == <<rules, replaced, now, mem, redis, proc>>

Procs == Requests \cup Gateways
Versions == 0..MaxVersion
Times == 0..MaxTime

Entries == [ver: Versions, at: Times]
RedisEntries == [ver: Versions, at: Times, expires: Nat]
ProcStates == [pc: {"idle", "redis", "found", "fetch", "answered", "stored", "dropping"},
               gw: Gateways \cup {NoGateway},
               ver: Versions, \* what the process has read
               at: Times,     \* its FetchedAt
               since: Times]  \* when it asked
IdleProc == [pc |-> "idle", gw |-> NoGateway, ver |-> 0, at |-> 0, since |-> 0]

TypeOK ==
    /\ rules \in Versions
    /\ replaced \in [Versions -> Times]
    /\ now \in Times
    /\ mem \in [Gateways -> Entries \cup {NoEntry}]
    /\ redis \in RedisEntries \cup {NoEntry}
    /\ proc \in [Procs -> ProcStates]

Init ==
    /\ rules = 0
    /\ replaced = [v \in Versions |-> 0]
    /\ now = 0
    /\ mem = [g \in Gateways |-> NoEntry]
    /\ redis = NoEntry
    /\ proc = [p \in Procs |-> IdleProc]

----------------------------------------------------------------------------
(* The control plane commits a change of the tenant's active rules.           *)
Change ==
    /\ rules < MaxVersion
    /\ rules' = rules + 1
    /\ replaced' = [replaced EXCEPT ![rules] = now]
    /\ UNCHANGED <<now, mem, redis, proc>>

Asking(p) == proc[p].pc \in {"found", "fetch", "answered", "stored"}

Tick ==
    /\ now < MaxTime
    /\ \A p \in Procs : Asking(p) => now < proc[p].since + MaxDelay
    /\ now' = now + 1
    /\ UNCHANGED <<rules, replaced, mem, redis, proc>>

Live == redis # NoEntry /\ now < redis.expires

(* GetRules returns, or the process is done in another way.                   *)
Finish(p) == proc' = [proc EXCEPT ![p] = IdleProc]

----------------------------------------------------------------------------
(* GetRules *)

Fresh(entry) == now - entry.at < 2 * Interval

(* The fast path returns mem[g] when it is fresh, and changes nothing.        *)
MissMemory(p, g) ==
    /\ proc[p].pc = "idle"
    /\ mem[g] # NoEntry => ~Fresh(mem[g])
    /\ proc' = [proc EXCEPT ![p] = [IdleProc EXCEPT !.pc = "redis", !.gw = g]]
    /\ UNCHANGED <<rules, replaced, now, mem, redis>>

(* Medium path: GET, then the map under the write lock.                       *)
ReadRedis(p) ==
    /\ proc[p].pc = "redis"
    /\ Live
    /\ proc' = [proc EXCEPT ![p].pc = "found", ![p].since = now,
                                 ![p].ver = redis.ver, ![p].at = redis.at]
    /\ UNCHANGED <<rules, replaced, now, mem, redis>>

(* Mutant of ServeRedis: the entry counts as fetched when it is loaded.       *)
ServeRedisAsFetched(p) ==
    /\ proc[p].pc = "found"
    /\ mem' = [mem EXCEPT ![proc[p].gw] = [ver |-> proc[p].ver, at |-> now]]
    /\ Finish(p)
    /\ UNCHANGED <<rules, replaced, now, redis>>

ServeRedis(p) ==
    /\ proc[p].pc = "found"
    /\ mem' = [mem EXCEPT ![proc[p].gw] = [ver |-> proc[p].ver, at |-> proc[p].at]]
    /\ Finish(p)
    /\ UNCHANGED <<rules, replaced, now, redis>>

(* Slow path, also when Redis fails; syncLoop fetches for a cached tenant.    *)
Ask(p) ==
    /\ \/ proc[p].pc = "redis" /\ proc' = [proc EXCEPT ![p].pc = "fetch", ![p].since = now]
       \/ /\ p \in Gateways
          /\ proc[p].pc = "idle"
          /\ mem[p] # NoEntry
          /\ proc' = [proc EXCEPT ![p] = [IdleProc EXCEPT !.pc = "fetch", !.gw = p,
                                             !.since = now]]
    /\ UNCHANGED <<rules, replaced, now, mem, redis>>

----------------------------------------------------------------------------
(* fetchAndCache *)

(* The control plane answers with the rules of that moment.                   *)
Answer(p) ==
    /\ proc[p].pc = "fetch"
    /\ proc' = [proc EXCEPT ![p].pc = "answered", ![p].ver = rules]
    /\ UNCHANGED <<rules, replaced, now, mem, redis>>

(* Mutant of AskFails: the rules of a failed answer are cached all the same.  *)
AskFailsCached(p) ==
    /\ proc[p].pc = "fetch"
    /\ mem' = [mem EXCEPT ![proc[p].gw] = [ver |-> NoEntry, at |-> now]]
    /\ Finish(p)
    /\ UNCHANGED <<rules, replaced, now, redis>>

(* An error, a timeout or an answer that cannot be decoded: the caches stay.  *)
AskFails(p) ==
    /\ proc[p].pc = "fetch"
    /\ Finish(p)
    /\ UNCHANGED <<rules, replaced, now, mem, redis>>

StoreMemory(p) ==
    /\ proc[p].pc = "answered"
    /\ mem' = [mem EXCEPT ![proc[p].gw] = [ver |-> proc[p].ver, at |-> now]]
    /\ proc' = [proc EXCEPT ![p].pc = "stored", ![p].at = now]
    /\ UNCHANGED <<rules, replaced, now, redis>>

(* SET with a lifetime may fail; the rules are returned in any case.          *)
StoreRedis(p) ==
    /\ proc[p].pc = "stored"
    /\ redis' \in {redis, [ver |-> proc[p].ver, at |-> proc[p].at,
                           expires |-> now + 2 * Interval]}
    /\ Finish(p)
    /\ UNCHANGED <<rules, replaced, now, mem>>

----------------------------------------------------------------------------
(* InvalidateCache, on behalf of a request to /admin: first the map, then     *)
(* Redis, where a DEL that fails goes unnoticed.                              *)
DropMemory(p, g) ==
    /\ proc[p].pc = "idle"
    /\ mem' = [mem EXCEPT ![g] = NoEntry]
    /\ proc' = [proc EXCEPT ![p] = [IdleProc EXCEPT !.pc = "dropping", !.gw = g]]
    /\ UNCHANGED <<rules, replaced, now, redis>>

DropRedis(p) ==
    /\ proc[p].pc = "dropping"
    /\ redis' \in {redis, NoEntry}
    /\ Finish(p)
    /\ UNCHANGED <<rules, replaced, now, mem>>

(* Redis loses the key; a gateway process ends and starts with an empty map.  *)
RedisLost ==
    /\ redis # NoEntry
    /\ redis' = NoEntry
    /\ UNCHANGED <<rules, replaced, now, mem, proc>>

Restart(g) ==
    /\ mem' = [mem EXCEPT ![g] = NoEntry]
    /\ proc' = [p \in Procs |-> IF proc[p].gw = g THEN IdleProc ELSE proc[p]]
    /\ UNCHANGED <<rules, replaced, now, redis>>

----------------------------------------------------------------------------
RequestStep(p) ==
    \/ \E g \in Gateways : MissMemory(p, g) \/ DropMemory(p, g)
    \/ ReadRedis(p) \/ ServeRedis(p) \/ DropRedis(p)

FetchStep(p) == Ask(p) \/ Answer(p) \/ AskFails(p) \/ StoreMemory(p) \/ StoreRedis(p)

Next ==
    \/ Change \/ Tick \/ RedisLost
    \/ \E p \in Requests : RequestStep(p)
    \/ \E p \in Procs : FetchStep(p)
    \/ \E g \in Gateways : Restart(g)

Spec == Init /\ [][Next]_vars

----------------------------------------------------------------------------
(* Properties *)

(* The versions that a GetRules can return now: from memory, or at the end of *)
(* the medium and the slow path.                                              *)
Returnable ==
    {mem[g].ver : g \in {h \in Gateways : mem[h] # NoEntry /\ Fresh(mem[h])}}
    \cup {proc[p].ver : p \in {q \in Procs : proc[q].pc \in {"found", "stored"}}}

(* Whatever fails, restarts or overlaps, GetRules returns rules that were in  *)
(* force less than two intervals and two calls ago: an entry is only used     *)
(* from memory up to 2 * PolicySyncInterval after its fetch, and it does not  *)
(* start a second life when it comes back from Redis.                         *)
BoundedStaleness ==
    \A v \in Returnable :
        v < rules => now < replaced[v] + 2 * (Interval + MaxDelay)

=============================================================================
