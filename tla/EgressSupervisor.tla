-------------------------- MODULE EgressSupervisor --------------------------
(***************************************************************************)
(* The egress supervisor of the content factory (tools/egress/             *)
(* supervisor.py, tunnel.py, factory/precard/provider_lease_policy.py): a  *)
(* loopback HTTP service that leases an exit server to a client, keeps one *)
(* xray tunnel, and cools a server down when a client reports a failure.   *)
(*                                                                         *)
(* Requests are served by the threads of a ThreadingHTTPServer, here       *)
(* Handlers.  A step is what one thread does under the pool lock, or       *)
(* between two network calls: pings, xray spawns and egress checks run     *)
(* outside the pool lock, and the last two under the tunnel lock.          *)
(* Cooldowns end by an action of their own, so clock values are left out.  *)
(***************************************************************************)
EXTENDS Naturals, Sequences, FiniteSets

CONSTANTS
    Handlers,        \* threads of the HTTP server
    NoHandler,       \* nobody holds the tunnel lock
    Subscription,    \* the server each subscription source offers
    NoServer,        \* no server (a direct lease, no tunnel)
    TunnelProviders, \* providers whose TARGETS row says tunnel
    DirectProviders, \* providers whose row says direct
    NoProvider,      \* a provider that is None
    CacheSeed,       \* rows of clean_cache.json at the first start
    ProbeBatch,      \* servers pinged by one acquire (8 in the code)
    MaxLeases,       \* bound: lease requests
    MaxReports,      \* bound: reports
    MaxRefreshes,    \* bound: refresh requests
    MaxRestarts,     \* bound: restarts of the supervisor
    MaxFaults        \* bound: pings, spawns, checks and fetches that fail

Servers   == {Subscription[i] : i \in DOMAIN Subscription}
Providers == TunnelProviders \cup DirectProviders
LeaseIds  == 1..MaxLeases

ASSUME ConstantsAssumption ==
    /\ IsFiniteSet(Handlers)
    /\ NoHandler \notin Handlers
    /\ Subscription \in Seq(Servers) /\ Subscription # <<>>
    /\ NoServer \notin Servers
    /\ NoProvider \notin Providers
    /\ TunnelProviders \cap DirectProviders = {}
    /\ CacheSeed \subseteq Servers \X TunnelProviders
    /\ ProbeBatch \in Nat \ {0}
    /\ {MaxLeases, MaxReports, MaxRefreshes, MaxRestarts, MaxFaults}
           \subseteq Nat

Outcomes == {"ok", "http429", "location-blocked", "net_err", "auth_err"}

(* A row of Pool.leases; a lease that is absent has no provider.           *)
Lease   == [server : Servers \cup {NoServer},
            provider : Providers \cup {NoProvider}]
NoLease == [server |-> NoServer, provider |-> NoProvider]

PCs == {"idle",
        "ping", "mint", "note", "acquire", "probe", "spawn", "check",
        "recheck", "grant", "failed",
        "rotate", "fetch", "save"}

(* The steps of TunnelOwner.acquire that hold the tunnel lock.             *)
Locked == {"probe", "spawn", "check", "recheck"}

VARIABLES
    pool,     \* Pool.servers: ids in the order of preference
    linked,   \* those that carry the link a tunnel needs
    cooling,  \* Pool.cooldown_until: the (server, provider) that cool
    leases,   \* Pool.leases
    cache,    \* clean_cache.json: the fresh rows
    file,     \* egress_pool.json: the saved order, without links
    tunnel,   \* TunnelOwner._server_id
    children, \* running xray children, by server
    tlock,    \* the holder of TunnelOwner._lock
    boot,     \* sources main has fetched; requests are served after the last
    pc, prov, lid, cand, pick, src, \* the locals of each thread
    asked, reports, refreshes, restarts, faults, \* counters
    granted,  \* history: the server whose proxy a lease response carried
    told      \* history: the leases clients have been told of

store  == <<pool, linked, file, boot>>
locals == <<pc, prov, lid, cand, pick, src>>
counts == <<asked, reports, refreshes, restarts, faults>>
vars   == <<store, cooling, leases, cache, tunnel, children, tlock, locals,
            counts, granted, told>>

-----------------------------------------------------------------------------
(* Helpers                                                                 *)

(* Link-bearing servers that do not cool for p.                            *)
Usable(p) == {s \in linked : <<s, p>> \notin cooling}

(* s is the first server of S in pool order.                               *)
IsFirst(s, S) ==
    \E i \in DOMAIN pool :
        /\ pool[i] = s
        /\ s \in S
        /\ \A j \in 1..(i - 1) : pool[j] \notin S

(* The servers of S that have fewer than n others of S before them.        *)
FirstFew(S, n) ==
    {s \in S : \E i \in DOMAIN pool :
        /\ pool[i] = s
        /\ Cardinality({j \in 1..(i - 1) : pool[j] \in S}) < n}

(* The preferred server while it is usable, else the first of S.           *)
Wanted(s, prefer, S) == IF prefer \in S THEN s = prefer ELSE IsFirst(s, S)

Alive == tunnel # NoServer /\ tunnel \in children

Pooled == {pool[i] : i \in DOMAIN pool}

(* Pool.load: a server that is not pooled yet is appended.                 *)
Load(s) == IF s \in Pooled THEN pool ELSE Append(pool, s)

Serving == boot = Len(Subscription)

Becomes(h, step) == pc' = [pc EXCEPT ![h] = step]

(* The thread has answered: its locals are gone.                           *)
Answer(h) ==
    /\ pc'   = [pc EXCEPT ![h] = "idle"]
    /\ prov' = [prov EXCEPT ![h] = NoProvider]
    /\ lid'  = [lid EXCEPT ![h] = 0]
    /\ cand' = [cand EXCEPT ![h] = {}]
    /\ pick' = [pick EXCEPT ![h] = NoServer]
    /\ src'  = [src EXCEPT ![h] = 0]

Tell(l, s) ==
    /\ granted' = [granted EXCEPT ![l] = s]
    /\ told' = told \cup {l}

Costs(n) ==
    /\ faults + n <= MaxFaults
    /\ faults' = faults + n
    /\ UNCHANGED <<asked, reports, refreshes, restarts>>

-----------------------------------------------------------------------------
(* POST /v1/lease: Pool.lease                                              *)

(* A direct target is leased at once.                                      *)
LeaseDirect(h, p) ==
    /\ pc[h] = "idle"
    /\ asked < MaxLeases
    /\ asked' = asked + 1
    /\ leases' = [leases EXCEPT ![asked + 1] =
                    [server |-> NoServer, provider |-> p]]
    /\ Tell(asked + 1, NoServer)
    /\ UNCHANGED <<store, cooling, cache, tunnel, children, tlock, locals,
                   reports, refreshes, restarts, faults>>

(* A tunnel target: servers and cooldowns are copied under the pool lock.  *)
LeaseStart(h, p) ==
    /\ pc[h] = "idle"
    /\ asked < MaxLeases
    /\ asked' = asked + 1
    /\ Becomes(h, "ping")
    /\ prov' = [prov EXCEPT ![h] = p]
    /\ lid'  = [lid EXCEPT ![h] = asked + 1]
    /\ cand' = [cand EXCEPT ![h] = Usable(p)]
    /\ UNCHANGED <<store, cooling, leases, cache, tunnel, children, tlock,
                   pick, reports, refreshes, restarts, faults, granted,
                   told, src>>

(* lease_for over the copy: cached servers are pinged one by one, the first*)
(* that answers is the hint; the rows pinged before it did not answer.     *)
LeasePing(h) ==
    /\ pc[h] = "ping"
    /\ LET rows == {s \in cand[h] : <<s, prov[h]>> \in cache}
       IN  \/ \E s \in rows, dead \in SUBSET rows :
                /\ s \notin dead
                /\ pick' = [pick EXCEPT ![h] = s]
                /\ Costs(Cardinality(dead))
           \/ /\ pick' = [pick EXCEPT ![h] = NoServer]
              /\ Costs(Cardinality(rows))
    /\ cand' = [cand EXCEPT ![h] = {}]
    /\ Becomes(h, "mint")
    /\ UNCHANGED <<store, cooling, leases, cache, tunnel, children, tlock,
                   prov, lid, granted, told, src>>

(* The hint is checked again under the pool lock; without one the first    *)
(* usable server is leased.                                                *)
LeaseMint(h) ==
    /\ pc[h] = "mint"
    /\ LET hit == pick[h] \in Usable(prov[h])
       IN  /\ \E s \in Servers :
                /\ Wanted(s, pick[h], Usable(prov[h]))
                /\ leases' = [leases EXCEPT ![lid[h]] =
                                [server |-> s, provider |-> prov[h]]]
           /\ Becomes(h, IF hit THEN "note" ELSE "acquire")
           /\ pick' = [pick EXCEPT ![h] = IF hit THEN @ ELSE NoServer]
    /\ UNCHANGED <<store, cooling, cache, tunnel, children, tlock, prov, lid,
                   cand, counts, granted, told, src>>

(* No usable server: the request is parked.                                *)
LeasePark(h) ==
    /\ pc[h] = "mint"
    /\ Usable(prov[h]) = {}
    /\ Answer(h)
    /\ UNCHANGED <<store, cooling, leases, cache, tunnel, children, tlock,
                   counts, granted, told>>

(* note_clean_success: only a hit is written back.                         *)
LeaseNote(h) ==
    /\ pc[h] = "note"
    /\ cache' = cache \cup {<<pick[h], prov[h]>>}
    /\ pick' = [pick EXCEPT ![h] = NoServer]
    /\ Becomes(h, "acquire")
    /\ UNCHANGED <<store, cooling, leases, tunnel, children, tlock, prov, lid,
                   cand, counts, granted, told, src>>

-----------------------------------------------------------------------------
(* POST /v1/lease: TunnelOwner.acquire, under the tunnel lock              *)

Prefer(h) == leases[lid[h]].server

(* Servers that do not cool are listed; the live tunnel of the wanted one  *)
(* is used again before any probing.                                       *)
AcquireEnter(h) ==
    /\ pc[h] = "acquire"
    /\ tlock = NoHandler
    /\ LET free == Usable(prov[h])
       IN  \/ /\ free = {}
              /\ Becomes(h, "failed")
              /\ UNCHANGED <<tlock, cand>>
           \/ \E s \in Servers :
              /\ Wanted(s, Prefer(h), free)
              /\ tlock' = h
              /\ \/ /\ Alive /\ tunnel = s
                    /\ Becomes(h, "recheck")
                    /\ UNCHANGED cand
                 \/ /\ ~(Alive /\ tunnel = s)
                    /\ Becomes(h, "probe")
                    /\ cand' = [cand EXCEPT ![h] = free]
    /\ UNCHANGED <<store, cooling, leases, cache, tunnel, children, prov, lid,
                   pick, counts, granted, told, src>>

(* The first servers are pinged and the dead ones cooled; the old tunnel   *)
(* is dropped before the child of another server is spawned.               *)
AcquireProbe(h) ==
    /\ pc[h] = "probe"
    /\ \E dead \in SUBSET FirstFew(cand[h], ProbeBatch) :
        /\ Costs(Cardinality(dead))
        /\ cooling' = cooling \cup {<<s, prov[h]>> : s \in dead}
        /\ LET live == cand[h] \ dead
           IN  \/ /\ live = {}
                  /\ tlock' = NoHandler
                  /\ Becomes(h, "failed")
                  /\ UNCHANGED <<tunnel, children, pick>>
               \/ \E s \in Servers :
                  /\ Wanted(s, Prefer(h), live)
                  /\ UNCHANGED tlock
                  /\ \/ /\ Alive /\ tunnel = s
                        /\ Becomes(h, "recheck")
                        /\ UNCHANGED <<tunnel, children, pick>>
                     \/ /\ ~(Alive /\ tunnel = s)
                        /\ children' = (children \ {tunnel}) \cup {s}
                        /\ tunnel' = NoServer
                        /\ pick' = [pick EXCEPT ![h] = s]
                        /\ Becomes(h, "spawn")
    /\ cand' = [cand EXCEPT ![h] = {}]
    /\ UNCHANGED <<store, leases, cache, prov, lid, granted, told, src>>

(* Tunnel.start: the port of the child opens.                              *)
AcquireUp(h) ==
    /\ pc[h] = "spawn"
    /\ pick[h] \in children
    /\ Becomes(h, "check")
    /\ UNCHANGED <<store, cooling, leases, cache, tunnel, children, tlock,
                   prov, lid, cand, pick, counts, granted, told, src>>

(* The egress check answers: the tunnel is installed.                      *)
AcquireDone(h) ==
    /\ pc[h] = "check"
    /\ pick[h] \in children
    /\ tunnel' = pick[h]
    /\ tlock' = NoHandler
    /\ Becomes(h, "grant")
    /\ UNCHANGED <<store, cooling, leases, cache, children, prov, lid, cand,
                   pick, counts, granted, told, src>>

(* Mutant: the failed child is not stopped.                                *)
AcquireFailsKeepsChild(h) ==
    /\ pc[h] \in {"spawn", "check"}
    /\ Costs(IF pick[h] \in children THEN 1 ELSE 0)
    /\ UNCHANGED children
    /\ tlock' = NoHandler
    /\ Becomes(h, "failed")
    /\ UNCHANGED <<store, cooling, leases, cache, tunnel, prov, lid, cand,
                   pick, granted, told, src>>

(* Mutant: the lock is not released on failure.                            *)
AcquireFailsKeepsLock(h) ==
    /\ pc[h] \in {"spawn", "check"}
    /\ Costs(IF pick[h] \in children THEN 1 ELSE 0)
    /\ children' = children \ {pick[h]}
    /\ UNCHANGED tlock
    /\ Becomes(h, "failed")
    /\ UNCHANGED <<store, cooling, leases, cache, tunnel, prov, lid, cand,
                   pick, granted, told, src>>

(* The spawn times out or the check fails: the child is stopped.           *)
AcquireFails(h) ==
    /\ pc[h] \in {"spawn", "check"}
    /\ Costs(IF pick[h] \in children THEN 1 ELSE 0)
    /\ children' = children \ {pick[h]}
    /\ tlock' = NoHandler
    /\ Becomes(h, "failed")
    /\ UNCHANGED <<store, cooling, leases, cache, tunnel, prov, lid, cand,
                   pick, granted, told, src>>

(* The egress check of a tunnel that is used again.                        *)
Recheck(h) ==
    /\ pc[h] = "recheck"
    /\ tlock' = NoHandler
    /\ \/ /\ Alive
          /\ pick' = [pick EXCEPT ![h] = tunnel]
          /\ Becomes(h, "grant")
          /\ Costs(0)
       \/ /\ UNCHANGED pick
          /\ Becomes(h, "failed")
          /\ Costs(IF Alive THEN 1 ELSE 0)
    /\ UNCHANGED <<store, cooling, leases, cache, tunnel, children, prov, lid,
                   cand, granted, told, src>>

(* Mutant: the lease record keeps the hint.                                *)
GrantKeepsHint(h) ==
    /\ pc[h] = "grant"
    /\ Tell(lid[h], pick[h])
    /\ Answer(h)
    /\ UNCHANGED <<store, leases, cooling, cache, tunnel, children, tlock, counts>>

(* The lease record is pointed at the server of the tunnel and the client  *)
(* is answered.                                                            *)
Grant(h) ==
    /\ pc[h] = "grant"
    /\ leases' = [leases EXCEPT ![lid[h]].server = pick[h]]
    /\ Tell(lid[h], pick[h])
    /\ Answer(h)
    /\ UNCHANGED <<store, cooling, cache, tunnel, children, tlock, counts>>

(* Mutant: the lease of a failed request is kept.                          *)
FailKeepsLease(h) ==
    /\ pc[h] = "failed"
    /\ LET s == IF pick[h] # NoServer THEN pick[h] ELSE Prefer(h)
       IN  cooling' = cooling \cup {<<s, prov[h]>>}
    /\ Answer(h)
    /\ UNCHANGED <<store, leases, cache, tunnel, children, tlock, counts, granted,
                   told>>

(* The server that failed, or the hint when none is known, is cooled; the  *)
(* lease is discarded and the request parked.                              *)
Fail(h) ==
    /\ pc[h] = "failed"
    /\ LET s == IF pick[h] # NoServer THEN pick[h] ELSE Prefer(h)
       IN  cooling' = cooling \cup {<<s, prov[h]>>}
    /\ leases' = [leases EXCEPT ![lid[h]] = NoLease]
    /\ Answer(h)
    /\ UNCHANGED <<store, cache, tunnel, children, tlock, counts, granted,
                   told>>

-----------------------------------------------------------------------------
(* POST /v1/report                                                         *)

(* Mutant: a direct lease is cooled like a server.                         *)
ReportCoolsAny(h, l, outcome, override) ==
    /\ pc[h] = "idle"
    /\ l \in told
    /\ reports < MaxReports
    /\ reports' = reports + 1
    /\ LET lease  == leases[l]
           eff    == IF override # NoProvider THEN override ELSE lease.provider
           blocks == outcome \in {"http429", "location-blocked"}
           switch == /\ lease # NoLease
                     /\ blocks \/ outcome = "net_err"
       IN  /\ cooling' = IF lease # NoLease /\ blocks
                         THEN cooling \cup {<<lease.server, eff>>}
                         ELSE cooling
           /\ leases' = IF outcome = "auth_err"
                        THEN [leases EXCEPT ![l] = NoLease]
                        ELSE leases
           /\ \/ /\ switch
                 /\ Becomes(h, "rotate")
                 /\ prov' = [prov EXCEPT ![h] = override]
                 /\ lid' = [lid EXCEPT ![h] = l]
                 /\ UNCHANGED <<cand, pick, src>>
              \/ ~switch /\ UNCHANGED locals
    /\ UNCHANGED <<store, cache, tunnel, children, tlock, asked, refreshes,
                   restarts, faults, granted, told>>

(* Pool.report, for a lease some client holds; override is the provider a  *)
(* report may name.                                                        *)
Report(h, l, outcome, override) ==
    /\ pc[h] = "idle"
    /\ l \in told
    /\ reports < MaxReports
    /\ reports' = reports + 1
    /\ LET lease  == leases[l]
           eff    == IF override # NoProvider THEN override ELSE lease.provider
           blocks == /\ outcome \in {"http429", "location-blocked"}
                     /\ lease.server # NoServer
           switch == /\ lease # NoLease
                     /\ blocks \/ outcome = "net_err"
       IN  /\ cooling' = IF lease # NoLease /\ blocks
                         THEN cooling \cup {<<lease.server, eff>>}
                         ELSE cooling
           /\ leases' = IF outcome = "auth_err"
                        THEN [leases EXCEPT ![l] = NoLease]
                        ELSE leases
           /\ \/ /\ switch
                 /\ Becomes(h, "rotate")
                 /\ prov' = [prov EXCEPT ![h] = override]
                 /\ lid' = [lid EXCEPT ![h] = l]
                 /\ UNCHANGED <<cand, pick, src>>
              \/ ~switch /\ UNCHANGED locals
    /\ UNCHANGED <<store, cache, tunnel, children, tlock, asked, refreshes,
                   restarts, faults, granted, told>>

(* TunnelOwner.rotate: whatever server carries the tunnel now is cooled    *)
(* for the provider of the report and its tunnel dropped.                  *)
Rotate(h) ==
    /\ pc[h] = "rotate"
    /\ tlock = NoHandler
    /\ LET eff == IF prov[h] # NoProvider THEN prov[h]
                  ELSE leases[lid[h]].provider
       IN  cooling' = IF tunnel # NoServer
                      THEN cooling \cup {<<tunnel, eff>>} ELSE cooling
    /\ children' = children \ {tunnel}
    /\ tunnel' = NoServer
    /\ Answer(h)
    /\ UNCHANGED <<store, leases, cache, tlock, counts, granted, told>>

-----------------------------------------------------------------------------
(* POST /v1/refresh                                                        *)

(* refresh_subscription goes through the sources one by one.               *)
Refresh(h) ==
    /\ pc[h] = "idle"
    /\ refreshes < MaxRefreshes
    /\ refreshes' = refreshes + 1
    /\ Becomes(h, "fetch")
    /\ src' = [src EXCEPT ![h] = 1]
    /\ UNCHANGED <<store, cooling, leases, cache, tunnel, children, tlock,
                   prov, lid, cand, pick, asked, reports, restarts, faults,
                   granted, told>>

(* A source that answers is loaded under the pool lock: a server that is   *)
(* new comes with its link, a known one stays as it is.  A source that     *)
(* fails is skipped.                                                       *)
FetchSource(h) ==
    /\ pc[h] = "fetch"
    /\ LET s == Subscription[src[h]]
       IN  \/ /\ linked' = IF s \in Pooled THEN linked ELSE linked \cup {s}
              /\ pool' = Load(s)
              /\ Costs(0)
           \/ Costs(1) /\ UNCHANGED <<pool, linked>>
    /\ \/ /\ src[h] < Len(Subscription)
          /\ src' = [src EXCEPT ![h] = @ + 1]
          /\ UNCHANGED pc
       \/ /\ src[h] = Len(Subscription)
          /\ Becomes(h, "save")
          /\ UNCHANGED src
    /\ UNCHANGED <<file, boot, cooling, leases, cache, tunnel, children,
                   tlock, prov, lid, cand, pick, granted, told>>

(* save_pool: never with an empty pool.                                    *)
SavePool(h) ==
    /\ pc[h] = "save"
    /\ file' = IF pool = <<>> THEN file ELSE pool
    /\ Answer(h)
    /\ UNCHANGED <<pool, linked, boot, cooling, leases, cache, tunnel,
                   children, tlock, counts, granted, told>>

-----------------------------------------------------------------------------
(* Start, clock and network                                                *)

(* main fetches the sources, then loads the saved pool in its own order:   *)
(* saved servers come first, and only a fetched one carries its link.      *)
BootFetch ==
    /\ ~Serving
    /\ boot' = boot + 1
    /\ LET s == Subscription[boot + 1]
       IN  \/ /\ linked' = linked \cup {s}
              /\ pool' = Load(s)
              /\ Costs(0)
           \/ Costs(1) /\ UNCHANGED <<pool, linked>>
    /\ UNCHANGED <<file, cooling, leases, cache, tunnel, children, tlock,
                   locals, granted, told>>

Init ==
    /\ file \in {<<>>, Subscription}
    /\ pool = file
    /\ linked = {}
    /\ boot = 0
    /\ cooling = {}
    /\ leases = [l \in LeaseIds |-> NoLease]
    /\ cache = CacheSeed
    /\ tunnel = NoServer
    /\ children = {}
    /\ tlock = NoHandler
    /\ pc = [h \in Handlers |-> "idle"]
    /\ prov = [h \in Handlers |-> NoProvider]
    /\ lid = [h \in Handlers |-> 0]
    /\ cand = [h \in Handlers |-> {}]
    /\ pick = [h \in Handlers |-> NoServer]
    /\ src = [h \in Handlers |-> 0]
    /\ asked = 0 /\ reports = 0 /\ refreshes = 0 /\ restarts = 0
    /\ faults = 0
    /\ granted = [l \in LeaseIds |-> NoServer]
    /\ told = {}

(* The operator stops the supervisor, which stops its tunnel, and starts   *)
(* it again: threads, leases and cooldowns are gone, the two files stay.   *)
Restart ==
    /\ restarts < MaxRestarts
    /\ restarts' = restarts + 1
    /\ pool' = file
    /\ linked' = {}
    /\ boot' = 0
    /\ cooling' = {}
    /\ leases' = [l \in LeaseIds |-> NoLease]
    /\ tunnel' = NoServer
    /\ children' = {}
    /\ tlock' = NoHandler
    /\ pc' = [h \in Handlers |-> "idle"]
    /\ prov' = [h \in Handlers |-> NoProvider]
    /\ lid' = [h \in Handlers |-> 0]
    /\ cand' = [h \in Handlers |-> {}]
    /\ pick' = [h \in Handlers |-> NoServer]
    /\ src' = [h \in Handlers |-> 0]
    /\ UNCHANGED <<file, cache, asked, reports, refreshes, faults, granted,
                   told>>

(* A cooldown ends.                                                        *)
CoolEnds(k) ==
    /\ cooling' = cooling \ {k}
    /\ UNCHANGED <<store, leases, cache, tunnel, children, tlock, locals,
                   counts, granted, told>>

(* A row of the clean cache passes its TTL.                                *)
CacheStale(r) ==
    /\ cache' = cache \ {r}
    /\ UNCHANGED <<store, cooling, leases, tunnel, children, tlock, locals,
                   counts, granted, told>>

(* An xray child exits by itself.                                          *)
ChildExits(s) ==
    /\ Costs(1)
    /\ children' = children \ {s}
    /\ UNCHANGED <<store, cooling, leases, cache, tunnel, tlock, locals,
                   granted, told>>

Step(h) ==
    \/ LeasePing(h) \/ LeaseMint(h) \/ LeasePark(h) \/ LeaseNote(h)
    \/ AcquireEnter(h) \/ AcquireProbe(h) \/ AcquireUp(h) \/ AcquireDone(h)
    \/ AcquireFails(h) \/ Recheck(h) \/ Grant(h) \/ Fail(h)
    \/ Rotate(h) \/ FetchSource(h) \/ SavePool(h)

Request(h) ==
    /\ Serving
    /\ \/ \E p \in DirectProviders : LeaseDirect(h, p)
       \/ \E p \in TunnelProviders : LeaseStart(h, p)
       \/ \E l \in told, o \in Outcomes,
             v \in Providers \cup {NoProvider} : Report(h, l, o, v)
       \/ Refresh(h)

Next ==
    \/ BootFetch
    \/ \E h \in Handlers : Request(h) \/ Step(h)
    \/ \E k \in cooling : CoolEnds(k)
    \/ \E r \in cache : CacheStale(r)
    \/ \E s \in children : ChildExits(s)
    \/ Restart

(* A thread that runs goes on: pings, spawns, checks and fetches have      *)
(* timeouts, and the tunnel lock is held for a bounded time only.          *)
Fairness == \A h \in Handlers : WF_vars(Step(h))

Spec == Init /\ [][Next]_vars /\ Fairness

-----------------------------------------------------------------------------
(* Properties                                                              *)

TypeOK ==
    /\ pool \in Seq(Servers)
    /\ file \in Seq(Servers)
    /\ linked \subseteq Servers
    /\ boot \in 0..Len(Subscription)
    /\ cooling \subseteq Servers \X (Providers \cup {NoProvider})
    /\ leases \in [LeaseIds -> Lease]
    /\ cache \subseteq Servers \X TunnelProviders
    /\ tunnel \in Servers \cup {NoServer}
    /\ children \subseteq Servers
    /\ tlock \in Handlers \cup {NoHandler}
    /\ pc \in [Handlers -> PCs]
    /\ prov \in [Handlers -> Providers \cup {NoProvider}]
    /\ lid \in [Handlers -> LeaseIds \cup {0}]
    /\ cand \in [Handlers -> SUBSET Servers]
    /\ pick \in [Handlers -> Servers \cup {NoServer}]
    /\ src \in [Handlers -> 0..Len(Subscription)]
    /\ asked \in 0..MaxLeases
    /\ reports \in 0..MaxReports
    /\ refreshes \in 0..MaxRefreshes
    /\ restarts \in 0..MaxRestarts
    /\ faults \in 0..MaxFaults
    /\ granted \in [LeaseIds -> Servers \cup {NoServer}]
    /\ told \subseteq LeaseIds

(* One egress at a time (supervisor.py TunnelOwner): whatever the threads, *)
(* the spawn failures and the reports that rotate, at most one xray child  *)
(* runs; it is the installed tunnel or the one a lock holder is starting,  *)
(* so no exit path leaves a child behind.                                  *)
OneEgress ==
    \A s \in children :
        \/ s = tunnel
        \/ \E h \in Handlers : pc[h] \in {"spawn", "check"} /\ pick[h] = s
                               /\ tunnel = NoServer /\ children = {s}

(* The steps between minting a lease and answering.                        *)
Minted == {"note", "acquire", "probe", "spawn", "check", "recheck", "grant",
           "failed"}

(* "Drop the minted lease (no orphan records)" (do_POST): every lease that *)
(* is pooled has been told to a client or belongs to a request in flight.  *)
NoOrphanLease ==
    \A l \in LeaseIds : leases[l] # NoLease =>
        \/ l \in told
        \/ \E h \in Handlers : lid[h] = l /\ pc[h] \in Minted

(* "The lease and the tunnel must name the same server, or a later http429 *)
(* report cools the wrong one" (acquire): the record of a lease a client   *)
(* holds names the server whose proxy the client was given.                *)
LeaseNamesTunnel ==
    \A l \in told : leases[l] # NoLease => leases[l].server = granted[l]

(* "A miss minted an unprobed server [...] it must never be cached as      *)
(* clean" (Pool.lease): the lease path writes back hits only, so the clean *)
(* cache never gains a server it was not seeded with.                      *)
CacheOnlyRefreshed == cache \subseteq CacheSeed

(* Every request is answered: no thread waits for ever on the tunnel lock, *)
(* whatever fails while another holds it.                                  *)
EveryRequestAnswered ==
    \A h \in Handlers : pc[h] # "idle" ~> pc[h] = "idle"
=============================================================================
