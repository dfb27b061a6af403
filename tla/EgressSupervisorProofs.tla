---------------------- MODULE EgressSupervisorProofs ----------------------
(***************************************************************************)
(* Proofs about EgressSupervisor, for every subscription, any number of    *)
(* handler threads, providers, requests and failures.                      *)
(***************************************************************************)
EXTENDS EgressSupervisor, FiniteSetTheorems, TLAPS

InFlight == {"ping", "mint"} \cup Minted

(* What the locals of a thread hold at each step: a request in flight has  *)
(* a lease id of its own that no client knows yet, a minted lease names a  *)
(* server, and a thread that needs a server has picked one.                *)
LocalsInv ==
    /\ told \subseteq 1..asked
    /\ \A h \in Handlers :
        /\ pc[h] \in InFlight =>
            /\ lid[h] \in (1..asked) \ told
            /\ prov[h] \in TunnelProviders
        /\ pc[h] \in Minted => leases[lid[h]].server \in Servers
        /\ pc[h] \in {"note", "spawn", "check", "grant"} =>
            pick[h] \in Servers
        /\ pc[h] = "rotate" => lid[h] \in LeaseIds
        /\ pc[h] = "fetch" => src[h] \in 1..Len(Subscription)
    /\ \A h, g \in Handlers :
        /\ h # g
        /\ pc[h] \in InFlight
        /\ pc[g] \in InFlight
        => lid[h] # lid[g]

TypeInv == TypeOK /\ LocalsInv

---------------------------------------------------------------------------
(* The constants and the choice of a server.                               *)

LEMMA ServersFinite ==
    /\ IsFiniteSet(Servers)
    /\ Len(Subscription) \in Nat \ {0}
    /\ \A i \in 1..Len(Subscription) : Subscription[i] \in Servers
<1>1. /\ Len(Subscription) \in Nat \ {0}
      /\ DOMAIN Subscription = 1..Len(Subscription)
  BY ConstantsAssumption DEF ConstantsAssumption
<1>2. IsFiniteSet(DOMAIN Subscription)
  BY <1>1, FS_Interval
<1>3. Subscription \in Surjection(DOMAIN Subscription, Servers)
  BY ConstantsAssumption DEF ConstantsAssumption, Servers, Surjection
<1>4. IsFiniteSet(Servers)
  BY <1>2, <1>3, FS_Surjection
<1> QED
  BY <1>1, <1>4 DEF Servers

LEMMA BoundTypes ==
    /\ MaxLeases \in Nat /\ MaxReports \in Nat /\ MaxRefreshes \in Nat
    /\ MaxRestarts \in Nat /\ MaxFaults \in Nat
  BY ConstantsAssumption DEF ConstantsAssumption

(* A server that is wanted from a set is in it.                            *)
LEMMA WantedIn ==
    ASSUME NEW s, NEW prefer, NEW S, Wanted(s, prefer, S)
    PROVE  s \in S
  BY DEF Wanted, IsFirst

(* The pool and the saved order stay sequences of servers.                 *)
LEMMA LoadType ==
    ASSUME TypeOK, NEW s \in Servers
    PROVE  Load(s) \in Seq(Servers)
  BY DEF Load, TypeOK

LEMMA UsableType ==
    ASSUME TypeOK, NEW p
    PROVE  Usable(p) \subseteq Servers
  BY DEF Usable, TypeOK

(* The number of failures a probe costs is a number.                       *)
LEMMA CostType ==
    ASSUME NEW S \in SUBSET Servers
    PROVE  Cardinality(S) \in Nat
  BY ServersFinite, FS_Subset, FS_CardinalityType
---------------------------------------------------------------------------
(* Types and locals.                                                       *)

(* A step of one thread that keeps the leases, within the steps that hold  *)
(* one, keeps what the locals say.                                         *)
LEMMA LocalsKept ==
    ASSUME TypeInv, NEW h \in Handlers,
           UNCHANGED <<told, asked, lid, prov, leases>>,
           \A g \in Handlers : g # h =>
               pc'[g] = pc[g] /\ pick'[g] = pick[g] /\ src'[g] = src[g],
           pc'[h] \in InFlight => pc[h] \in InFlight,
           pc'[h] \in Minted => pc[h] \in Minted,
           pc'[h] \in {"note", "spawn", "check", "grant"} =>
               pick'[h] \in Servers,
           pc'[h] = "rotate" => pc[h] = "rotate",
           pc'[h] = "fetch" => src'[h] \in 1..Len(Subscription)
    PROVE  LocalsInv'
<1>1. \A g \in Handlers :
        /\ pc'[g] \in InFlight => pc[g] \in InFlight
        /\ pc'[g] \in Minted => pc[g] \in Minted
        /\ pc'[g] = "rotate" => pc[g] = "rotate"
  OBVIOUS
<1>2. \A g \in Handlers :
        /\ pc'[g] \in {"note", "spawn", "check", "grant"} =>
            pick'[g] \in Servers
        /\ pc'[g] = "fetch" => src'[g] \in 1..Len(Subscription)
  BY DEF TypeInv, LocalsInv
<1> QED
  BY <1>1, <1>2 DEF TypeInv, LocalsInv

LEMMA TypeStep == TypeInv /\ [Next]_vars => TypeInv'
<1> SUFFICES ASSUME TypeInv, [Next]_vars PROVE TypeInv'
  OBVIOUS
<1> USE ServersFinite, BoundTypes
    DEF PCs, InFlight, Minted, LeaseIds, Lease, NoLease, Providers
<1>1. CASE BootFetch
  <2>1. Subscription[boot + 1] \in Servers /\ boot' \in 0..Len(Subscription)
    BY <1>1 DEF TypeInv, TypeOK, BootFetch, Serving
  <2>2. pool' \in Seq(Servers) /\ linked' \subseteq Servers
        /\ faults' \in 0..MaxFaults
    <3>1. Load(Subscription[boot + 1]) \in Seq(Servers)
      BY <2>1, LoadType DEF TypeInv
    <3>2. \/ /\ linked' = linked \cup {Subscription[boot + 1]}
             /\ pool' = Load(Subscription[boot + 1])
          \/ UNCHANGED <<pool, linked>>
      BY <1>1 DEF BootFetch
    <3>3. faults' \in 0..MaxFaults
      BY <1>1 DEF TypeInv, TypeOK, BootFetch, Costs
    <3>4. pool \in Seq(Servers) /\ linked \subseteq Servers
      BY DEF TypeInv, TypeOK
    <3> QED
      BY <2>1, <3>1, <3>2, <3>3, <3>4
  <2>3. TypeOK'
    <3>1. /\ UNCHANGED <<file, cooling, leases, cache, tunnel, children, tlock,
                          locals, granted, told>>
          /\ UNCHANGED <<asked, reports, refreshes, restarts>>
      BY <1>1 DEF BootFetch, Costs
    <3> QED
      BY <2>1, <2>2, <3>1 DEF TypeInv, TypeOK, locals
  <2>4. LocalsInv'
    BY <1>1 DEF TypeInv, LocalsInv, BootFetch, Costs, locals
  <2> QED
    BY <2>3, <2>4 DEF TypeInv
<1>2. CASE \E h \in Handlers, p \in DirectProviders : LeaseDirect(h, p)
  <2> PICK h \in Handlers, p \in DirectProviders : LeaseDirect(h, p)
    BY <1>2
  <2>1. TypeOK'
    BY SMTT(20)
       DEF TypeInv, TypeOK, LocalsInv, LeaseDirect, Tell, store, locals, counts
  <2>2. LocalsInv'
    BY DEF TypeInv, TypeOK, LocalsInv, LeaseDirect, Tell, store, locals, counts
  <2> QED
    BY <2>1, <2>2 DEF TypeInv
<1>3. CASE \E h \in Handlers, p \in TunnelProviders : LeaseStart(h, p)
  <2> PICK h \in Handlers, p \in TunnelProviders : LeaseStart(h, p)
    BY <1>3
  <2>1. asked' \in 0..MaxLeases /\ asked + 1 \in LeaseIds /\ p \in Providers
    BY DEF TypeInv, TypeOK, LeaseStart
  <2>2. Usable(p) \subseteq Servers
    BY UsableType DEF TypeInv
  <2>3. TypeOK'
    BY <2>1, <2>2 DEF TypeInv, TypeOK, LeaseStart, Becomes, store
  <2>4. LocalsInv'
    BY DEF TypeInv, TypeOK, LocalsInv, LeaseStart, Becomes, store
  <2> QED
    BY <2>3, <2>4 DEF TypeInv
<1>4. CASE \E h \in Handlers, l \in told, o \in Outcomes,
             v \in Providers \cup {NoProvider} : Report(h, l, o, v)
  <2> PICK h \in Handlers, l \in told, o \in Outcomes,
             v \in Providers \cup {NoProvider} : Report(h, l, o, v)
    BY <1>4
  <2>1. /\ leases[l] \in Lease /\ l \in LeaseIds
        /\ cooling' \subseteq Servers \X (Providers \cup {NoProvider})
    BY DEF TypeInv, TypeOK, LocalsInv, Report
  <2>2. /\ leases' \in [LeaseIds -> Lease]
        /\ \A k \in LeaseIds : k # l => leases'[k] = leases[k]
    BY DEF TypeInv, TypeOK, Report
  <2>3. /\ reports' \in 0..MaxReports
        /\ UNCHANGED <<store, cache, tunnel, children, tlock, asked,
                       refreshes, restarts, faults, granted, told>>
    BY DEF TypeInv, TypeOK, Report
  <2>4. CASE UNCHANGED locals
    <3>1. TypeOK'
      BY <2>1, <2>2, <2>3, <2>4 DEF TypeInv, TypeOK, store, locals
    <3>2. LocalsInv'
      BY <2>1, <2>2, <2>3, <2>4 DEF TypeInv, TypeOK, LocalsInv, store, locals
    <3> QED
      BY <3>1, <3>2 DEF TypeInv
  <2>5. CASE /\ Becomes(h, "rotate")
             /\ prov' = [prov EXCEPT ![h] = v]
             /\ lid' = [lid EXCEPT ![h] = l]
             /\ UNCHANGED <<cand, pick, src>>
    <3>1. TypeOK'
      BY <2>1, <2>2, <2>3, <2>5 DEF TypeInv, TypeOK, store, Becomes
    <3>2. LocalsInv'
      BY <2>1, <2>2, <2>3, <2>5
         DEF TypeInv, TypeOK, LocalsInv, store, Becomes
    <3> QED
      BY <3>1, <3>2 DEF TypeInv
  <2> QED
    BY <2>4, <2>5 DEF Report
<1>5. CASE \E h \in Handlers : Refresh(h)
  <2> PICK h \in Handlers : Refresh(h)
    BY <1>5
  <2>1. TypeOK'
    BY DEF TypeInv, TypeOK, LocalsInv, Refresh, Becomes, store, locals, counts
  <2>2. LocalsInv'
    BY DEF TypeInv, TypeOK, LocalsInv, Refresh, Becomes, store, locals, counts
  <2> QED
    BY <2>1, <2>2 DEF TypeInv
<1>6. CASE \E h \in Handlers : LeasePing(h)
  <2> PICK h \in Handlers : LeasePing(h)
    BY <1>6
  <2>1. /\ pick' \in [Handlers -> Servers \cup {NoServer}]
        /\ cand' \in [Handlers -> SUBSET Servers]
        /\ pc' \in [Handlers -> PCs]
    BY DEF TypeInv, TypeOK, LeasePing, Becomes
  <2>2. \E S \in SUBSET Servers : Costs(Cardinality(S))
    <3>1. {s \in cand[h] : <<s, prov[h]>> \in cache} \subseteq Servers
      BY DEF TypeInv, TypeOK
    <3> QED
      BY <3>1 DEF LeasePing
  <2>3. faults' \in 0..MaxFaults
    <3>1. PICK S \in SUBSET Servers : Costs(Cardinality(S))
      BY <2>2
    <3>2. Cardinality(S) \in Nat
      BY CostType
    <3> QED
      BY <3>1, <3>2 DEF TypeInv, TypeOK, Costs
  <2>4. UNCHANGED <<store, cooling, leases, cache, tunnel, children, tlock,
                   prov, lid, granted, told, src, asked, reports, refreshes,
                   restarts>>
    BY <2>2 DEF LeasePing, Costs
  <2>5. TypeOK'
    BY <2>1, <2>3, <2>4 DEF TypeInv, TypeOK, store
  <2>6. LocalsInv'
    BY <2>4, LocalsKept DEF TypeInv, TypeOK, LeasePing, Becomes
  <2> QED
    BY <2>5, <2>6 DEF TypeInv
<1>7. CASE \E h \in Handlers : LeaseMint(h)
  <2> PICK h \in Handlers : LeaseMint(h)
    BY <1>7
  <2>1. PICK s \in Servers :
          /\ Wanted(s, pick[h], Usable(prov[h]))
          /\ leases' = [leases EXCEPT ![lid[h]] =
                          [server |-> s, provider |-> prov[h]]]
    BY DEF LeaseMint
  <2>2. /\ pc' = [pc EXCEPT ![h] =
                    IF pick[h] \in Usable(prov[h]) THEN "note" ELSE "acquire"]
        /\ pick' = [pick EXCEPT ![h] =
                      IF pick[h] \in Usable(prov[h]) THEN @ ELSE NoServer]
        /\ pick[h] \in Usable(prov[h]) => pick[h] \in Servers
    BY UsableType DEF TypeInv, LeaseMint, Becomes
  <2>3. /\ pc[h] = "mint"
        /\ UNCHANGED <<store, cooling, cache, tunnel, children, tlock, prov,
                       lid, cand, counts, granted, told, src>>
    BY DEF LeaseMint
  <2>4. leases' \in [LeaseIds -> Lease] /\ leases'[lid[h]].server \in Servers
    BY <2>1, <2>3 DEF TypeInv, TypeOK, LocalsInv
  <2>5. \A g \in Handlers :
          g # h /\ pc[g] \in InFlight => leases'[lid[g]] = leases[lid[g]]
    BY <2>1, <2>3 DEF TypeInv, TypeOK, LocalsInv
  <2>6. TypeOK'
    BY <2>2, <2>3, <2>4 DEF TypeInv, TypeOK, store, counts
  <2>7. LocalsInv'
    <3>1. \A g \in Handlers : pc'[g] \in InFlight => pc[g] \in InFlight
      BY <2>2, <2>3 DEF TypeInv, TypeOK
    <3>2. \A g \in Handlers :
            pc'[g] \in Minted => leases'[lid[g]].server \in Servers
      BY <2>2, <2>3, <2>4, <2>5 DEF TypeInv, TypeOK, LocalsInv
    <3>3. \A g \in Handlers : pc'[g] \in {"note", "spawn", "check", "grant"} =>
            pick'[g] \in Servers
      BY <2>2, <2>3 DEF TypeInv, TypeOK, LocalsInv
    <3> QED
      BY <2>2, <2>3, <3>1, <3>2, <3>3
         DEF TypeInv, TypeOK, LocalsInv, store, counts
  <2> QED
    BY <2>6, <2>7 DEF TypeInv
<1>8. CASE \E h \in Handlers : LeasePark(h)
  <2> PICK h \in Handlers : LeasePark(h)
    BY <1>8
  <2>1. TypeOK'
    BY DEF TypeInv, TypeOK, LocalsInv, LeasePark, Answer, store, locals, counts
  <2>2. LocalsInv'
    BY DEF TypeInv, TypeOK, LocalsInv, LeasePark, Answer, store, locals, counts
  <2> QED
    BY <2>1, <2>2 DEF TypeInv
<1>9. CASE \E h \in Handlers : LeaseNote(h)
  <2> PICK h \in Handlers : LeaseNote(h)
    BY <1>9
  <2>1. TypeOK'
    BY DEF TypeInv, TypeOK, LocalsInv, LeaseNote, Becomes, store, locals,
       counts
  <2>2. LocalsInv'
    BY DEF TypeInv, TypeOK, LocalsInv, LeaseNote, Becomes, store, locals,
       counts
  <2> QED
    BY <2>1, <2>2 DEF TypeInv
<1>10. CASE \E h \in Handlers : AcquireEnter(h)
  <2> PICK h \in Handlers : AcquireEnter(h)
    BY <1>10
  <2>1. /\ cand' \in [Handlers -> SUBSET Servers]
        /\ tlock' \in Handlers \cup {NoHandler}
    <3>1. Usable(prov[h]) \subseteq Servers
      BY UsableType DEF TypeInv
    <3>2. cand' = cand \/ cand' = [cand EXCEPT ![h] = Usable(prov[h])]
      BY DEF AcquireEnter
    <3>3. tlock' \in {h, tlock}
      BY DEF AcquireEnter
    <3> QED
      BY ZenonT(30), <3>1, <3>2, <3>3 DEF TypeInv, TypeOK
  <2>2. /\ pc[h] = "acquire"
        /\ \E step \in {"failed", "recheck", "probe"} : Becomes(h, step)
        /\ UNCHANGED <<store, cooling, leases, cache, tunnel, children, prov,
                       lid, pick, counts, granted, told, src>>
    BY DEF AcquireEnter
  <2>3. TypeOK'
    BY <2>1, <2>2 DEF TypeInv, TypeOK, store, counts, Becomes
  <2>4. LocalsInv'
    BY <2>2 DEF TypeInv, TypeOK, LocalsInv, store, counts, Becomes
  <2> QED
    BY <2>3, <2>4 DEF TypeInv
<1>11. CASE \E h \in Handlers : AcquireProbe(h)
  <2> PICK h \in Handlers : AcquireProbe(h)
    BY <1>11
  <2>1. PICK dead \in SUBSET FirstFew(cand[h], ProbeBatch) :
          /\ Costs(Cardinality(dead))
          /\ cooling' = cooling \cup {<<s, prov[h]>> : s \in dead}
    BY DEF AcquireProbe
  <2>2. dead \subseteq Servers /\ Cardinality(dead) \in Nat
    BY CostType DEF TypeInv, TypeOK, FirstFew
  <2>3. /\ cooling' \subseteq Servers \X (Providers \cup {NoProvider})
        /\ faults' \in 0..MaxFaults
        /\ cand' \in [Handlers -> SUBSET Servers]
    BY <2>1, <2>2 DEF TypeInv, TypeOK, AcquireProbe, Costs
  <2>4. /\ pc[h] = "probe"
        /\ UNCHANGED <<store, leases, cache, prov, lid, granted, told, src,
                       asked, reports, refreshes, restarts>>
    BY <2>1 DEF AcquireProbe, Costs
  <2>5. /\ \/ Becomes(h, "failed") /\ UNCHANGED pick
           \/ Becomes(h, "recheck") /\ UNCHANGED pick
           \/ \E s \in Servers : Becomes(h, "spawn")
                                /\ pick' = [pick EXCEPT ![h] = s]
        /\ tunnel' \in Servers \cup {NoServer}
        /\ children' \subseteq Servers
        /\ tlock' \in Handlers \cup {NoHandler}
    BY DEF TypeInv, TypeOK, AcquireProbe
  <2>6. /\ pc' \in [Handlers -> PCs]
        /\ pick' \in [Handlers -> Servers \cup {NoServer}]
        /\ \A g \in Handlers : g # h => pc'[g] = pc[g] /\ pick'[g] = pick[g]
        /\ pc'[h] \in {"failed", "recheck", "spawn"}
        /\ pc'[h] = "spawn" => pick'[h] \in Servers
    BY ZenonT(30), <2>5 DEF TypeInv, TypeOK, Becomes
  <2>7. TypeOK'
    BY <2>3, <2>4, <2>5, <2>6 DEF TypeInv, TypeOK, store
  <2>8. LocalsInv'
    BY <2>4, <2>6, LocalsKept
  <2> QED
    BY <2>7, <2>8 DEF TypeInv
<1>12. CASE \E h \in Handlers : AcquireUp(h)
  <2> PICK h \in Handlers : AcquireUp(h)
    BY <1>12
  <2>1. TypeOK'
    BY DEF TypeInv, TypeOK, LocalsInv, AcquireUp, Becomes, store, locals,
       counts
  <2>2. LocalsInv'
    BY DEF TypeInv, TypeOK, LocalsInv, AcquireUp, Becomes, store, locals,
       counts
  <2> QED
    BY <2>1, <2>2 DEF TypeInv
<1>13. CASE \E h \in Handlers : AcquireDone(h)
  <2> PICK h \in Handlers : AcquireDone(h)
    BY <1>13
  <2>1. TypeOK'
    BY DEF TypeInv, TypeOK, LocalsInv, AcquireDone, Becomes, store, locals,
       counts
  <2>2. LocalsInv'
    BY DEF TypeInv, TypeOK, LocalsInv, AcquireDone, Becomes, store, locals,
       counts
  <2> QED
    BY <2>1, <2>2 DEF TypeInv
<1>14. CASE \E h \in Handlers : AcquireFails(h)
  <2> PICK h \in Handlers : AcquireFails(h)
    BY <1>14
  <2>1. TypeOK'
    BY DEF TypeInv, TypeOK, LocalsInv, AcquireFails, Becomes, Costs, store,
       locals, counts
  <2>2. LocalsInv'
    BY DEF TypeInv, TypeOK, LocalsInv, AcquireFails, Becomes, Costs, store,
       locals, counts
  <2> QED
    BY <2>1, <2>2 DEF TypeInv
<1>15. CASE \E h \in Handlers : Recheck(h)
  <2> PICK h \in Handlers : Recheck(h)
    BY <1>15
  <2>1. /\ pc[h] = "recheck"
        /\ tlock' = NoHandler
        /\ faults' \in 0..MaxFaults
        /\ UNCHANGED <<store, cooling, leases, cache, tunnel, children, prov,
                       lid, cand, granted, told, src, asked, reports,
                       refreshes, restarts>>
    BY DEF TypeInv, TypeOK, Recheck, Costs
  <2>2. \/ \E s \in Servers :
             Becomes(h, "grant") /\ pick' = [pick EXCEPT ![h] = s]
        \/ Becomes(h, "failed") /\ UNCHANGED pick
    BY DEF TypeInv, TypeOK, Recheck, Alive
  <2>3. /\ pc' \in [Handlers -> PCs]
        /\ pick' \in [Handlers -> Servers \cup {NoServer}]
        /\ \A g \in Handlers : g # h => pc'[g] = pc[g] /\ pick'[g] = pick[g]
        /\ pc'[h] \in {"failed", "grant"}
        /\ pc'[h] = "grant" => pick'[h] \in Servers
    <3>1. CASE \E s \in Servers :
                 Becomes(h, "grant") /\ pick' = [pick EXCEPT ![h] = s]
      BY <3>1 DEF TypeInv, TypeOK, Becomes
    <3>2. CASE Becomes(h, "failed") /\ UNCHANGED pick
      BY <3>2 DEF TypeInv, TypeOK, Becomes
    <3> QED
      BY <2>2, <3>1, <3>2
  <2>4. TypeOK'
    BY <2>1, <2>3 DEF TypeInv, TypeOK, store
  <2>5. LocalsInv'
    BY <2>1, <2>3, LocalsKept
  <2> QED
    BY <2>4, <2>5 DEF TypeInv
<1>16. CASE \E h \in Handlers : Grant(h)
  <2> PICK h \in Handlers : Grant(h)
    BY <1>16
  <2>1. /\ pc[h] = "grant" /\ lid[h] \in LeaseIds /\ pick[h] \in Servers
        /\ leases[lid[h]] \in Lease
        /\ leases' = [leases EXCEPT ![lid[h]].server = pick[h]]
        /\ Tell(lid[h], pick[h])
        /\ Answer(h)
        /\ UNCHANGED <<store, cooling, cache, tunnel, children, tlock, counts>>
    BY SMTT(20) DEF TypeInv, TypeOK, LocalsInv, Grant
  <2>2. /\ leases' \in [LeaseIds -> Lease]
        /\ \A k \in LeaseIds : k # lid[h] => leases'[k] = leases[k]
    BY <2>1 DEF TypeInv, TypeOK
  <2>3. TypeOK'
    <3>1. granted' \in [LeaseIds -> Servers \cup {NoServer}]
          /\ told' \subseteq LeaseIds
      BY <2>1 DEF TypeInv, TypeOK, Tell
    <3>2. /\ pc' \in [Handlers -> PCs]
          /\ prov' \in [Handlers -> Providers \cup {NoProvider}]
          /\ lid' \in [Handlers -> LeaseIds \cup {0}]
          /\ cand' \in [Handlers -> SUBSET Servers]
          /\ pick' \in [Handlers -> Servers \cup {NoServer}]
          /\ src' \in [Handlers -> 0..Len(Subscription)]
      BY SMTT(20), <2>1 DEF TypeInv, TypeOK, Answer
    <3> QED
      BY <2>1, <2>2, <3>1, <3>2 DEF TypeInv, TypeOK, store, counts
  <2>4. LocalsInv'
    BY SMTT(20), <2>1, <2>2
       DEF TypeInv, TypeOK, LocalsInv, counts, Answer, Tell
  <2> QED
    BY <2>3, <2>4 DEF TypeInv
<1>17. CASE \E h \in Handlers : Fail(h)
  <2> PICK h \in Handlers : Fail(h)
    BY <1>17
  <2>0. /\ pc[h] = "failed" /\ lid[h] \in LeaseIds
        /\ pick[h] # NoServer => pick[h] \in Servers
        /\ Prefer(h) \in Servers
    BY DEF TypeInv, TypeOK, LocalsInv, Fail, Prefer
  <2>1. /\ pc[h] = "failed" /\ lid[h] \in LeaseIds
        /\ \E s \in Servers : cooling' = cooling \cup {<<s, prov[h]>>}
        /\ leases' = [leases EXCEPT ![lid[h]] = NoLease]
        /\ Answer(h)
        /\ UNCHANGED <<store, cache, tunnel, children, tlock, counts, granted,
                       told>>
    BY <2>0 DEF Fail
  <2>2. /\ leases' \in [LeaseIds -> Lease]
        /\ \A k \in LeaseIds : k # lid[h] => leases'[k] = leases[k]
    BY <2>1 DEF TypeInv, TypeOK
  <2>3. TypeOK'
    BY <2>1, <2>2 DEF TypeInv, TypeOK, store, counts, Answer
  <2>4. LocalsInv'
    BY <2>1, <2>2 DEF TypeInv, TypeOK, LocalsInv, counts, Answer
  <2> QED
    BY <2>3, <2>4 DEF TypeInv
<1>18. CASE \E h \in Handlers : Rotate(h)
  <2> PICK h \in Handlers : Rotate(h)
    BY <1>18
  <2>1. TypeOK'
    BY DEF TypeInv, TypeOK, LocalsInv, Rotate, Answer, store, locals, counts
  <2>2. LocalsInv'
    BY DEF TypeInv, TypeOK, LocalsInv, Rotate, Answer, store, locals, counts
  <2> QED
    BY <2>1, <2>2 DEF TypeInv
<1>19. CASE \E h \in Handlers : FetchSource(h)
  <2> PICK h \in Handlers : FetchSource(h)
    BY <1>19
  <2>1. /\ pc[h] = "fetch" /\ Subscription[src[h]] \in Servers
        /\ UNCHANGED <<file, boot, cooling, leases, cache, tunnel, children,
                       tlock, prov, lid, cand, pick, granted, told, asked,
                       reports, refreshes, restarts>>
    BY DEF TypeInv, LocalsInv, FetchSource, Costs
  <2>2. /\ pool' \in Seq(Servers) /\ linked' \subseteq Servers
        /\ faults' \in 0..MaxFaults
    BY <2>1, LoadType DEF TypeInv, TypeOK, FetchSource, Costs
  <2>3. \/ /\ src[h] < Len(Subscription)
           /\ src' = [src EXCEPT ![h] = @ + 1]
           /\ UNCHANGED pc
        \/ Becomes(h, "save") /\ UNCHANGED src
    BY DEF FetchSource
  <2>4. /\ pc' \in [Handlers -> PCs]
        /\ src' \in [Handlers -> 0..Len(Subscription)]
        /\ \A g \in Handlers : g # h => pc'[g] = pc[g] /\ src'[g] = src[g]
        /\ pc'[h] \in {"fetch", "save"}
        /\ pc'[h] = "fetch" => src'[h] \in 1..Len(Subscription)
    <3>1. src[h] \in 1..Len(Subscription)
      BY <2>1 DEF TypeInv, LocalsInv
    <3>2. CASE /\ src[h] < Len(Subscription)
               /\ src' = [src EXCEPT ![h] = @ + 1]
               /\ UNCHANGED pc
      BY <2>1, <3>1, <3>2 DEF TypeInv, TypeOK
    <3>3. CASE Becomes(h, "save") /\ UNCHANGED src
      BY <3>3 DEF TypeInv, TypeOK, Becomes
    <3> QED
      BY <2>3, <3>2, <3>3
  <2>5. TypeOK'
    BY <2>1, <2>2, <2>4 DEF TypeInv, TypeOK
  <2>6. LocalsInv'
    BY <2>1, <2>4, LocalsKept
  <2> QED
    BY <2>5, <2>6 DEF TypeInv
<1>20. CASE \E h \in Handlers : SavePool(h)
  <2> PICK h \in Handlers : SavePool(h)
    BY <1>20
  <2>1. TypeOK'
    BY DEF TypeInv, TypeOK, LocalsInv, SavePool, Answer, store, locals, counts
  <2>2. LocalsInv'
    BY DEF TypeInv, TypeOK, LocalsInv, SavePool, Answer, store, locals, counts
  <2> QED
    BY <2>1, <2>2 DEF TypeInv
<1>21. CASE \E k \in cooling : CoolEnds(k)
  <2> PICK k \in cooling : CoolEnds(k)
    BY <1>21
  <2>1. TypeOK'
    BY DEF TypeInv, TypeOK, LocalsInv, CoolEnds, store, locals, counts
  <2>2. LocalsInv'
    BY DEF TypeInv, TypeOK, LocalsInv, CoolEnds, store, locals, counts
  <2> QED
    BY <2>1, <2>2 DEF TypeInv
<1>22. CASE \E r \in cache : CacheStale(r)
  <2> PICK r \in cache : CacheStale(r)
    BY <1>22
  <2>1. TypeOK'
    BY DEF TypeInv, TypeOK, LocalsInv, CacheStale, store, locals, counts
  <2>2. LocalsInv'
    BY DEF TypeInv, TypeOK, LocalsInv, CacheStale, store, locals, counts
  <2> QED
    BY <2>1, <2>2 DEF TypeInv
<1>23. CASE \E s \in children : ChildExits(s)
  <2> PICK s \in children : ChildExits(s)
    BY <1>23
  <2>1. TypeOK'
    BY DEF TypeInv, TypeOK, LocalsInv, ChildExits, Costs, store, locals, counts
  <2>2. LocalsInv'
    BY DEF TypeInv, TypeOK, LocalsInv, ChildExits, Costs, store, locals, counts
  <2> QED
    BY <2>1, <2>2 DEF TypeInv
<1>24. CASE Restart
  <2>1. TypeOK'
    BY <1>24 DEF TypeInv, TypeOK, LocalsInv, Restart, store, locals, counts
  <2>2. LocalsInv'
    BY <1>24 DEF TypeInv, TypeOK, LocalsInv, Restart, store, locals, counts
  <2> QED
    BY <2>1, <2>2 DEF TypeInv
<1>25. CASE UNCHANGED vars
  BY <1>25 DEF TypeInv, TypeOK, LocalsInv, vars, store, locals, counts
<1> QED
  BY <1>1, <1>2, <1>3, <1>4, <1>5, <1>6, <1>7, <1>8, <1>9, <1>10, <1>11,
     <1>12, <1>13, <1>14, <1>15, <1>16, <1>17, <1>18, <1>19, <1>20, <1>21,
     <1>22, <1>23, <1>24, <1>25
     DEF Next, Request, Step

LEMMA TypeInit == Init => TypeInv
<1> SUFFICES ASSUME Init PROVE TypeInv
  OBVIOUS
<1>1. file \in Seq(Servers) /\ pool \in Seq(Servers)
  <2>1. file \in {<<>>, Subscription} /\ pool = file
    BY DEF Init
  <2>2. <<>> \in Seq(Servers) /\ Subscription \in Seq(Servers)
    BY ConstantsAssumption DEF ConstantsAssumption
  <2> QED
    BY <2>1, <2>2
<1>2. leases \in [LeaseIds -> Lease]
  BY DEF Init, Lease, NoLease
<1>3. TypeOK
  BY <1>1, <1>2, ServersFinite, BoundTypes, ConstantsAssumption
     DEF Init, TypeOK, PCs, ConstantsAssumption
<1>4. LocalsInv
  BY DEF Init, LocalsInv, InFlight, Minted
<1> QED
  BY <1>3, <1>4 DEF TypeInv

LEMMA TypeInvariant == Spec => []TypeInv
  BY TypeInit, TypeStep, PTL DEF Spec

(* Every variable keeps its type: in particular no failed start, dead      *)
(* probe or rejected report ever cools or leases a server that is not one, *)
(* and every thread knows the server and the lease its step works on.      *)
THEOREM TypeCorrectness == Spec => []TypeOK
  BY TypeInvariant, PTL DEF TypeInv

---------------------------------------------------------------------------
(* One tunnel.                                                             *)

Starting == {"spawn", "check"}

(* Who is in a step that needs the tunnel lock holds it, so at most one    *)
(* thread starts a child; between starts the only child is the tunnel's.   *)
TunnelInv ==
    /\ \A h \in Handlers : pc[h] \in Locked => tlock = h
    /\ \A h \in Handlers : pc[h] \in Starting =>
        tunnel = NoServer /\ children \subseteq {pick[h]}
    /\ (\A h \in Handlers : pc[h] \notin Starting) =>
        children \subseteq {tunnel}

(* Steps of a thread that neither take nor give the lock, nor touch the    *)
(* tunnel, keep the invariant.                                             *)
LEMMA TunnelKept ==
    ASSUME TypeInv, TunnelInv, NEW h \in Handlers,
           UNCHANGED <<tlock, tunnel>>,
           children' \subseteq children,
           \A g \in Handlers : g # h => pc'[g] = pc[g] /\ pick'[g] = pick[g],
           pc[h] \notin Starting, pc'[h] \notin Locked
    PROVE  TunnelInv'
  BY DEF TunnelInv, Starting, Locked

LEMMA TunnelStep == TypeInv /\ TunnelInv /\ [Next]_vars => TunnelInv'
<1> SUFFICES ASSUME TypeInv, TunnelInv, [Next]_vars PROVE TunnelInv'
  OBVIOUS
<1> USE ConstantsAssumption DEF ConstantsAssumption
<1>1. CASE BootFetch
  <2>1. UNCHANGED <<tlock, tunnel, children, pc, pick>>
    BY <1>1 DEF BootFetch, locals
  <2> QED
    BY <2>1 DEF TunnelInv
<1>2. CASE \E h \in Handlers, p \in DirectProviders : LeaseDirect(h, p)
  BY <1>2, TunnelKept DEF LeaseDirect, Tell, locals, TypeInv, TypeOK, Locked,
     Starting
<1>3. CASE \E h \in Handlers, p \in TunnelProviders : LeaseStart(h, p)
  BY ZenonT(30), <1>3, TunnelKept
     DEF LeaseStart, Becomes, locals, TypeInv, TypeOK,
     Locked, Starting
<1>4. CASE \E h \in Handlers, l \in told, o \in Outcomes,
             v \in Providers \cup {NoProvider} : Report(h, l, o, v)
  <2> PICK h \in Handlers, l \in told, o \in Outcomes,
             v \in Providers \cup {NoProvider} : Report(h, l, o, v)
    BY <1>4
  <2>1. /\ UNCHANGED <<tlock, tunnel, children>>
        /\ \A g \in Handlers : g # h => pc'[g] = pc[g] /\ pick'[g] = pick[g]
        /\ pc[h] \notin Starting /\ pc'[h] \notin Locked
    BY DEF Report, Becomes, locals, TypeInv, TypeOK, Locked, Starting
  <2> QED
    BY <2>1, TunnelKept
<1>5. CASE \E h \in Handlers : Refresh(h)
  BY <1>5, TunnelKept DEF Refresh, Becomes, locals, TypeInv, TypeOK, Locked,
     Starting
<1>6. CASE \E h \in Handlers : LeasePing(h)
  <2> PICK h \in Handlers : LeasePing(h)
    BY <1>6
  <2>1. /\ UNCHANGED <<tlock, tunnel, children>>
        /\ \A g \in Handlers : g # h => pc'[g] = pc[g] /\ pick'[g] = pick[g]
        /\ pc[h] \notin Starting /\ pc'[h] \notin Locked
    BY DEF LeasePing, Becomes, Costs, locals, TypeInv, TypeOK, Locked, Starting
  <2> QED
    BY <2>1, TunnelKept
<1>7. CASE \E h \in Handlers : LeaseMint(h)
  <2> PICK h \in Handlers : LeaseMint(h)
    BY <1>7
  <2>1. /\ UNCHANGED <<tlock, tunnel, children>>
        /\ \A g \in Handlers : g # h => pc'[g] = pc[g] /\ pick'[g] = pick[g]
        /\ pc[h] \notin Starting /\ pc'[h] \notin Locked
    BY DEF LeaseMint, Becomes, locals, TypeInv, TypeOK, Locked, Starting
  <2> QED
    BY <2>1, TunnelKept
<1>8. CASE \E h \in Handlers : LeasePark(h)
  <2> PICK h \in Handlers : LeasePark(h)
    BY <1>8
  <2>1. /\ UNCHANGED <<tlock, tunnel, children>>
        /\ \A g \in Handlers : g # h => pc'[g] = pc[g] /\ pick'[g] = pick[g]
        /\ pc[h] \notin Starting /\ pc'[h] \notin Locked
    BY DEF LeasePark, Answer, locals, TypeInv, TypeOK, Locked, Starting
  <2> QED
    BY <2>1, TunnelKept
<1>9. CASE \E h \in Handlers : LeaseNote(h)
  BY <1>9, TunnelKept DEF LeaseNote, Becomes, locals, TypeInv, TypeOK,
     Locked, Starting
<1>10. CASE \E h \in Handlers : AcquireEnter(h)
  <2> PICK h \in Handlers : AcquireEnter(h)
    BY <1>10
  <2>1. /\ tlock = NoHandler
        /\ \/ tlock' = h
           \/ tlock' = tlock /\ pc'[h] = "failed"
        /\ pc'[h] \in {"failed", "recheck", "probe"}
        /\ \A g \in Handlers : g # h => pc'[g] = pc[g]
        /\ UNCHANGED <<tunnel, children>>
    <3>1. tlock = NoHandler /\ UNCHANGED <<tunnel, children>>
      BY DEF AcquireEnter
    <3>2. \/ tlock' = tlock /\ Becomes(h, "failed")
          \/ tlock' = h /\ Becomes(h, "recheck")
          \/ tlock' = h /\ Becomes(h, "probe")
      BY DEF AcquireEnter
    <3> QED
      BY <3>1, <3>2 DEF Becomes, TypeInv, TypeOK
  <2>2. \A g \in Handlers : pc[g] \notin Locked
    BY <2>1 DEF TunnelInv
  <2>3. \A g \in Handlers : pc'[g] \notin Starting
    BY <2>1, <2>2 DEF Starting, Locked
  <2>4. \A g \in Handlers : pc'[g] \in Locked => tlock' = g
    BY <2>1, <2>2 DEF Locked
  <2>5. children' \subseteq {tunnel'}
    BY <2>1, <2>2 DEF TunnelInv, Starting, Locked
  <2> QED
    BY <2>3, <2>4, <2>5 DEF TunnelInv
<1>11. CASE \E h \in Handlers : AcquireProbe(h)
  <2> PICK h \in Handlers : AcquireProbe(h)
    BY <1>11
  <2>1. /\ pc[h] = "probe"
        /\ \A g \in Handlers : g # h => pc'[g] = pc[g]
    BY DEF AcquireProbe, Becomes, TypeInv, TypeOK
  <2>2. tlock = h /\ \A g \in Handlers : g # h => pc[g] \notin Locked
    BY <2>1 DEF TunnelInv, Locked
  <2>3. children \subseteq {tunnel}
    BY <2>1, <2>2 DEF TunnelInv, Starting, Locked
  <2>4. \/ /\ pc'[h] = "failed" /\ tlock' = NoHandler
           /\ UNCHANGED <<tunnel, children>>
        \/ /\ pc'[h] = "recheck" /\ UNCHANGED <<tlock, tunnel, children>>
        \/ /\ pc'[h] = "spawn" /\ tunnel' = NoServer /\ UNCHANGED tlock
           /\ children' = (children \ {tunnel}) \cup {pick'[h]}
    BY DEF AcquireProbe, Becomes, TypeInv, TypeOK
  <2>5. \A g \in Handlers : pc'[g] \in Locked => g = h /\ tlock' = h
    BY <2>1, <2>2, <2>4 DEF Locked
  <2>6. CASE pc'[h] = "spawn"
    <3>1. tunnel' = NoServer /\ children' \subseteq {pick'[h]}
      BY <2>3, <2>4, <2>6
    <3>2. \A g \in Handlers : pc'[g] \in Starting => g = h
      BY <2>5 DEF Starting, Locked
    <3> QED
      BY <2>5, <2>6, <3>1, <3>2 DEF TunnelInv, Starting
  <2>7. CASE pc'[h] # "spawn"
    <3>1. \A g \in Handlers : pc'[g] \notin Starting
      BY <2>4, <2>5, <2>7 DEF Starting, Locked
    <3>2. children' \subseteq {tunnel'}
      BY <2>3, <2>4, <2>7
    <3> QED
      BY <2>5, <3>1, <3>2 DEF TunnelInv
  <2> QED
    BY <2>6, <2>7
<1>12. CASE \E h \in Handlers : AcquireUp(h)
  BY <1>12, SMTT(30)
     DEF AcquireUp, Becomes, TunnelInv, Starting, Locked, TypeInv, TypeOK
<1>13. CASE \E h \in Handlers : AcquireDone(h)
  <2> PICK h \in Handlers : AcquireDone(h)
    BY <1>13
  <2>1. /\ pc[h] = "check" /\ tlock' = NoHandler /\ tunnel' = pick[h]
        /\ UNCHANGED <<children, pick>>
        /\ pc'[h] = "grant"
        /\ \A g \in Handlers : g # h => pc'[g] = pc[g]
    BY DEF AcquireDone, Becomes, TypeInv, TypeOK
  <2>2. /\ tlock = h /\ children \subseteq {pick[h]}
        /\ \A g \in Handlers : g # h => pc[g] \notin Locked
    BY <2>1 DEF TunnelInv, Locked, Starting
  <2> QED
    BY <2>1, <2>2 DEF TunnelInv, Starting, Locked
<1>14. CASE \E h \in Handlers : AcquireFails(h)
  BY <1>14 DEF AcquireFails, Becomes, Costs, TunnelInv, Starting, Locked,
     TypeInv, TypeOK
<1>15. CASE \E h \in Handlers : Recheck(h)
  <2> PICK h \in Handlers : Recheck(h)
    BY <1>15
  <2>1. /\ tlock' = NoHandler /\ pc[h] = "recheck"
        /\ UNCHANGED <<tunnel, children>>
        /\ \A g \in Handlers : g # h => pc'[g] = pc[g] /\ pick'[g] = pick[g]
        /\ pc'[h] \in {"grant", "failed"}
    BY SMTT(30) DEF Recheck, Becomes, TypeInv, TypeOK
  <2>2. tlock = h /\ \A g \in Handlers : g # h => pc[g] \notin Locked
    BY <2>1 DEF TunnelInv, Locked
  <2> QED
    BY <2>1, <2>2 DEF TunnelInv, Starting, Locked
<1>16. CASE \E h \in Handlers : Grant(h)
  BY ZenonT(30), <1>16, TunnelKept
     DEF Grant, Answer, Tell, locals, TypeInv, TypeOK,
     Locked, Starting
<1>17. CASE \E h \in Handlers : Fail(h)
  <2> PICK h \in Handlers : Fail(h)
    BY <1>17
  <2>1. /\ UNCHANGED <<tlock, tunnel, children>>
        /\ \A g \in Handlers : g # h => pc'[g] = pc[g] /\ pick'[g] = pick[g]
        /\ pc[h] \notin Starting /\ pc'[h] \notin Locked
    BY DEF Fail, Answer, locals, TypeInv, TypeOK, Locked, Starting
  <2> QED
    BY <2>1, TunnelKept
<1>18. CASE \E h \in Handlers : Rotate(h)
  BY <1>18 DEF Rotate, Answer, TunnelInv, Starting, Locked, TypeInv, TypeOK
<1>19. CASE \E h \in Handlers : FetchSource(h)
  BY ZenonT(30), <1>19, TunnelKept
     DEF FetchSource, Becomes, Costs, Load, Pooled, locals,
     TypeInv, TypeOK, Locked, Starting
<1>20. CASE \E h \in Handlers : SavePool(h)
  <2> PICK h \in Handlers : SavePool(h)
    BY <1>20
  <2>1. /\ UNCHANGED <<tlock, tunnel, children>>
        /\ \A g \in Handlers : g # h => pc'[g] = pc[g] /\ pick'[g] = pick[g]
        /\ pc[h] \notin Starting /\ pc'[h] \notin Locked
    BY DEF SavePool, Answer, locals, TypeInv, TypeOK, Locked, Starting
  <2> QED
    BY <2>1, TunnelKept
<1>21. CASE \E k \in cooling : CoolEnds(k)
  BY <1>21 DEF CoolEnds, TunnelInv, locals
<1>22. CASE \E r \in cache : CacheStale(r)
  BY <1>22 DEF CacheStale, TunnelInv, locals
<1>23. CASE \E s \in children : ChildExits(s)
  BY <1>23 DEF ChildExits, Costs, TunnelInv, locals
<1>24. CASE Restart
  BY <1>24 DEF Restart, TunnelInv, Starting, Locked
<1>25. CASE UNCHANGED vars
  BY <1>25 DEF TunnelInv, vars, locals
<1> QED
  BY <1>1, <1>2, <1>3, <1>4, <1>5, <1>6, <1>7, <1>8, <1>9, <1>10, <1>11,
     <1>12, <1>13, <1>14, <1>15, <1>16, <1>17, <1>18, <1>19, <1>20, <1>21,
     <1>22, <1>23, <1>24, <1>25
     DEF Next, Request, Step

(* At most one exit carries traffic: a child that runs is the tunnel's or  *)
(* the one the lock holder is starting, so no failed spawn, failed check,  *)
(* rotation or restart leaves an xray child behind.                        *)
THEOREM OneEgressIsSafe == Spec => []OneEgress
<1>1. Init => TunnelInv
  BY DEF Init, TunnelInv, Starting, Locked
<1>2. TypeInv /\ TunnelInv => OneEgress
  BY DEF TunnelInv, OneEgress, Starting
<1> QED
  BY <1>1, <1>2, TunnelStep, TypeInvariant, PTL DEF Spec

---------------------------------------------------------------------------
(* Leases and the clean cache.                                             *)

(* What leases, clients and the cache hold, with the threads that have not *)
(* answered yet: an unanswered request is the only owner of its lease, and *)
(* a hint comes from the cache's seed.                                     *)
LeaseInv ==
    /\ NoOrphanLease
    /\ LeaseNamesTunnel
    /\ CacheOnlyRefreshed
    /\ \A h \in Handlers :
        \/ pc[h] = "mint" /\ pick[h] # NoServer
        \/ pc[h] = "note"
        => <<pick[h], prov[h]>> \in CacheSeed

(* A step that leaves the leases alone, within the steps that own one.      *)
LEMMA LeaseKept ==
    ASSUME TypeInv, LeaseInv, NEW h \in Handlers,
           UNCHANGED <<leases, granted, told>>, cache' \subseteq CacheSeed,
           \A g \in Handlers : g # h =>
               /\ pc'[g] = pc[g] /\ pick'[g] = pick[g]
               /\ prov'[g] = prov[g] /\ lid'[g] = lid[g],
           pc[h] \in Minted => pc'[h] \in Minted /\ lid'[h] = lid[h],
           \/ pc'[h] = "mint" /\ pick'[h] # NoServer
           \/ pc'[h] = "note"
           => <<pick'[h], prov'[h]>> \in CacheSeed
    PROVE  LeaseInv'
<1>1. NoOrphanLease'
  BY DEF LeaseInv, NoOrphanLease
<1>2. LeaseNamesTunnel' /\ CacheOnlyRefreshed'
  BY DEF LeaseInv, LeaseNamesTunnel, CacheOnlyRefreshed
<1> QED
  BY <1>1, <1>2 DEF LeaseInv

(* A step of thread h that writes the record of its own lease only.        *)
LEMMA OwnLease ==
    ASSUME TypeInv, LeaseInv, NEW h \in Handlers, pc[h] \in InFlight,
           cache' \subseteq CacheSeed,
           \A k \in LeaseIds : k # lid[h] =>
               leases'[k] = leases[k] /\ granted'[k] = granted[k],
           told \subseteq told', told' \subseteq told \cup {lid[h]},
           \A g \in Handlers : g # h =>
               /\ pc'[g] = pc[g] /\ pick'[g] = pick[g]
               /\ prov'[g] = prov[g] /\ lid'[g] = lid[g],
           \/ leases'[lid[h]] = NoLease
           \/ pc'[h] \in Minted /\ lid'[h] = lid[h] /\ told' = told
           \/ lid[h] \in told' /\ leases'[lid[h]].server = granted'[lid[h]],
           pc'[h] # "mint",
           pc'[h] = "note" => <<pick'[h], prov'[h]>> \in CacheSeed
    PROVE  LeaseInv'
<1>1. lid[h] \in LeaseIds /\ lid[h] \notin told
  BY DEF TypeInv, TypeOK, LocalsInv, LeaseIds
<1>2. NoOrphanLease'
  <2> SUFFICES ASSUME NEW k \in LeaseIds, leases'[k] # NoLease, k \notin told'
               PROVE  \E g \in Handlers : lid'[g] = k /\ pc'[g] \in Minted
    BY DEF NoOrphanLease
  <2>1. CASE k = lid[h]
    BY <2>1
  <2>2. CASE k # lid[h]
    <3>1. leases[k] # NoLease /\ k \notin told
      BY <2>2
    <3>2. PICK g \in Handlers : lid[g] = k /\ pc[g] \in Minted
      BY <3>1 DEF LeaseInv, NoOrphanLease
    <3> QED
      BY <2>2, <3>2
  <2> QED
    BY <2>1, <2>2
<1>3. LeaseNamesTunnel'
  <2> SUFFICES ASSUME NEW k \in told', leases'[k] # NoLease
               PROVE  leases'[k].server = granted'[k]
    BY DEF LeaseNamesTunnel
  <2>1. CASE k = lid[h]
    BY <1>1, <2>1
  <2>2. CASE k # lid[h]
    <3>1. k \in told /\ k \in LeaseIds
      BY <2>2 DEF TypeInv, TypeOK
    <3> QED
      BY <2>2, <3>1 DEF LeaseInv, LeaseNamesTunnel
  <2> QED
    BY <2>1, <2>2
<1>4. \A g \in Handlers :
        \/ pc'[g] = "mint" /\ pick'[g] # NoServer
        \/ pc'[g] = "note"
        => <<pick'[g], prov'[g]>> \in CacheSeed
  <2> SUFFICES ASSUME NEW g \in Handlers,
                      \/ pc'[g] = "mint" /\ pick'[g] # NoServer
                      \/ pc'[g] = "note"
               PROVE  <<pick'[g], prov'[g]>> \in CacheSeed
    OBVIOUS
  <2>1. CASE g = h
    BY <2>1
  <2>2. CASE g # h
    BY <2>2 DEF LeaseInv
  <2> QED
    BY <2>1, <2>2
<1> QED
  BY <1>2, <1>3, <1>4 DEF LeaseInv, CacheOnlyRefreshed

LEMMA LeaseStep == TypeInv /\ LeaseInv /\ [Next]_vars => LeaseInv'
<1> SUFFICES ASSUME TypeInv, LeaseInv, [Next]_vars PROVE LeaseInv'
  OBVIOUS
<1>0. cache \subseteq CacheSeed
  BY DEF LeaseInv, CacheOnlyRefreshed
<1>1. CASE BootFetch
  BY <1>1 DEF BootFetch, Load, Costs, Serving, store, locals, counts, Pooled,
     LeaseInv, NoOrphanLease, LeaseNamesTunnel, CacheOnlyRefreshed, locals
<1>2. CASE \E h \in Handlers, p \in DirectProviders : LeaseDirect(h, p)
  <2> PICK h \in Handlers, p \in DirectProviders : LeaseDirect(h, p)
    BY <1>2
  <2>1. asked + 1 \in LeaseIds /\ asked + 1 \notin told
    BY BoundTypes DEF LeaseDirect, TypeInv, TypeOK, LocalsInv, LeaseIds
  <2>2. /\ leases' = [leases EXCEPT ![asked + 1] =
                       [server |-> NoServer, provider |-> p]]
        /\ granted' = [granted EXCEPT ![asked + 1] = NoServer]
        /\ told' = told \cup {asked + 1}
        /\ UNCHANGED <<cache, locals>>
    BY DEF LeaseDirect, Tell
  <2>3. LeaseNamesTunnel'
    BY <2>1, <2>2 DEF TypeInv, TypeOK, LeaseInv, LeaseNamesTunnel
  <2>4. NoOrphanLease'
    BY <2>1, <2>2 DEF TypeInv, TypeOK, LeaseInv, NoOrphanLease, locals
  <2> QED
    BY <2>2, <2>3, <2>4 DEF LeaseInv, CacheOnlyRefreshed, locals
<1>3. CASE \E h \in Handlers, p \in TunnelProviders : LeaseStart(h, p)
  <2> PICK h \in Handlers, p \in TunnelProviders : LeaseStart(h, p)
    BY <1>3
  <2>1. /\ UNCHANGED <<leases, granted, told>>
        /\ \A g \in Handlers : g # h =>
            /\ pc'[g] = pc[g] /\ pick'[g] = pick[g]
            /\ prov'[g] = prov[g] /\ lid'[g] = lid[g]
    BY DEF LeaseStart, Becomes, TypeInv, TypeOK, locals
  <2>2. /\ pc[h] \in Minted => pc'[h] \in Minted /\ lid'[h] = lid[h]
        /\ cache' \subseteq CacheSeed
        /\ \/ pc'[h] = "mint" /\ pick'[h] # NoServer
           \/ pc'[h] = "note"
           => <<pick'[h], prov'[h]>> \in CacheSeed
    BY <1>0 DEF LeaseStart, Becomes, TypeInv, TypeOK, Minted, LeaseInv
  <2> QED
    BY <2>1, <2>2, LeaseKept
<1>4. CASE \E h \in Handlers, l \in told, o \in Outcomes,
             v \in Providers \cup {NoProvider} : Report(h, l, o, v)
  <2> PICK h \in Handlers, l \in told, o \in Outcomes,
             v \in Providers \cup {NoProvider} : Report(h, l, o, v)
    BY <1>4
  <2>1. /\ \A k \in LeaseIds : leases'[k] \in {leases[k], NoLease}
        /\ UNCHANGED <<cache, granted, told>>
    BY DEF Report, TypeInv, TypeOK, Minted
  <2>2. /\ pc[h] = "idle" /\ pc'[h] \in {"idle", "rotate"}
        /\ \A g \in Handlers : g # h =>
            /\ pc'[g] = pc[g] /\ pick'[g] = pick[g]
            /\ prov'[g] = prov[g] /\ lid'[g] = lid[g]
    BY DEF Report, Becomes, locals, TypeInv, TypeOK
  <2>3. NoOrphanLease'
    BY <2>1, <2>2 DEF LeaseInv, NoOrphanLease, Minted
  <2>4. LeaseNamesTunnel'
    BY <2>1 DEF LeaseInv, LeaseNamesTunnel, TypeInv, TypeOK
  <2> QED
    BY <2>1, <2>2, <2>3, <2>4 DEF LeaseInv, CacheOnlyRefreshed
<1>5. CASE \E h \in Handlers : Refresh(h)
  <2> PICK h \in Handlers : Refresh(h)
    BY <1>5
  <2>1. /\ UNCHANGED <<leases, granted, told>>
        /\ \A g \in Handlers : g # h =>
            /\ pc'[g] = pc[g] /\ pick'[g] = pick[g]
            /\ prov'[g] = prov[g] /\ lid'[g] = lid[g]
    BY DEF Refresh, Becomes, TypeInv, TypeOK, locals
  <2>2. /\ pc[h] \in Minted => pc'[h] \in Minted /\ lid'[h] = lid[h]
        /\ cache' \subseteq CacheSeed
        /\ \/ pc'[h] = "mint" /\ pick'[h] # NoServer
           \/ pc'[h] = "note"
           => <<pick'[h], prov'[h]>> \in CacheSeed
    BY <1>0 DEF Refresh, Becomes, TypeInv, TypeOK, Minted, LeaseInv
  <2> QED
    BY <2>1, <2>2, LeaseKept
<1>6. CASE \E h \in Handlers : LeasePing(h)
  <2> PICK h \in Handlers : LeasePing(h)
    BY <1>6
  <2>1. /\ UNCHANGED <<leases, granted, told>>
        /\ \A g \in Handlers : g # h =>
            /\ pc'[g] = pc[g] /\ pick'[g] = pick[g]
            /\ prov'[g] = prov[g] /\ lid'[g] = lid[g]
    BY DEF LeasePing, Becomes, Costs, TypeInv, TypeOK, locals
  <2>2. /\ pc[h] \in Minted => pc'[h] \in Minted /\ lid'[h] = lid[h]
        /\ cache' \subseteq CacheSeed
        /\ \/ pc'[h] = "mint" /\ pick'[h] # NoServer
           \/ pc'[h] = "note"
           => <<pick'[h], prov'[h]>> \in CacheSeed
    BY <1>0 DEF LeasePing, Becomes, Costs, TypeInv, TypeOK, Minted, LeaseInv
  <2> QED
    BY <2>1, <2>2, LeaseKept
<1>7. CASE \E h \in Handlers : LeaseMint(h)
  <2> PICK h \in Handlers : LeaseMint(h)
    BY <1>7
  <2>1. PICK s \in Servers :
          leases' = [leases EXCEPT ![lid[h]] =
                       [server |-> s, provider |-> prov[h]]]
    BY DEF LeaseMint
  <2>2. /\ pc[h] = "mint" /\ pc'[h] \in {"note", "acquire"}
        /\ pc'[h] = "note" => pick[h] \in Servers /\ pick'[h] = pick[h]
        /\ UNCHANGED <<cache, granted, told, prov, lid>>
        /\ \A g \in Handlers : g # h => pc'[g] = pc[g] /\ pick'[g] = pick[g]
    BY UsableType DEF LeaseMint, Becomes, TypeInv, TypeOK
  <2>3. NoServer \notin Servers
    BY ConstantsAssumption DEF ConstantsAssumption
  <2>4. pc'[h] = "note" => <<pick'[h], prov'[h]>> \in CacheSeed
    BY <2>2, <2>3 DEF LeaseInv
  <2>5. \A k \in LeaseIds : k # lid[h] => leases'[k] = leases[k]
    BY <2>1 DEF TypeInv, TypeOK
  <2> QED
    BY <1>0, <2>2, <2>4, <2>5, OwnLease DEF InFlight, Minted
<1>8. CASE \E h \in Handlers : LeasePark(h)
  <2> PICK h \in Handlers : LeasePark(h)
    BY <1>8
  <2>1. /\ UNCHANGED <<leases, granted, told>>
        /\ \A g \in Handlers : g # h =>
            /\ pc'[g] = pc[g] /\ pick'[g] = pick[g]
            /\ prov'[g] = prov[g] /\ lid'[g] = lid[g]
    BY DEF LeasePark, Answer, TypeInv, TypeOK, locals
  <2>2. /\ pc[h] \in Minted => pc'[h] \in Minted /\ lid'[h] = lid[h]
        /\ cache' \subseteq CacheSeed
        /\ \/ pc'[h] = "mint" /\ pick'[h] # NoServer
           \/ pc'[h] = "note"
           => <<pick'[h], prov'[h]>> \in CacheSeed
    BY <1>0 DEF LeasePark, Answer, TypeInv, TypeOK, Minted, LeaseInv
  <2> QED
    BY <2>1, <2>2, LeaseKept
<1>9. CASE \E h \in Handlers : LeaseNote(h)
  <2> PICK h \in Handlers : LeaseNote(h)
    BY <1>9
  <2>1. /\ UNCHANGED <<leases, granted, told>>
        /\ \A g \in Handlers : g # h =>
            /\ pc'[g] = pc[g] /\ pick'[g] = pick[g]
            /\ prov'[g] = prov[g] /\ lid'[g] = lid[g]
    BY DEF LeaseNote, Becomes, TypeInv, TypeOK, locals
  <2>2. /\ pc[h] \in Minted => pc'[h] \in Minted /\ lid'[h] = lid[h]
        /\ cache' \subseteq CacheSeed
        /\ \/ pc'[h] = "mint" /\ pick'[h] # NoServer
           \/ pc'[h] = "note"
           => <<pick'[h], prov'[h]>> \in CacheSeed
    BY <1>0 DEF LeaseNote, Becomes, TypeInv, TypeOK, Minted, LeaseInv
  <2> QED
    BY <2>1, <2>2, LeaseKept
<1>10. CASE \E h \in Handlers : AcquireEnter(h)
  <2> PICK h \in Handlers : AcquireEnter(h)
    BY <1>10
  <2>1. /\ UNCHANGED <<leases, granted, told>>
        /\ \A g \in Handlers : g # h =>
            /\ pc'[g] = pc[g] /\ pick'[g] = pick[g]
            /\ prov'[g] = prov[g] /\ lid'[g] = lid[g]
    BY DEF AcquireEnter, Becomes, TypeInv, TypeOK, locals
  <2>2. /\ pc[h] \in Minted => pc'[h] \in Minted /\ lid'[h] = lid[h]
        /\ cache' \subseteq CacheSeed
        /\ \/ pc'[h] = "mint" /\ pick'[h] # NoServer
           \/ pc'[h] = "note"
           => <<pick'[h], prov'[h]>> \in CacheSeed
    BY <1>0 DEF AcquireEnter, Becomes, TypeInv, TypeOK, Minted, LeaseInv
  <2> QED
    BY <2>1, <2>2, LeaseKept
<1>11. CASE \E h \in Handlers : AcquireProbe(h)
  <2> PICK h \in Handlers : AcquireProbe(h)
    BY <1>11
  <2>1. /\ UNCHANGED <<leases, granted, told>>
        /\ \A g \in Handlers : g # h =>
            /\ pc'[g] = pc[g] /\ pick'[g] = pick[g]
            /\ prov'[g] = prov[g] /\ lid'[g] = lid[g]
    BY DEF AcquireProbe, Becomes, Costs, TypeInv, TypeOK, locals
  <2>2. /\ pc[h] \in Minted => pc'[h] \in Minted /\ lid'[h] = lid[h]
        /\ cache' \subseteq CacheSeed
        /\ \/ pc'[h] = "mint" /\ pick'[h] # NoServer
           \/ pc'[h] = "note"
           => <<pick'[h], prov'[h]>> \in CacheSeed
    BY <1>0 DEF AcquireProbe, Becomes, Costs, TypeInv, TypeOK, Minted, LeaseInv
  <2> QED
    BY <2>1, <2>2, LeaseKept
<1>12. CASE \E h \in Handlers : AcquireUp(h)
  <2> PICK h \in Handlers : AcquireUp(h)
    BY <1>12
  <2>1. /\ UNCHANGED <<leases, granted, told>>
        /\ \A g \in Handlers : g # h =>
            /\ pc'[g] = pc[g] /\ pick'[g] = pick[g]
            /\ prov'[g] = prov[g] /\ lid'[g] = lid[g]
    BY DEF AcquireUp, Becomes, TypeInv, TypeOK, locals
  <2>2. /\ pc[h] \in Minted => pc'[h] \in Minted /\ lid'[h] = lid[h]
        /\ cache' \subseteq CacheSeed
        /\ \/ pc'[h] = "mint" /\ pick'[h] # NoServer
           \/ pc'[h] = "note"
           => <<pick'[h], prov'[h]>> \in CacheSeed
    BY <1>0 DEF AcquireUp, Becomes, TypeInv, TypeOK, Minted, LeaseInv
  <2> QED
    BY <2>1, <2>2, LeaseKept
<1>13. CASE \E h \in Handlers : AcquireDone(h)
  <2> PICK h \in Handlers : AcquireDone(h)
    BY <1>13
  <2>1. /\ UNCHANGED <<leases, granted, told>>
        /\ \A g \in Handlers : g # h =>
            /\ pc'[g] = pc[g] /\ pick'[g] = pick[g]
            /\ prov'[g] = prov[g] /\ lid'[g] = lid[g]
    BY DEF AcquireDone, Becomes, TypeInv, TypeOK, locals
  <2>2. /\ pc[h] \in Minted => pc'[h] \in Minted /\ lid'[h] = lid[h]
        /\ cache' \subseteq CacheSeed
        /\ \/ pc'[h] = "mint" /\ pick'[h] # NoServer
           \/ pc'[h] = "note"
           => <<pick'[h], prov'[h]>> \in CacheSeed
    BY <1>0 DEF AcquireDone, Becomes, TypeInv, TypeOK, Minted, LeaseInv
  <2> QED
    BY <2>1, <2>2, LeaseKept
<1>14. CASE \E h \in Handlers : AcquireFails(h)
  <2> PICK h \in Handlers : AcquireFails(h)
    BY <1>14
  <2>1. /\ UNCHANGED <<leases, granted, told>>
        /\ \A g \in Handlers : g # h =>
            /\ pc'[g] = pc[g] /\ pick'[g] = pick[g]
            /\ prov'[g] = prov[g] /\ lid'[g] = lid[g]
    BY DEF AcquireFails, Becomes, Costs, TypeInv, TypeOK, locals
  <2>2. /\ pc[h] \in Minted => pc'[h] \in Minted /\ lid'[h] = lid[h]
        /\ cache' \subseteq CacheSeed
        /\ \/ pc'[h] = "mint" /\ pick'[h] # NoServer
           \/ pc'[h] = "note"
           => <<pick'[h], prov'[h]>> \in CacheSeed
    BY <1>0 DEF AcquireFails, Becomes, Costs, TypeInv, TypeOK, Minted, LeaseInv
  <2> QED
    BY <2>1, <2>2, LeaseKept
<1>15. CASE \E h \in Handlers : Recheck(h)
  <2> PICK h \in Handlers : Recheck(h)
    BY <1>15
  <2>1. /\ UNCHANGED <<leases, granted, told>>
        /\ \A g \in Handlers : g # h =>
            /\ pc'[g] = pc[g] /\ pick'[g] = pick[g]
            /\ prov'[g] = prov[g] /\ lid'[g] = lid[g]
    BY DEF Recheck, Becomes, Costs, TypeInv, TypeOK, locals
  <2>2. /\ pc[h] \in Minted => pc'[h] \in Minted /\ lid'[h] = lid[h]
        /\ cache' \subseteq CacheSeed
        /\ \/ pc'[h] = "mint" /\ pick'[h] # NoServer
           \/ pc'[h] = "note"
           => <<pick'[h], prov'[h]>> \in CacheSeed
    BY <1>0 DEF Recheck, Becomes, Costs, TypeInv, TypeOK, Minted, LeaseInv
  <2> QED
    BY <2>1, <2>2, LeaseKept
<1>16. CASE \E h \in Handlers : Grant(h)
  <2> PICK h \in Handlers : Grant(h)
    BY <1>16
  <2>1. /\ pc[h] = "grant" /\ pc'[h] = "idle" /\ UNCHANGED cache
        /\ leases' = [leases EXCEPT ![lid[h]].server = pick[h]]
        /\ granted' = [granted EXCEPT ![lid[h]] = pick[h]]
        /\ told' = told \cup {lid[h]}
        /\ \A g \in Handlers : g # h =>
            /\ pc'[g] = pc[g] /\ pick'[g] = pick[g]
            /\ prov'[g] = prov[g] /\ lid'[g] = lid[g]
    BY DEF Grant, Tell, Answer, TypeInv, TypeOK
  <2>2. lid[h] \in LeaseIds
    BY <2>1 DEF TypeInv, TypeOK, LocalsInv, InFlight, Minted, LeaseIds
  <2>3. /\ \A k \in LeaseIds : k # lid[h] =>
            leases'[k] = leases[k] /\ granted'[k] = granted[k]
        /\ leases'[lid[h]].server = granted'[lid[h]]
    BY <2>1, <2>2 DEF TypeInv, TypeOK, Lease
  <2> QED
    BY <1>0, <2>1, <2>3, OwnLease DEF InFlight, Minted
<1>17. CASE \E h \in Handlers : Fail(h)
  <2> PICK h \in Handlers : Fail(h)
    BY <1>17
  <2>1. /\ pc[h] = "failed" /\ pc'[h] = "idle"
        /\ leases' = [leases EXCEPT ![lid[h]] = NoLease]
        /\ UNCHANGED <<cache, granted, told>>
        /\ \A g \in Handlers : g # h =>
            /\ pc'[g] = pc[g] /\ pick'[g] = pick[g]
            /\ prov'[g] = prov[g] /\ lid'[g] = lid[g]
    BY DEF Fail, Answer, TypeInv, TypeOK
  <2>2. lid[h] \in LeaseIds
    BY <2>1 DEF TypeInv, TypeOK, LocalsInv, InFlight, Minted, LeaseIds
  <2>3. /\ \A k \in LeaseIds : k # lid[h] => leases'[k] = leases[k]
        /\ leases'[lid[h]] = NoLease
    BY <2>1, <2>2 DEF TypeInv, TypeOK
  <2> QED
    BY <1>0, <2>1, <2>3, OwnLease DEF InFlight, Minted
<1>18. CASE \E h \in Handlers : Rotate(h)
  <2> PICK h \in Handlers : Rotate(h)
    BY <1>18
  <2>1. /\ UNCHANGED <<leases, granted, told>>
        /\ \A g \in Handlers : g # h =>
            /\ pc'[g] = pc[g] /\ pick'[g] = pick[g]
            /\ prov'[g] = prov[g] /\ lid'[g] = lid[g]
    BY DEF Rotate, Answer, TypeInv, TypeOK, locals
  <2>2. /\ pc[h] \in Minted => pc'[h] \in Minted /\ lid'[h] = lid[h]
        /\ cache' \subseteq CacheSeed
        /\ \/ pc'[h] = "mint" /\ pick'[h] # NoServer
           \/ pc'[h] = "note"
           => <<pick'[h], prov'[h]>> \in CacheSeed
    BY <1>0 DEF Rotate, Answer, TypeInv, TypeOK, Minted, LeaseInv
  <2> QED
    BY <2>1, <2>2, LeaseKept
<1>19. CASE \E h \in Handlers : FetchSource(h)
  <2> PICK h \in Handlers : FetchSource(h)
    BY <1>19
  <2>1. /\ UNCHANGED <<leases, granted, told>>
        /\ \A g \in Handlers : g # h =>
            /\ pc'[g] = pc[g] /\ pick'[g] = pick[g]
            /\ prov'[g] = prov[g] /\ lid'[g] = lid[g]
    BY DEF FetchSource, Becomes, Costs, Load, Pooled, TypeInv, TypeOK, locals
  <2>2. /\ pc[h] \in Minted => pc'[h] \in Minted /\ lid'[h] = lid[h]
        /\ cache' \subseteq CacheSeed
        /\ \/ pc'[h] = "mint" /\ pick'[h] # NoServer
           \/ pc'[h] = "note"
           => <<pick'[h], prov'[h]>> \in CacheSeed
    BY <1>0 DEF FetchSource, Becomes, Costs, Load, Pooled, TypeInv, TypeOK,
       Minted, LeaseInv
  <2> QED
    BY <2>1, <2>2, LeaseKept
<1>20. CASE \E h \in Handlers : SavePool(h)
  <2> PICK h \in Handlers : SavePool(h)
    BY <1>20
  <2>1. /\ UNCHANGED <<leases, granted, told>>
        /\ \A g \in Handlers : g # h =>
            /\ pc'[g] = pc[g] /\ pick'[g] = pick[g]
            /\ prov'[g] = prov[g] /\ lid'[g] = lid[g]
    BY DEF SavePool, Answer, TypeInv, TypeOK, locals
  <2>2. /\ pc[h] \in Minted => pc'[h] \in Minted /\ lid'[h] = lid[h]
        /\ cache' \subseteq CacheSeed
        /\ \/ pc'[h] = "mint" /\ pick'[h] # NoServer
           \/ pc'[h] = "note"
           => <<pick'[h], prov'[h]>> \in CacheSeed
    BY <1>0 DEF SavePool, Answer, TypeInv, TypeOK, Minted, LeaseInv
  <2> QED
    BY <2>1, <2>2, LeaseKept
<1>21. CASE \E k \in cooling : CoolEnds(k)
  BY <1>21 DEF CoolEnds, LeaseInv, NoOrphanLease, LeaseNamesTunnel,
     CacheOnlyRefreshed, locals
<1>22. CASE \E r \in cache : CacheStale(r)
  BY <1>22 DEF CacheStale, LeaseInv, NoOrphanLease, LeaseNamesTunnel,
     CacheOnlyRefreshed, locals
<1>23. CASE \E s \in children : ChildExits(s)
  BY <1>23 DEF ChildExits, Costs, LeaseInv, NoOrphanLease, LeaseNamesTunnel,
     CacheOnlyRefreshed, locals
<1>24. CASE Restart
  <2>1. /\ \A l \in LeaseIds : leases'[l] = NoLease
        /\ \A h \in Handlers : pc'[h] = "idle"
        /\ UNCHANGED <<cache, told>>
    BY <1>24 DEF Restart
  <2>2. NoOrphanLease' /\ LeaseNamesTunnel'
    BY <2>1 DEF NoOrphanLease, LeaseNamesTunnel, TypeInv, TypeOK
  <2> QED
    BY <1>0, <2>1, <2>2 DEF LeaseInv, CacheOnlyRefreshed
<1>25. CASE UNCHANGED vars
  BY <1>25 DEF LeaseInv, NoOrphanLease, LeaseNamesTunnel, CacheOnlyRefreshed,
     vars, locals
<1> QED
  BY <1>0, <1>1, <1>2, <1>3, <1>4, <1>5, <1>6, <1>7, <1>8, <1>9, <1>10,
     <1>11, <1>12, <1>13, <1>14, <1>15, <1>16, <1>17, <1>18, <1>19, <1>20,
     <1>21, <1>22, <1>23, <1>24, <1>25
     DEF Next, Request, Step

LEMMA LeaseInvariant == Spec => []LeaseInv
<1>1. Init => LeaseInv
  BY DEF Init, LeaseInv, NoOrphanLease, LeaseNamesTunnel, CacheOnlyRefreshed,
         NoLease
<1> QED
  BY <1>1, LeaseStep, TypeInvariant, PTL DEF Spec

(* Every pooled lease has been told to a client or belongs to a request    *)
(* that is still in flight: a failed acquire leaves no record behind.      *)
THEOREM NoOrphans == Spec => []NoOrphanLease
  BY LeaseInvariant, PTL DEF LeaseInv

(* The record of a lease a client holds names the server of the proxy the  *)
(* client was given, even when the hint lost a race with a cooldown.       *)
THEOREM LeasesNameTunnels == Spec => []LeaseNamesTunnel
  BY LeaseInvariant, PTL DEF LeaseInv

(* The lease path adds no server to the clean cache that was not in it.    *)
THEOREM CacheOnlyKept == Spec => []CacheOnlyRefreshed
  BY LeaseInvariant, PTL DEF LeaseInv
=============================================================================
