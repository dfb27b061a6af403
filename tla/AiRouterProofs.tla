--------------------------- MODULE AiRouterProofs ---------------------------
(***************************************************************************)
(* The invariants of the AI router, for every number of threads, presets,  *)
(* failures, edits and limits.                                             *)
(*                                                                         *)
(* RouterTypes is TypeOK, written worker by worker and strengthened: a     *)
(* request that runs has read its chain, and one that has looked at the    *)
(* limiter of a preset finds it in the table again.  A step touches the    *)
(* locals of one worker only (StepTouches) and never takes a limiter or a  *)
(* semaphore away (Grows), so the other workers keep what they had.        *)
(*                                                                         *)
(* With the types settled, the other invariants need no induction over the *)
(* actions: one lemma for each sorts the steps into those that matter to   *)
(* it and those that do not (PermitSteps, UsageSteps, AnswerSteps,         *)
(* OvershootSteps).                                                        *)
(*                                                                         *)
(* Permits and usage are preserved as they stand.  That a request asks for *)
(* a second answer only when the first was spoilt needs the number of its  *)
(* answers at each step (Counted); the overshoot of the daily cap needs    *)
(* the requests that read the usage below the cap and may still count      *)
(* (Pending): no request joins them once the cap is reached.               *)
(***************************************************************************)
EXTENDS AiRouter, TLAPS, FiniteSetTheorems

(* TypeOK in four parts.                                                   *)
PoolTypes ==
    /\ lims \in Seq(Limiter) /\ sems \in Seq(Semaphore)
    /\ table \in [Presets -> 0..Len(lims)]
    /\ \A l \in DOMAIN lims : lims[l].slots \in DOMAIN sems

CountTypes ==
    /\ conf \in [Presets -> Capacities] /\ cached \in [Presets -> Capacities]
    /\ usage \in [Presets -> Nat] /\ answers \in [Presets -> Nat]
    /\ requests \in 0..MaxRequests /\ edits \in 0..MaxEdits
    /\ failures \in 0..MaxFailures /\ peak \in Nat

LocalTypes ==
    /\ pc \in [Workers -> PCs] /\ at \in [Workers -> 1..(Len(Chain) + 1)]
    /\ plan \in [Workers -> [Presets -> {0} \cup Capacities]]
    /\ seen \in [Workers -> [Presets -> Nat]]
    /\ lim \in [Workers -> Nat] /\ slot \in [Workers -> Nat]
    /\ reg \in [Workers -> Nat] /\ out \in [Workers -> Outcomes]
    /\ won \in [Workers -> Nat] /\ spoilt \in [Workers -> Nat]

Ending == {"dec", "decw", "release"}

(* What a worker knows at each of its steps.                               *)
Before == {"idle", "start", "get", "make"}

Knows(w) ==
    /\ lim[w] <= Len(lims) /\ slot[w] <= Len(sems)
    /\ pc[w] # "idle" => plan[w] \in [Presets -> Capacities]
    /\ pc[w] \notin {"idle", "start"} => at[w] <= Len(Chain)
    /\ pc[w] \notin Before => lim[w] # 0 /\ table[Preset(w)] # 0
    /\ pc[w] \in Holding \cup {"acquire"} => slot[w] # 0

RouterTypes ==
    PoolTypes /\ CountTypes /\ LocalTypes /\ \A w \in Workers : Knows(w)

(* LocalTypes, for one worker.                                             *)
Typed(w) ==
    /\ pc[w] \in PCs /\ at[w] \in 1..(Len(Chain) + 1)
    /\ plan[w] \in [Presets -> {0} \cup Capacities]
    /\ seen[w] \in [Presets -> Nat]
    /\ lim[w] \in Nat /\ slot[w] \in Nat /\ reg[w] \in Nat
    /\ out[w] \in Outcomes /\ won[w] \in Nat /\ spoilt[w] \in Nat

(* The locals of no worker but w change.                                   *)
Touches(w) ==
    /\ pc' = [pc EXCEPT ![w] = pc'[w]] /\ at' = [at EXCEPT ![w] = at'[w]]
    /\ plan' = [plan EXCEPT ![w] = plan'[w]]
    /\ seen' = [seen EXCEPT ![w] = seen'[w]]
    /\ lim' = [lim EXCEPT ![w] = lim'[w]]
    /\ slot' = [slot EXCEPT ![w] = slot'[w]]
    /\ reg' = [reg EXCEPT ![w] = reg'[w]]
    /\ out' = [out EXCEPT ![w] = out'[w]]
    /\ won' = [won EXCEPT ![w] = won'[w]]
    /\ spoilt' = [spoilt EXCEPT ![w] = spoilt'[w]]

(* Limiters and semaphores are never taken away.                           *)
Grows ==
    /\ {Len(lims), Len(lims'), Len(sems), Len(sems')} \subseteq Nat
    /\ Len(lims) <= Len(lims') /\ Len(sems) <= Len(sems')
    /\ \A p \in Presets : table[p] # 0 => table'[p] # 0

-----------------------------------------------------------------------------
(* Lemmas on sequences, records and constants.                             *)

(* A sequence with one element replaced.                                   *)
LEMMA SeqUpdate ==
    ASSUME NEW S, NEW s \in Seq(S), NEW i \in DOMAIN s, NEW x \in S
    PROVE  [s EXCEPT ![i] = x] \in Seq(S) /\ Len([s EXCEPT ![i] = x]) = Len(s)
OBVIOUS

(* A sequence with one element more.                                       *)
LEMMA SeqAppend ==
    ASSUME NEW S, NEW s \in Seq(S), NEW x \in S
    PROVE  /\ Append(s, x) \in Seq(S) /\ Len(Append(s, x)) = Len(s) + 1
           /\ \A i \in 1..Len(s) : Append(s, x)[i] = s[i]
           /\ Append(s, x)[Len(s) + 1] = x
OBVIOUS

(* The constants, one by one.                                              *)
LEMMA ConstantTypes ==
    /\ Len(Chain) \in Nat \ {0} /\ Capacities \subseteq Nat \ {0}
    /\ Rpm \in Nat \ {0} /\ Threshold \in Nat \ {0} /\ Daily \in Nat
    /\ MaxRequests \in Nat /\ MaxEdits \in Nat /\ MaxFailures \in Nat
BY ConstantsAssumption

(* The fields of a limiter.                                                *)
LEMMA LimiterFields ==
    ASSUME NEW r \in Limiter
    PROVE  /\ r.slots \in Nat /\ r.cap \in Capacities /\ r.flight \in Nat
           /\ r.window \in 0..Rpm /\ r.streak \in Nat /\ r.backoff \in BOOLEAN
BY DEF Limiter

(* A limiter that gets another semaphore.                                  *)
LEMMA SlotsChange ==
    ASSUME NEW r \in Limiter, NEW n \in Nat, NEW c \in Capacities
    PROVE  /\ [r EXCEPT !.slots = n, !.cap = c] \in Limiter
           /\ [r EXCEPT !.slots = n, !.cap = c].slots = n
BY DEF Limiter

(* A semaphore whose permits change.                                       *)
LEMMA PermitsChange ==
    ASSUME NEW s \in Semaphore
    PROVE  /\ s.free \in Nat /\ s.cap \in Capacities
           /\ \A n \in Nat : /\ [s EXCEPT !.free = n] \in Semaphore
                             /\ [s EXCEPT !.free = n].free = n
                             /\ [s EXCEPT !.free = n].cap = s.cap
BY DEF Semaphore

(* The numbers of limiters and of semaphores.                              *)
LEMMA Lengths == PoolTypes => Len(lims) \in Nat /\ Len(sems) \in Nat
BY DEF PoolTypes

(* The preset a worker is at, its limiter and its capacity.                *)
LEMMA PresetType ==
    ASSUME RouterTypes, NEW w \in Workers, pc[w] \notin {"idle", "start"}
    PROVE  /\ Preset(w) \in Presets /\ at[w] \in 1..Len(Chain)
           /\ Len(lims) \in Nat
           /\ table[Preset(w)] \in Nat /\ table[Preset(w)] <= Len(lims)
           /\ plan[w][Preset(w)] \in Capacities
           /\ table[Preset(w)] # 0 =>
                 /\ lims[table[Preset(w)]] \in Limiter
                 /\ lims[table[Preset(w)]].slots \in 1..Len(sems)
<1>1. at[w] \in 1..Len(Chain)
  BY ConstantTypes DEF RouterTypes, LocalTypes, Knows
<1>2. Preset(w) \in Presets
  BY <1>1, ConstantsAssumption DEF Preset, Presets
<1>3. table[Preset(w)] \in 0..Len(lims) /\ Len(lims) \in Nat
  BY <1>2 DEF RouterTypes, PoolTypes
<1>4. plan[w][Preset(w)] \in Capacities
  BY <1>2 DEF RouterTypes, Knows
<1>5. ASSUME table[Preset(w)] # 0
      PROVE  /\ lims[table[Preset(w)]] \in Limiter
             /\ lims[table[Preset(w)]].slots \in DOMAIN sems
             /\ DOMAIN sems = 1..Len(sems)
  <2>1. table[Preset(w)] \in DOMAIN lims
    BY <1>3, <1>5 DEF RouterTypes, PoolTypes
  <2>2. QED
    BY <2>1 DEF RouterTypes, PoolTypes
<1>6. QED
  BY <1>1, <1>2, <1>3, <1>4, <1>5

(* Past limiter_for a worker has a limiter.                                *)
LEMMA LimiterType ==
    ASSUME RouterTypes, NEW w \in Workers, pc[w] \notin Before
    PROVE  lim[w] \in DOMAIN lims /\ lims[lim[w]] \in Limiter
BY DEF RouterTypes, Knows, Before, PoolTypes, LocalTypes

(* Past the capture it has a semaphore.                                    *)
LEMMA SlotType ==
    ASSUME RouterTypes, NEW w \in Workers, pc[w] \in Holding \cup {"acquire"}
    PROVE  slot[w] \in DOMAIN sems /\ sems[slot[w]] \in Semaphore
BY DEF RouterTypes, Knows, PoolTypes, LocalTypes

(* The numbers a worker keeps.                                             *)
LEMMA LocalNumbers ==
    ASSUME RouterTypes, NEW w \in Workers
    PROVE  /\ pc[w] \notin Before => lims[lim[w]].flight \in Nat
           /\ reg[w] \in Nat /\ won[w] \in Nat /\ spoilt[w] \in Nat
           /\ at[w] \in Nat
BY LimiterType, LimiterFields, ConstantTypes DEF RouterTypes, LocalTypes

-----------------------------------------------------------------------------
(* Types: what a step does to the pool of limiters and semaphores.         *)

(* The pool does not change.                                               *)
LEMMA SamePool ==
    ASSUME PoolTypes, UNCHANGED <<lims, sems, table>>
    PROVE  PoolTypes' /\ Grows
BY DEF PoolTypes, Grows

(* One limiter changes, and keeps its semaphore.                           *)
LEMMA LimiterKept ==
    ASSUME PoolTypes, NEW l \in DOMAIN lims, NEW r \in Limiter,
           r.slots = lims[l].slots, lims' = [lims EXCEPT ![l] = r],
           UNCHANGED <<sems, table>>
    PROVE  PoolTypes' /\ Grows
<1>1. /\ lims' \in Seq(Limiter) /\ Len(lims') = Len(lims)
      /\ DOMAIN lims' = DOMAIN lims
  BY SeqUpdate DEF PoolTypes
<1>2. \A k \in DOMAIN lims : lims'[k].slots = lims[k].slots
  BY DEF PoolTypes
<1>3. QED
  BY <1>1, <1>2 DEF PoolTypes, Grows

(* Its requests in flight change.                                          *)
LEMMA FlightSet ==
    ASSUME PoolTypes, NEW l \in DOMAIN lims, NEW n \in Nat,
           lims' = [lims EXCEPT ![l].flight = n],
           UNCHANGED <<sems, table>>
    PROVE  PoolTypes' /\ Grows
<1> DEFINE r == [lims[l] EXCEPT !.flight = n]
<1>1. lims[l] \in Limiter
  BY DEF PoolTypes
<1>2. r \in Limiter /\ r.slots = lims[l].slots
  BY <1>1 DEF Limiter
<1>3. lims' = [lims EXCEPT ![l] = r]
  BY DEF PoolTypes
<1>4. QED
  BY <1>2, <1>3, LimiterKept

(* Its RPM window changes.                                                 *)
LEMMA WindowSet ==
    ASSUME PoolTypes, NEW l \in DOMAIN lims, NEW n \in 0..Rpm,
           lims' = [lims EXCEPT ![l].window = n],
           UNCHANGED <<sems, table>>
    PROVE  PoolTypes' /\ Grows
<1> DEFINE r == [lims[l] EXCEPT !.window = n]
<1>1. lims[l] \in Limiter
  BY DEF PoolTypes
<1>2. r \in Limiter /\ r.slots = lims[l].slots
  BY <1>1 DEF Limiter
<1>3. lims' = [lims EXCEPT ![l] = r]
  BY DEF PoolTypes
<1>4. QED
  BY <1>2, <1>3, LimiterKept

(* Its streak of failures changes.                                         *)
LEMMA StreakSet ==
    ASSUME PoolTypes, NEW l \in DOMAIN lims, NEW n \in Nat,
           lims' = [lims EXCEPT ![l].streak = n],
           UNCHANGED <<sems, table>>
    PROVE  PoolTypes' /\ Grows
<1> DEFINE r == [lims[l] EXCEPT !.streak = n]
<1>1. lims[l] \in Limiter
  BY DEF PoolTypes
<1>2. r \in Limiter /\ r.slots = lims[l].slots
  BY <1>1 DEF Limiter
<1>3. lims' = [lims EXCEPT ![l] = r]
  BY DEF PoolTypes
<1>4. QED
  BY <1>2, <1>3, LimiterKept

(* Its backoff changes.                                                    *)
LEMMA BackoffSet ==
    ASSUME PoolTypes, NEW l \in DOMAIN lims, NEW b \in BOOLEAN,
           lims' = [lims EXCEPT ![l].backoff = b],
           UNCHANGED <<sems, table>>
    PROVE  PoolTypes' /\ Grows
<1> DEFINE r == [lims[l] EXCEPT !.backoff = b]
<1>1. lims[l] \in Limiter
  BY DEF PoolTypes
<1>2. r \in Limiter /\ r.slots = lims[l].slots
  BY <1>1 DEF Limiter
<1>3. lims' = [lims EXCEPT ![l] = r]
  BY DEF PoolTypes
<1>4. QED
  BY <1>2, <1>3, LimiterKept

(* An outcome ends the streak, and sets or ends the backoff.               *)
LEMMA OutcomeSet ==
    ASSUME PoolTypes, NEW l \in DOMAIN lims, NEW b \in BOOLEAN,
           lims' = [lims EXCEPT ![l].streak = 0, ![l].backoff = b],
           UNCHANGED <<sems, table>>
    PROVE  PoolTypes' /\ Grows
<1> DEFINE r == [lims[l] EXCEPT !.streak = 0, !.backoff = b]
<1>1. lims[l] \in Limiter
  BY DEF PoolTypes
<1>2. r \in Limiter /\ r.slots = lims[l].slots
  BY <1>1 DEF Limiter
<1>3. lims' = [lims EXCEPT ![l] = r]
  BY DEF PoolTypes
<1>4. QED
  BY <1>2, <1>3, LimiterKept

(* A semaphore is made; the others stay.                                   *)
LEMMA NewSemaphore ==
  ASSUME PoolTypes, NEW c \in Capacities, NewSem(c) = sems'
  PROVE  /\ sems' \in Seq(Semaphore) /\ Len(sems') = Len(sems) + 1
         /\ DOMAIN sems = 1..Len(sems) /\ DOMAIN sems' = 1..(Len(sems) + 1)
         /\ \A s \in DOMAIN sems : s \in DOMAIN sems' /\ sems'[s] = sems[s]
         /\ sems'[Len(sems) + 1] = [cap |-> c, free |-> c]
<1>1. [cap |-> c, free |-> c] \in Semaphore
  BY ConstantTypes DEF Semaphore
<1>2. /\ sems' = Append(sems, [cap |-> c, free |-> c])
      /\ sems \in Seq(Semaphore) /\ DOMAIN sems = 1..Len(sems)
  BY DEF NewSem, PoolTypes
<1>3. /\ sems' \in Seq(Semaphore) /\ Len(sems') = Len(sems) + 1
      /\ \A s \in 1..Len(sems) : sems'[s] = sems[s]
      /\ sems'[Len(sems) + 1] = [cap |-> c, free |-> c]
  BY <1>1, <1>2, SeqAppend
<1>4. DOMAIN sems' = 1..(Len(sems) + 1)
  BY <1>3
<1>5. \A s \in DOMAIN sems : s \in DOMAIN sems'
  BY <1>2, <1>4
<1>6. QED
  BY <1>2, <1>3, <1>4, <1>5

(* The permits of one semaphore change.                                    *)
LEMMA OneSemaphore ==
  ASSUME PoolTypes, NEW s \in DOMAIN sems, NEW n \in Nat,
         sems' = [sems EXCEPT ![s].free = n], UNCHANGED <<lims, table>>
  PROVE  PoolTypes' /\ Grows
<1>1. [sems[s] EXCEPT !.free = n] \in Semaphore
  BY PermitsChange DEF PoolTypes
<1>2. /\ sems' \in Seq(Semaphore) /\ Len(sems') = Len(sems)
      /\ DOMAIN sems' = DOMAIN sems
  BY <1>1, SeqUpdate DEF PoolTypes
<1>3. QED
  BY <1>2 DEF PoolTypes, Grows

-----------------------------------------------------------------------------
(* Types: what a step does to the workers.                                 *)

(* A step changes the locals of the worker that takes it, and no other's.  *)
LEMMA StepTouches ==
    ASSUME LocalTypes, NEW w \in Workers, Step(w) \/ Request(w)
    PROVE  Touches(w)
<1>1. CASE Start(w) \/ GiveUp(w) \/ Get(w) \/ Make(w) \/ Check(w)
  BY <1>1
     DEF Start, GiveUp, Get, Make, Check, Becomes, Continue, Return, shared,
         history, LocalTypes, Touches
<1>2. CASE Capture(w) \/ Swap(w) \/ Acquire(w) \/ AcquireTimesOut(w) \/
         CountIn(w) \/ RpmDeadline(w) \/ RpmEnter(w)
  BY <1>2
     DEF Capture, Swap, Acquire, AcquireTimesOut, CountIn, RpmDeadline,
         RpmEnter, Becomes, Continue, shared, history, LocalTypes, Touches
<1>3. CASE CallAnswers(w) \/ LogUsage(w) \/ CallFails(w) \/ LogFails(w) \/
         Sideline(w) \/ CountRead(w) \/ CountOut(w)
  BY <1>3
     DEF CallAnswers, LogUsage, CallFails, LogFails, Failed, Sideline,
         CountRead, CountOut, Becomes, shared, history, LocalTypes, Touches
<1>4. CASE Release(w)
  BY <1>4 DEF Release, Becomes, Continue, Return, LocalTypes, Touches
<1>5. CASE Request(w)
  BY <1>5 DEF Request, Becomes, shared, LocalTypes, Touches
<1>6. QED
  BY <1>1, <1>2, <1>3, <1>4, <1>5 DEF Step

(* What is left to show of a step: the pool, the counters, and what the    *)
(* worker that takes it knows.                                             *)
LEMMA OneWorker ==
    ASSUME RouterTypes, NEW w \in Workers, Touches(w), Grows,
           PoolTypes', CountTypes', Typed(w)', Knows(w)'
    PROVE  RouterTypes'
<1>1. LocalTypes'
  BY DEF RouterTypes, LocalTypes, Touches, Typed
<1>2. ASSUME NEW v \in Workers \ {w} PROVE Knows(v)'
  <2>1. /\ pc'[v] = pc[v] /\ at'[v] = at[v] /\ plan'[v] = plan[v]
        /\ lim'[v] = lim[v] /\ slot'[v] = slot[v]
    BY DEF RouterTypes, LocalTypes, Touches
  <2>2. Knows(v) /\ lim[v] \in Nat /\ slot[v] \in Nat
    BY <1>2 DEF RouterTypes, LocalTypes
  <2>3. Preset(v)' = Preset(v)
    BY <2>1 DEF Preset
  <2>4. pc[v] \notin Before => Preset(v) \in Presets
    BY PresetType DEF Before
  <2>5. QED
    BY <2>1, <2>2, <2>3, <2>4 DEF Knows, Before, Grows
<1>3. QED
  BY <1>1, <1>2 DEF RouterTypes

(* The steps of a request keep the types.                                  *)
LEMMA TypesStep ==
    ASSUME RouterTypes, NEW w \in Workers, Step(w) \/ Request(w)
    PROVE  RouterTypes'
<1> USE ConstantTypes
<1>0. PoolTypes /\ CountTypes /\ LocalTypes /\ Knows(w)
  BY DEF RouterTypes
<1>t. Touches(w)
  BY <1>0, StepTouches
<1>p. pc[w] \notin {"idle", "start"} =>
         /\ Preset(w) \in Presets /\ at[w] \in 1..Len(Chain)
         /\ table[Preset(w)] \in Nat /\ table[Preset(w)] <= Len(lims)
         /\ Len(lims) \in Nat /\ plan[w][Preset(w)] \in Capacities
         /\ table[Preset(w)] # 0 =>
               lims[table[Preset(w)]].slots \in 1..Len(sems)
  BY PresetType
<1>30. CASE Request(w)
  <2>1. PoolTypes' /\ Grows
     BY <1>0, <1>30, SamePool DEF Request, shared
  <2>2. CountTypes'
    <3>1. Cardinality({v \in Workers : pc[v] # "idle"}) \in Nat
      BY FS_Subset, FS_CardinalityType, ConstantsAssumption
    <3>2. QED
      BY <3>1, <1>0, <1>30 DEF Request, shared, CountTypes
  <2>4. Typed(w)'
    BY <1>0, <1>30
       DEF Request, Becomes, LocalTypes, CountTypes, Typed, PCs, shared
  <2>5. Knows(w)'
    BY <1>0, <1>30
       DEF Request, Becomes, LocalTypes, Knows, Before, CountTypes, Holding,
           shared
  <2>6. QED
    BY <2>1, <2>2, <1>t, <2>4, <2>5, OneWorker
<1>1. CASE Start(w)
  <2>1. PoolTypes' /\ Grows
    BY <1>0, <1>1, SamePool DEF Start, shared
  <2>2. CountTypes'
    BY <1>0, <1>1, <1>p
       DEF Start, Becomes, shared, history, counts, CountTypes
  <2>4. Typed(w)'
    BY <1>0, <1>1, <1>p, LocalNumbers
       DEF Before, Start, Becomes, shared, history, counts, LocalTypes,
           Typed, PCs, Outcomes, Unread
  <2>5. Knows(w)'
    BY <1>0, <1>1, <1>p, <2>1
       DEF Start, Becomes, shared, history, counts, LocalTypes, Knows,
           Before, Holding, Grows, Preset
  <2>6. QED
    BY <2>1, <2>2, <1>t, <2>4, <2>5, OneWorker
<1>2. CASE GiveUp(w)
  <2>1. PoolTypes' /\ Grows
    BY <1>0, <1>2, SamePool DEF GiveUp, shared
  <2>2. CountTypes'
    BY <1>0, <1>2, <1>p
       DEF GiveUp, Return, Becomes, shared, history, counts, CountTypes
  <2>4. Typed(w)'
    BY <1>0, <1>2, <1>p, LocalNumbers
       DEF Before, GiveUp, Return, Becomes, shared, history, counts,
           LocalTypes, Typed, PCs, Outcomes, Unread
  <2>5. Knows(w)'
    BY <1>0, <1>2, <1>p, <2>1
       DEF GiveUp, Return, Becomes, shared, history, counts, LocalTypes,
           Knows, Before, Holding, Grows, Preset
  <2>6. QED
    BY <2>1, <2>2, <1>t, <2>4, <2>5, OneWorker
<1>3. CASE Get(w)
  <2>1. PoolTypes' /\ Grows
    BY <1>0, <1>3, SamePool DEF Get, shared
  <2>2. CountTypes'
    BY <1>0, <1>3, <1>p DEF Get, Becomes, shared, history, counts, CountTypes
  <2>4. Typed(w)'
    BY <1>0, <1>3, <1>p, LocalNumbers
       DEF Before, Get, Becomes, shared, history, counts, LocalTypes, Typed,
           PCs, Outcomes, Unread
  <2>5. Knows(w)'
    BY <1>0, <1>3, <1>p, <2>1
       DEF Get, Becomes, shared, history, counts, LocalTypes, Knows, Before,
           Holding, Grows, Preset
  <2>6. QED
    BY <2>1, <2>2, <1>t, <2>4, <2>5, OneWorker
<1>4. CASE Make(w)
  <2> DEFINE c == plan[w][Preset(w)]
             new == [slots |-> Len(sems) + 1, cap |-> c, flight |-> 0,
                     window |-> 0, streak |-> 0, backoff |-> FALSE]
  <2>1. /\ Preset(w) \in Presets /\ c \in Capacities
        /\ Len(lims) \in Nat /\ Len(sems) \in Nat
    BY <1>0, <1>4, PresetType, Lengths DEF Make
  <2>2. /\ sems' = NewSem(c) /\ lims' = Append(lims, new)
        /\ table' = [table EXCEPT ![Preset(w)] = Len(lims) + 1]
    BY <1>4 DEF Make
  <2>3. new \in Limiter
    BY <2>1, ConstantTypes DEF Limiter
  <2>4. /\ lims' \in Seq(Limiter) /\ Len(lims') = Len(lims) + 1
        /\ \A l \in 1..Len(lims) : lims'[l] = lims[l]
        /\ lims'[Len(lims) + 1] = new
    <3> HIDE DEF new
    <3>1. QED
      BY <1>0, <2>2, <2>3, SeqAppend DEF PoolTypes
  <2>5. /\ sems' \in Seq(Semaphore) /\ Len(sems') = Len(sems) + 1
    BY <1>0, <2>1, <2>2, NewSemaphore
  <2>6. table' \in [Presets -> 0..Len(lims')]
    BY <1>0, <2>1, <2>2, <2>4 DEF PoolTypes
  <2>7. ASSUME NEW l \in DOMAIN lims' PROVE lims'[l].slots \in DOMAIN sems'
    <3>1. /\ DOMAIN lims' = 1..(Len(lims) + 1)
          /\ DOMAIN sems' = 1..(Len(sems) + 1)
      BY <2>1, <2>4, <2>5
    <3>2. CASE l = Len(lims) + 1
      BY <3>1, <3>2, <2>1, <2>4
    <3>3. CASE l # Len(lims) + 1
      <4>1. l \in DOMAIN lims /\ l \in 1..Len(lims)
        BY <3>1, <3>3, <2>1
      <4>2. lims[l].slots \in 1..Len(sems)
        BY <4>1, <1>0, <2>1 DEF PoolTypes
      <4>3. QED
        BY <4>1, <4>2, <3>1, <2>1, <2>4
    <3>4. QED
      BY <3>2, <3>3
  <2>8. PoolTypes' /\ Grows
    <3>1. \A p \in Presets : table[p] # 0 => table'[p] # 0
      BY <1>0, <2>1, <2>2 DEF PoolTypes
    <3>2. QED
      BY <2>1, <2>4, <2>5, <2>6, <2>7, <3>1 DEF PoolTypes, Grows
  <2>9. CountTypes'
    BY <1>0, <1>4 DEF Make, counts, history, CountTypes
  <2>10. Typed(w)' /\ Knows(w)'
    <3>1. /\ lim'[w] = Len(lims) + 1 /\ pc'[w] = "check" /\ at' = at
          /\ plan' = plan
          /\ seen' = seen /\ slot' = slot /\ reg' = reg /\ out' = out
          /\ won' = won /\ spoilt' = spoilt /\ pc[w] = "make"
      BY <1>0, <1>4 DEF Make, Becomes, history, LocalTypes
    <3>2. Preset(w)' = Preset(w)
      BY <3>1 DEF Preset
    <3>3. table'[Preset(w)] # 0
      BY <1>0, <2>1, <2>2 DEF PoolTypes
    <3>4. Typed(w)'
      BY <1>0, <3>1, <2>1 DEF LocalTypes, Typed, PCs
    <3>5. Knows(w)'
      BY <1>0, <3>1, <3>2, <3>3, <2>1, <2>4, <2>5
         DEF LocalTypes, Knows, Before, Holding
    <3>6. QED
      BY <3>4, <3>5
  <2>11. QED
    BY <1>t, <2>8, <2>9, <2>10, OneWorker
<1>5. CASE Check(w)
  <2>1. PoolTypes' /\ Grows
    BY <1>0, <1>5, SamePool DEF Check, shared
  <2>2. CountTypes'
    BY <1>0, <1>5, <1>p
       DEF Check, Continue, Becomes, shared, history, counts, CountTypes
  <2>4. Typed(w)'
    BY <1>0, <1>5, <1>p, LocalNumbers
       DEF Before, Check, Continue, Becomes, shared, history, counts,
           LocalTypes, Typed, PCs, Outcomes, Unread
  <2>5. Knows(w)'
    BY <1>0, <1>5, <1>p, <2>1
       DEF Check, Continue, Becomes, shared, history, counts, LocalTypes,
           Knows, Before, Holding, Grows, Preset
  <2>6. QED
    BY <2>1, <2>2, <1>t, <2>4, <2>5, OneWorker
<1>6. CASE Capture(w)
  <2> DEFINE l == table[Preset(w)]
  <2>1. /\ l \in Nat /\ l <= Len(lims) /\ l # 0
        /\ lims[l].slots \in 1..Len(sems) /\ Len(sems) \in Nat
    BY <1>0, <1>6, PresetType, Lengths DEF Capture, Knows, Before
  <2>2. PoolTypes' /\ Grows /\ CountTypes'
    BY <1>0, <1>6, SamePool DEF Capture, shared, counts, history, CountTypes
  <2>3. /\ lim'[w] = l /\ pc[w] = "get2"
        /\ \/ pc'[w] = "swap2" /\ slot'[w] = slot[w]
           \/ pc'[w] = "acquire" /\ slot'[w] = lims[l].slots
        /\ UNCHANGED <<lims, sems, table, at, plan, seen, reg, out, won,
                       spoilt>>
    <3>1. CASE Swaps(w, l)
      BY <1>0, <1>6, <3>1 DEF Capture, Becomes, shared, history, LocalTypes
    <3>2. CASE ~Swaps(w, l)
      BY <1>0, <1>6, <3>2 DEF Capture, Becomes, shared, history, LocalTypes
    <3>3. QED
      BY <3>1, <3>2
  <2>4. table'[Preset(w)'] # 0
    BY <2>1, <2>3 DEF Preset
  <2> HIDE DEF l
  <2>5. Typed(w)'
    BY <1>0, <2>1, <2>3 DEF LocalTypes, Typed, PCs
  <2>6. Knows(w)'
    BY <1>0, <2>1, <2>3, <2>4 DEF LocalTypes, Knows, Before, Holding
  <2>7. QED
    BY <1>t, <2>2, <2>5, <2>6, OneWorker
<1>7. CASE Swap(w)
  <2> DEFINE c == plan[w][Preset(w)]
             r == [lims[lim[w]] EXCEPT !.slots = Len(sems) + 1, !.cap = c]
  <2>1. /\ c \in Capacities /\ Len(lims) \in Nat /\ Len(sems) \in Nat
        /\ lim[w] \in DOMAIN lims /\ lims[lim[w]] \in Limiter
    BY <1>0, <1>7, PresetType, LimiterType, Lengths DEF Swap, Before
  <2>2. /\ sems' = NewSem(c) /\ lims' = [lims EXCEPT ![lim[w]] = r]
        /\ table' = table
    BY <2>1, <1>0, <1>7 DEF Swap, PoolTypes
  <2>3. r \in Limiter /\ r.slots = Len(sems) + 1
    <3>1. Len(sems) + 1 \in Nat
      BY <2>1
    <3>2. QED
      BY <2>1, <3>1, SlotsChange
  <2>4. /\ lims' \in Seq(Limiter) /\ Len(lims') = Len(lims)
        /\ DOMAIN lims' = DOMAIN lims
        /\ lims'[lim[w]] = r
        /\ \A l \in DOMAIN lims \ {lim[w]} : lims'[l] = lims[l]
    <3> HIDE DEF r
    <3>1. QED
      BY <1>0, <2>1, <2>2, <2>3, SeqUpdate DEF PoolTypes
  <2> HIDE DEF r
  <2>5. /\ sems' \in Seq(Semaphore) /\ Len(sems') = Len(sems) + 1
        /\ DOMAIN sems' = 1..(Len(sems) + 1) /\ DOMAIN sems = 1..Len(sems)
    BY <1>0, <2>1, <2>2, NewSemaphore DEF PoolTypes
  <2>6. ASSUME NEW l \in DOMAIN lims' PROVE lims'[l].slots \in DOMAIN sems'
    <3>1. l = lim[w] \/ (l # lim[w] /\ lims[l].slots \in DOMAIN sems)
      BY <1>0, <2>4 DEF PoolTypes
    <3>2. QED
      BY <3>1, <2>1, <2>3, <2>4, <2>5
  <2>7. PoolTypes' /\ Grows
    BY <1>0, <2>1, <2>2, <2>4, <2>5, <2>6 DEF PoolTypes, Grows
  <2>8. /\ pc[w] \in {"swap", "swap2"}
        /\ \/ pc'[w] = "check" /\ slot'[w] = slot[w]
           \/ pc'[w] = "acquire" /\ slot'[w] = Len(sems) + 1
        /\ UNCHANGED <<at, plan, seen, lim, reg, out, won, spoilt>>
        /\ CountTypes'
    <3>1. CASE pc[w] = "swap"
      BY <1>0, <1>7, <3>1
         DEF Swap, Becomes, counts, history, LocalTypes, CountTypes
    <3>2. CASE pc[w] # "swap"
      BY <1>0, <1>7, <3>2
         DEF Swap, Becomes, counts, history, LocalTypes, CountTypes
    <3>3. QED
      BY <3>1, <3>2
  <2>9. table[Preset(w)] # 0 /\ table' = table /\ Preset(w)' = Preset(w)
    BY <1>0, <2>2, <2>8 DEF Knows, Before, Preset
  <2>10. Typed(w)'
    BY <1>0, <2>1, <2>8 DEF LocalTypes, Typed, PCs
  <2>11. Knows(w)'
    BY <1>0, <2>1, <2>4, <2>5, <2>8, <2>9
       DEF LocalTypes, Knows, Before, Holding
  <2>12. QED
    BY <1>t, <2>7, <2>8, <2>10, <2>11, OneWorker
<1>8. CASE Acquire(w)
  <2>1. PoolTypes' /\ Grows
    <3>1. slot[w] \in DOMAIN sems /\ sems[slot[w]] \in Semaphore
      BY <1>8, SlotType DEF Acquire, Holding
    <3> DEFINE n == sems[slot[w]].free - 1
    <3>2. n \in Nat
      BY <3>1, <1>8 DEF Semaphore, Acquire
    <3>3. /\ sems' = [sems EXCEPT ![slot[w]].free = n]
          /\ UNCHANGED <<lims, table>>
      BY <3>1, <1>8 DEF Acquire, Semaphore, PoolTypes
    <3>4. QED
      BY <1>0, <3>1, <3>2, <3>3, OneSemaphore
  <2>2. CountTypes'
    BY <1>0, <1>8, <1>p
       DEF Acquire, Becomes, shared, history, counts, CountTypes
  <2>4. Typed(w)'
    BY <1>0, <1>8, <1>p, LocalNumbers
       DEF Before, Acquire, Becomes, shared, history, counts, LocalTypes,
           Typed, PCs, Outcomes, Unread
  <2>5. Knows(w)'
    BY <1>0, <1>8, <1>p, <2>1
       DEF Acquire, Becomes, shared, history, counts, LocalTypes, Knows,
           Before, Holding, Grows, Preset
  <2>6. QED
    BY <2>1, <2>2, <1>t, <2>4, <2>5, OneWorker
<1>9. CASE AcquireTimesOut(w)
  <2>1. PoolTypes' /\ Grows
    BY <1>0, <1>9, SamePool DEF AcquireTimesOut, shared
  <2>2. CountTypes'
    BY <1>0, <1>9, <1>p
       DEF AcquireTimesOut, Continue, Becomes, shared, history, counts,
           CountTypes
  <2>4. Typed(w)'
    BY <1>0, <1>9, <1>p, LocalNumbers
       DEF Before, AcquireTimesOut, Continue, Becomes, shared, history,
           counts, LocalTypes, Typed, PCs, Outcomes, Unread
  <2>5. Knows(w)'
    BY <1>0, <1>9, <1>p, <2>1
       DEF AcquireTimesOut, Continue, Becomes, shared, history, counts,
           LocalTypes, Knows, Before, Holding, Grows, Preset
  <2>6. QED
    BY <2>1, <2>2, <1>t, <2>4, <2>5, OneWorker
<1>10. CASE CountIn(w)
  <2>1. PoolTypes' /\ Grows
    <3> DEFINE n == lims[lim[w]].flight + 1
    <3>1. lim[w] \in DOMAIN lims /\ lims[lim[w]] \in Limiter
      BY <1>10, LimiterType DEF CountIn, Holding, Before
    <3>2. n \in Nat
      BY <3>1, <1>0, <1>10, LimiterFields DEF CountIn, LocalTypes
    <3>3. /\ lims' = [lims EXCEPT ![lim[w]].flight = n]
          /\ UNCHANGED <<sems, table>>
      BY <1>10 DEF CountIn
    <3> HIDE DEF n
    <3>4. QED
      BY <1>0, <3>1, <3>2, <3>3, FlightSet
  <2>2. CountTypes'
    BY <1>0, <1>10, <1>p
       DEF CountIn, Becomes, shared, history, counts, CountTypes
  <2>4. Typed(w)'
    BY <1>0, <1>10, <1>p, LocalNumbers
       DEF Before, CountIn, Becomes, shared, history, counts, LocalTypes,
           Typed, PCs, Outcomes, Unread
  <2>5. Knows(w)'
    BY <1>0, <1>10, <1>p, <2>1
       DEF CountIn, Becomes, shared, history, counts, LocalTypes, Knows,
           Before, Holding, Grows, Preset
  <2>6. QED
    BY <2>1, <2>2, <1>t, <2>4, <2>5, OneWorker
<1>11. CASE RpmDeadline(w)
  <2>1. PoolTypes' /\ Grows
    BY <1>0, <1>11, SamePool DEF RpmDeadline, shared
  <2>2. CountTypes'
    BY <1>0, <1>11, <1>p
       DEF RpmDeadline, Becomes, shared, history, counts, CountTypes
  <2>4. Typed(w)'
    BY <1>0, <1>11, <1>p, LocalNumbers
       DEF Before, RpmDeadline, Becomes, shared, history, counts,
           LocalTypes, Typed, PCs, Outcomes, Unread
  <2>5. Knows(w)'
    BY <1>0, <1>11, <1>p, <2>1
       DEF RpmDeadline, Becomes, shared, history, counts, LocalTypes, Knows,
           Before, Holding, Grows, Preset
  <2>6. QED
    BY <2>1, <2>2, <1>t, <2>4, <2>5, OneWorker
<1>12. CASE RpmEnter(w)
  <2>1. PoolTypes' /\ Grows
    <3> DEFINE n == lims[lim[w]].window + 1
    <3>1. lim[w] \in DOMAIN lims /\ lims[lim[w]] \in Limiter
      BY <1>12, LimiterType DEF RpmEnter, Holding, Before
    <3>2. n \in 0..Rpm
      BY <3>1, <1>0, <1>12, LimiterFields DEF RpmEnter, LocalTypes
    <3>3. /\ lims' = [lims EXCEPT ![lim[w]].window = n]
          /\ UNCHANGED <<sems, table>>
      BY <1>12 DEF RpmEnter
    <3> HIDE DEF n
    <3>4. QED
      BY <1>0, <3>1, <3>2, <3>3, WindowSet
  <2>2. CountTypes'
    BY <1>0, <1>12, <1>p
       DEF RpmEnter, Becomes, shared, history, counts, CountTypes
  <2>4. Typed(w)'
    BY <1>0, <1>12, <1>p, LocalNumbers
       DEF Before, RpmEnter, Becomes, shared, history, counts, LocalTypes,
           Typed, PCs, Outcomes, Unread
  <2>5. Knows(w)'
    BY <1>0, <1>12, <1>p, <2>1
       DEF RpmEnter, Becomes, shared, history, counts, LocalTypes, Knows,
           Before, Holding, Grows, Preset
  <2>6. QED
    BY <2>1, <2>2, <1>t, <2>4, <2>5, OneWorker
<1>13. CASE CallAnswers(w)
  <2>1. lim[w] \in DOMAIN lims
    BY <1>13, LimiterType DEF CallAnswers, Before
  <2> won[w] + 1 \in Nat
    BY <1>0 DEF LocalTypes
  <2>2. PoolTypes' /\ Grows
    BY <1>0, <1>13, <2>1, OutcomeSet DEF CallAnswers
  <2>3. CountTypes'
    BY <1>0, <1>13 DEF CallAnswers, counts, CountTypes
  <2>4. Typed(w)'
    BY <1>0, <1>13, <2>1 DEF CallAnswers, Becomes, LocalTypes, Typed, PCs
  <2>5. Knows(w)'
    BY <1>0, <1>13, <2>2
       DEF CallAnswers, Becomes, LocalTypes, Knows, Before, Holding, Grows,
           Preset
  <2>6. QED
    BY <1>t, <2>2, <2>3, <2>4, <2>5, OneWorker
<1>14. CASE LogUsage(w)
  <2>1. PoolTypes' /\ Grows
    BY <1>0, <1>14, SamePool DEF LogUsage, shared
  <2>2. CountTypes'
    BY <1>0, <1>14, <1>p
       DEF LogUsage, Becomes, shared, history, counts, CountTypes
  <2>4. Typed(w)'
    BY <1>0, <1>14, <1>p, LocalNumbers
       DEF Before, LogUsage, Becomes, shared, history, counts, LocalTypes,
           Typed, PCs, Outcomes, Unread
  <2>5. Knows(w)'
    BY <1>0, <1>14, <1>p, <2>1
       DEF LogUsage, Becomes, shared, history, counts, LocalTypes, Knows,
           Before, Holding, Grows, Preset
  <2>6. QED
    BY <2>1, <2>2, <1>t, <2>4, <2>5, OneWorker
<1>15. CASE CallFails(w)
  <2> DEFINE n == lims[lim[w]].streak + 1
  <2>1. /\ lim[w] \in DOMAIN lims /\ lims[lim[w]] \in Limiter
    BY <1>15, LimiterType DEF CallFails, Before
  <2>2. n \in Nat
    BY <2>1, LimiterFields
  <2>3. /\ pc[w] \in {"call", "log"} /\ failures < MaxFailures
        /\ failures' = failures + 1
        /\ lims' = [lims EXCEPT ![lim[w]].streak = n]
        /\ UNCHANGED <<sems, table>>
        /\ pc' = [pc EXCEPT ![w] =
                      IF n >= Threshold THEN "sideline" ELSE "dec"]
        /\ out' = [out EXCEPT ![w] = "next"]
        /\ spoilt' \in {spoilt, [spoilt EXCEPT ![w] = @ + 1]}
        /\ UNCHANGED <<conf, cached, usage, at, plan, seen, lim, slot, reg,
                       requests, edits, answers, won, peak>>
    BY <1>15 DEF CallFails, Failed, Becomes
  <2> HIDE DEF n
  <2>4. PoolTypes' /\ Grows
    BY <1>0, <2>1, <2>2, <2>3, StreakSet
  <2>5. CountTypes'
    <3>1. failures' \in 0..MaxFailures
      BY <1>0, <2>3, ConstantTypes DEF CountTypes
    <3>2. QED
      BY <1>0, <2>3, <3>1 DEF CountTypes
  <2>7. Typed(w)'
    BY <1>0, <2>3 DEF LocalTypes, Typed, PCs, Outcomes
  <2>8. Knows(w)'
    BY <1>0, <2>3, <2>4 DEF LocalTypes, Knows, Before, Holding, Grows, Preset
  <2>9. QED
    BY <1>t, <2>4, <2>5, <2>7, <2>8, OneWorker
<1>16. CASE LogFails(w)
  <2> DEFINE n == lims[lim[w]].streak + 1
  <2>1. /\ lim[w] \in DOMAIN lims /\ lims[lim[w]] \in Limiter
    BY <1>16, LimiterType DEF LogFails, Before
  <2>2. n \in Nat
    BY <2>1, LimiterFields
  <2>3. /\ pc[w] \in {"call", "log"} /\ failures < MaxFailures
        /\ failures' = failures + 1
        /\ lims' = [lims EXCEPT ![lim[w]].streak = n]
        /\ UNCHANGED <<sems, table>>
        /\ pc' = [pc EXCEPT ![w] =
                      IF n >= Threshold THEN "sideline" ELSE "dec"]
        /\ out' = [out EXCEPT ![w] = "next"]
        /\ spoilt' \in {spoilt, [spoilt EXCEPT ![w] = @ + 1]}
        /\ UNCHANGED <<conf, cached, usage, at, plan, seen, lim, slot, reg,
                       requests, edits, answers, won, peak>>
    BY <1>16 DEF LogFails, Failed, Becomes
  <2> HIDE DEF n
  <2>4. PoolTypes' /\ Grows
    BY <1>0, <2>1, <2>2, <2>3, StreakSet
  <2>5. CountTypes'
    <3>1. failures' \in 0..MaxFailures
      BY <1>0, <2>3, ConstantTypes DEF CountTypes
    <3>2. QED
      BY <1>0, <2>3, <3>1 DEF CountTypes
  <2>7. Typed(w)'
    BY <1>0, <2>3 DEF LocalTypes, Typed, PCs, Outcomes
  <2>8. Knows(w)'
    BY <1>0, <2>3, <2>4 DEF LocalTypes, Knows, Before, Holding, Grows, Preset
  <2>9. QED
    BY <1>t, <2>4, <2>5, <2>7, <2>8, OneWorker
<1>17. CASE Sideline(w)
  <2>1. PoolTypes' /\ Grows
    <3>1. lim[w] \in DOMAIN lims
      BY <1>17, LimiterType DEF Sideline, Before
    <3>2. QED
      BY <1>0, <1>17, <3>1, OutcomeSet DEF Sideline
  <2>2. CountTypes'
    BY <1>0, <1>17, <1>p
       DEF Sideline, Becomes, shared, history, counts, CountTypes
  <2>4. Typed(w)'
    BY <1>0, <1>17, <1>p, LocalNumbers
       DEF Before, Sideline, Becomes, shared, history, counts, LocalTypes,
           Typed, PCs, Outcomes, Unread
  <2>5. Knows(w)'
    BY <1>0, <1>17, <1>p, <2>1
       DEF Sideline, Becomes, shared, history, counts, LocalTypes, Knows,
           Before, Holding, Grows, Preset
  <2>6. QED
    BY <2>1, <2>2, <1>t, <2>4, <2>5, OneWorker
<1>18. CASE CountRead(w)
  <2>1. PoolTypes' /\ Grows
    BY <1>0, <1>18, SamePool DEF CountRead, shared
  <2>2. CountTypes'
    BY <1>0, <1>18, <1>p
       DEF CountRead, Becomes, shared, history, counts, CountTypes
  <2>4. Typed(w)'
    BY <1>0, <1>18, <1>p, LocalNumbers
       DEF Before, CountRead, Becomes, shared, history, counts, LocalTypes,
           Typed, PCs, Outcomes, Unread
  <2>5. Knows(w)'
    BY <1>0, <1>18, <1>p, <2>1
       DEF CountRead, Becomes, shared, history, counts, LocalTypes, Knows,
           Before, Holding, Grows, Preset
  <2>6. QED
    BY <2>1, <2>2, <1>t, <2>4, <2>5, OneWorker
<1>19. CASE CountOut(w)
  <2>1. PoolTypes' /\ Grows
    <3> DEFINE n == IF reg[w] = 0 THEN 0 ELSE reg[w] - 1
    <3>1. lim[w] \in DOMAIN lims /\ lims[lim[w]] \in Limiter
      BY <1>19, LimiterType DEF CountOut, Holding, Before
    <3>2. n \in Nat
      BY <3>1, <1>0, <1>19, LimiterFields DEF CountOut, LocalTypes
    <3>3. /\ lims' = [lims EXCEPT ![lim[w]].flight = n]
          /\ UNCHANGED <<sems, table>>
      BY <1>19 DEF CountOut
    <3> HIDE DEF n
    <3>4. QED
      BY <1>0, <3>1, <3>2, <3>3, FlightSet
  <2>2. CountTypes'
    BY <1>0, <1>19, <1>p
       DEF CountOut, Becomes, shared, history, counts, CountTypes
  <2>4. Typed(w)'
    BY <1>0, <1>19, <1>p, LocalNumbers
       DEF Before, CountOut, Becomes, shared, history, counts, LocalTypes,
           Typed, PCs, Outcomes, Unread
  <2>5. Knows(w)'
    BY <1>0, <1>19, <1>p, <2>1
       DEF CountOut, Becomes, shared, history, counts, LocalTypes, Knows,
           Before, Holding, Grows, Preset
  <2>6. QED
    BY <2>1, <2>2, <1>t, <2>4, <2>5, OneWorker
<1>20. CASE Release(w)
  <2> DEFINE n == sems[slot[w]].free + 1
  <2>1. slot[w] \in DOMAIN sems /\ sems[slot[w]] \in Semaphore
    BY <1>20, SlotType DEF Release, Holding
  <2>2. n \in Nat
    BY <2>1, PermitsChange
  <2>3. /\ sems' = [sems EXCEPT ![slot[w]].free = n]
        /\ UNCHANGED <<lims, table>>
    BY <1>20 DEF Release
  <2> HIDE DEF n
  <2>4. PoolTypes' /\ Grows
    BY <1>0, <2>1, <2>2, <2>3, OneSemaphore
  <2>5. CountTypes'
    <3>1. Preset(w) \in Presets
      BY <1>20, PresetType DEF Release
    <3>2. answers' \in {answers, [answers EXCEPT ![Preset(w)] = @ + 1]}
      BY <1>20 DEF Release
    <3>3. answers' \in [Presets -> Nat]
      BY <1>0, <3>1, <3>2 DEF CountTypes
    <3>4. QED
      BY <1>0, <1>20, <3>3 DEF Release, counts, CountTypes
  <2>6. CASE out[w] = "next"
    <3>1. /\ pc[w] = "release" /\ Continue(w)
          /\ UNCHANGED <<plan, seen, reg, out, won, spoilt>>
      BY <1>20, <2>6 DEF Release
    <3>3. at[w] \in 1..Len(Chain)
      BY <3>1, PresetType
    <3>4. Typed(w)'
      BY <1>0, <3>1, <3>3, ConstantTypes
         DEF Continue, Becomes, LocalTypes, Typed, PCs
    <3>5. Knows(w)'
      BY <1>0, <2>4, <3>1
         DEF Continue, Becomes, LocalTypes, Knows, Before, Holding, Grows,
             Preset
    <3>6. QED
      BY <1>t, <2>4, <2>5, <3>4, <3>5, OneWorker
  <2>7. CASE out[w] # "next"
    <3>1. Return(w) /\ reg' = reg
      BY <1>20, <2>7 DEF Release
    <3>3. Typed(w)'
      BY <1>0, <3>1, ConstantTypes
         DEF Return, Becomes, LocalTypes, Typed, PCs, Outcomes, Unread
    <3>4. Knows(w)'
      BY <1>0, <2>4, <3>1
         DEF Return, Becomes, LocalTypes, Knows, Before, Holding, Grows,
             Preset
    <3>5. QED
      BY <1>t, <2>4, <2>5, <3>3, <3>4, OneWorker
  <2>8. QED
    BY <2>6, <2>7
<1>99. QED
  BY <1>30, <1>1, <1>2, <1>3, <1>4, <1>5, <1>6, <1>7, <1>8, <1>9, <1>10,
     <1>11, <1>12, <1>13, <1>14, <1>15, <1>16, <1>17, <1>18, <1>19, <1>20
     DEF Step

-----------------------------------------------------------------------------
(* Permits: as many as the semaphore was made with.                        *)

(* The steps that take or give a permit, those that make a semaphore, and  *)
(* those that do neither.                                                  *)
LEMMA PermitSteps ==
    ASSUME RouterTypes, NEW w \in Workers, Step(w) \/ Request(w)
    PROVE  \/ Acquire(w) \/ Release(w)
           \/ /\ sems' = NewSem(plan[w][Preset(w)])
              /\ plan[w][Preset(w)] \in Capacities
              /\ pc[w] \notin Holding /\ pc'[w] \notin Holding
           \/ /\ sems' = sems
              /\ pc[w] \in Holding <=> pc'[w] \in Holding
              /\ pc[w] \in Holding => slot'[w] = slot[w]
<1>0. LocalTypes
  BY DEF RouterTypes
<1>1. CASE Start(w) \/ GiveUp(w) \/ Get(w) \/ Check(w) \/ Capture(w) \/
         AcquireTimesOut(w) \/ Request(w)
  BY <1>0, <1>1
     DEF Start, GiveUp, Get, Check, Capture, AcquireTimesOut, Request,
         Becomes, Continue, Return, shared, LocalTypes, Holding
<1>2. CASE CountIn(w) \/ RpmDeadline(w) \/ RpmEnter(w) \/ CallAnswers(w) \/
         LogUsage(w)
  BY <1>0, <1>2
     DEF CountIn, RpmDeadline, RpmEnter, CallAnswers, LogUsage, Becomes,
         shared, LocalTypes, Holding
<1>3. CASE CallFails(w) \/ LogFails(w) \/ Sideline(w) \/ CountRead(w) \/
         CountOut(w)
  BY <1>0, <1>3
     DEF CallFails, LogFails, Failed, Sideline, CountRead, CountOut,
         Becomes, shared, LocalTypes, Holding
<1>4. CASE Make(w) \/ Swap(w)
  BY <1>0, <1>4, PresetType DEF Make, Swap, Becomes, LocalTypes, Holding
<1>5. QED
  BY <1>1, <1>2, <1>3, <1>4 DEF Step

(* The requests that hold a permit can be counted.                         *)
LEMMA HoldersFinite ==
    ASSUME NEW s
    PROVE  IsFiniteSet(Holders(s)) /\ Cardinality(Holders(s)) \in Nat
BY FS_Subset, FS_CardinalityType, ConstantsAssumption DEF Holders

(* The other requests keep their permits.                                  *)
LEMMA OthersHold ==
    ASSUME LocalTypes, NEW w \in Workers, Touches(w), NEW s
    PROVE  \A v \in Workers \ {w} : v \in Holders(s)' <=> v \in Holders(s)
BY DEF LocalTypes, Touches, Holders

(* No step loses a permit or makes one.                                    *)
LEMMA PermitsKept ==
    ASSUME RouterTypes, RouterTypes', PermitsReturned,
           NEW w \in Workers, Step(w) \/ Request(w)
    PROVE  PermitsReturned'
<1>0. /\ Touches(w) /\ PoolTypes /\ PoolTypes' /\ LocalTypes /\ Knows(w)
  BY StepTouches DEF RouterTypes
<1>1. CASE Acquire(w)
  <2>1. /\ pc[w] = "acquire" /\ slot[w] \in DOMAIN sems
        /\ sems[slot[w]].free \in Nat
        /\ sems' = [sems EXCEPT ![slot[w]].free = @ - 1] /\ pc'[w] = "inc"
        /\ slot' = slot
    BY <1>0, <1>1, SlotType, PermitsChange
       DEF Acquire, Becomes, LocalTypes, Holding
  <2>2. SUFFICES ASSUME NEW s \in DOMAIN sems
                 PROVE  sems'[s].free + Cardinality(Holders(s)') = sems'[s].cap
    BY <2>1, <1>0 DEF PermitsReturned, PoolTypes
  <2>3. /\ sems[s].free + Cardinality(Holders(s)) = sems[s].cap
        /\ sems[s].free \in Nat
    BY <1>0, PermitsChange DEF PermitsReturned, PoolTypes
  <2>4. CASE s = slot[w]
    <3>1. Holders(s)' = Holders(s) \cup {w} /\ w \notin Holders(s)
      BY <2>1, <2>4, <1>0, OthersHold DEF Holders, Holding
    <3>2. Cardinality(Holders(s)') = Cardinality(Holders(s)) + 1
      BY <3>1, HoldersFinite, FS_AddElement
    <3>3. sems'[s].free = sems[s].free - 1 /\ sems'[s].cap = sems[s].cap
      <4>1. /\ sems'[s] = [sems[s] EXCEPT !.free = sems[s].free - 1]
            /\ sems[s] \in Semaphore
        BY <2>1, <2>4, <1>0 DEF PoolTypes
      <4>2. QED
        BY <4>1 DEF Semaphore
    <3>4. QED
      BY <2>3, <3>2, <3>3, HoldersFinite
  <2>5. CASE s # slot[w]
    <3>1. Holders(s)' = Holders(s)
      BY <2>1, <2>5, <1>0, OthersHold DEF Holders, Holding
    <3>2. sems'[s] = sems[s]
      BY <2>1, <2>5, <1>0 DEF PoolTypes
    <3>3. QED
      BY <2>3, <3>1, <3>2
  <2>6. QED
    BY <2>4, <2>5
<1>2. CASE Release(w)
  <2>1. /\ pc[w] = "release" /\ slot[w] \in DOMAIN sems
        /\ sems[slot[w]].free \in Nat
        /\ sems' = [sems EXCEPT ![slot[w]].free = @ + 1]
        /\ pc'[w] \notin Holding
    BY <1>0, <1>2, SlotType, PermitsChange
       DEF Release, Return, Continue, Becomes, LocalTypes, Holding
  <2>2. SUFFICES ASSUME NEW s \in DOMAIN sems
                 PROVE  sems'[s].free + Cardinality(Holders(s)') = sems'[s].cap
    BY <2>1, <1>0 DEF PermitsReturned, PoolTypes
  <2>3. /\ sems[s].free + Cardinality(Holders(s)) = sems[s].cap
        /\ sems[s].free \in Nat
    BY <1>0, PermitsChange DEF PermitsReturned, PoolTypes
  <2>4. CASE s = slot[w]
    <3>1. Holders(s)' = Holders(s) \ {w} /\ w \in Holders(s)
      BY <2>1, <2>4, <1>0, OthersHold DEF Holders, Holding
    <3>2. Cardinality(Holders(s)') = Cardinality(Holders(s)) - 1
      BY <3>1, HoldersFinite, FS_RemoveElement
    <3>3. sems'[s].free = sems[s].free + 1 /\ sems'[s].cap = sems[s].cap
      <4>1. /\ sems'[s] = [sems[s] EXCEPT !.free = sems[s].free + 1]
            /\ sems[s] \in Semaphore
        BY <2>1, <2>4, <1>0 DEF PoolTypes
      <4>2. QED
        BY <4>1 DEF Semaphore
    <3>4. QED
      BY <2>3, <3>2, <3>3, HoldersFinite
  <2>5. CASE s # slot[w]
    <3>1. Holders(s)' = Holders(s)
      BY <2>1, <2>5, <1>0, OthersHold DEF Holders, Holding
    <3>2. sems'[s] = sems[s]
      BY <2>1, <2>5, <1>0 DEF PoolTypes
    <3>3. QED
      BY <2>3, <3>1, <3>2
  <2>6. QED
    BY <2>4, <2>5
<1>3. ASSUME /\ sems' = NewSem(plan[w][Preset(w)])
             /\ plan[w][Preset(w)] \in Capacities
             /\ pc[w] \notin Holding /\ pc'[w] \notin Holding
      PROVE  PermitsReturned'
  <2> DEFINE c == plan[w][Preset(w)]
  <2>1. /\ DOMAIN sems = 1..Len(sems) /\ DOMAIN sems' = 1..(Len(sems) + 1)
        /\ Len(sems) \in Nat
        /\ \A s \in DOMAIN sems : sems'[s] = sems[s]
        /\ sems'[Len(sems) + 1] = [cap |-> c, free |-> c] /\ c \in Nat
    BY <1>0, <1>3, NewSemaphore, Lengths, ConstantTypes
  <2>2. ASSUME NEW s \in DOMAIN sems
        PROVE  sems'[s].free + Cardinality(Holders(s)') = sems'[s].cap
    <3>1. Holders(s)' = Holders(s)
      BY <1>0, <1>3, OthersHold DEF Holders
    <3>2. QED
      BY <3>1, <2>1 DEF PermitsReturned
  <2> PICK n : n = Len(sems) + 1
    OBVIOUS
  <2>3. sems'[n].free + Cardinality(Holders(n)') = sems'[n].cap
    <3>1. \A v \in Workers : slot[v] # n
      BY <2>1 DEF RouterTypes, LocalTypes, Knows, Before
    <3>2. Holders(n)' = {}
      BY <1>3, <3>1, <1>0, OthersHold DEF Holders
    <3>3. Cardinality(Holders(n)') = 0
      BY <3>2, FS_EmptySet
    <3>4. sems'[n].free = c /\ sems'[n].cap = c /\ c \in Nat
      BY <2>1
    <3>5. QED
      BY <3>3, <3>4
  <2>4. \A s \in DOMAIN sems' : s = n \/ s \in DOMAIN sems
    BY <2>1
  <2>5. QED
    BY <2>2, <2>3, <2>4 DEF PermitsReturned
<1>4. ASSUME sems' = sems, pc[w] \in Holding <=> pc'[w] \in Holding,
             pc[w] \in Holding => slot'[w] = slot[w]
      PROVE  PermitsReturned'
  <2>1. \A s : Holders(s)' = Holders(s)
    BY <1>0, <1>4, OthersHold DEF Holders
  <2>2. QED
    BY <1>4, <2>1 DEF PermitsReturned
<1>5. QED
  BY <1>1, <1>2, <1>3, <1>4, PermitSteps

-----------------------------------------------------------------------------
(* Usage: written once for each answer.                                    *)

Answered(w) == pc[w] \in Ending /\ out[w] = "answer"

Answering(p) == {w \in Workers : Answered(w) /\ Preset(w) = p}

(* UsageIsAnswers, by these names.                                         *)
UsageCounted ==
    \A p \in Presets : usage[p] = answers[p] + Cardinality(Answering(p))

(* The steps that write a usage, those that return an answer, and those    *)
(* that do neither.                                                        *)
LEMMA UsageSteps ==
    ASSUME RouterTypes, NEW w \in Workers, Step(w) \/ Request(w),
           pc[w] \notin Ending => out[w] = "next"
    PROVE  \/ LogUsage(w)
           \/ Release(w) /\ out[w] = "answer"
           \/ /\ UNCHANGED <<usage, answers>>
              /\ Answered(w) <=> Answered(w)'
              /\ Answered(w) => Preset(w)' = Preset(w)
<1>0. LocalTypes
  BY DEF RouterTypes
<1>1. CASE Start(w) \/ GiveUp(w) \/ Get(w) \/ Check(w) \/ Capture(w) \/
         AcquireTimesOut(w) \/ Request(w) \/ Make(w) \/ Swap(w) \/
         Acquire(w)
  BY <1>0, <1>1
     DEF Start, GiveUp, Get, Check, Capture, AcquireTimesOut, Request, Make,
         Swap, Acquire, Becomes, Continue, Return, shared, history,
         LocalTypes, Ending, Answered
<1>2. CASE CountIn(w) \/ RpmDeadline(w) \/ RpmEnter(w) \/ CallAnswers(w)
  BY <1>0, <1>2
     DEF CountIn, RpmDeadline, RpmEnter, CallAnswers, Becomes, shared,
         history, LocalTypes, Ending, Answered
<1>3. CASE CallFails(w) \/ LogFails(w) \/ Sideline(w) \/ CountRead(w) \/
         CountOut(w)
  BY <1>0, <1>3
     DEF CallFails, LogFails, Failed, Sideline, CountRead, CountOut,
         Becomes, shared, history, LocalTypes, Ending, Answered, Preset
<1>4. CASE Release(w) /\ out[w] # "answer"
  BY <1>0, <1>4
     DEF Release, Becomes, Continue, Return, LocalTypes, Ending, Answered
<1>5. QED
  BY <1>1, <1>2, <1>3, <1>4 DEF Step

(* The requests about to answer can be counted.                            *)
LEMMA AnsweringFinite ==
    ASSUME NEW p
    PROVE  IsFiniteSet(Answering(p)) /\ Cardinality(Answering(p)) \in Nat
BY FS_Subset, FS_CardinalityType, ConstantsAssumption DEF Answering, Answered

(* The other requests keep their answers.                                  *)
LEMMA OthersAnswer ==
    ASSUME LocalTypes, NEW w \in Workers, Touches(w), NEW p
    PROVE  \A v \in Workers \ {w} :
               v \in Answering(p)' <=> v \in Answering(p)
BY DEF LocalTypes, Touches, Answering, Answered, Preset

(* No step counts an answer twice, or one that is not returned.            *)
LEMMA UsageKept ==
    ASSUME RouterTypes, UsageCounted, NEW w \in Workers, Step(w) \/ Request(w),
           pc[w] \notin Ending => out[w] = "next"
    PROVE  UsageCounted'
<1>0. Touches(w) /\ LocalTypes /\ CountTypes /\ Knows(w)
  BY StepTouches DEF RouterTypes
<1>1. ASSUME NEW p \in Presets
      PROVE  /\ usage[p] = answers[p] + Cardinality(Answering(p))
             /\ answers[p] \in Nat /\ Cardinality(Answering(p)) \in Nat
  BY <1>0, AnsweringFinite DEF CountTypes, UsageCounted
<1>2. CASE LogUsage(w)
  <2>1. /\ pc[w] = "log" /\ pc'[w] = "dec" /\ out'[w] = "answer"
        /\ Preset(w)' = Preset(w)
        /\ usage' = [usage EXCEPT ![Preset(w)] = @ + 1] /\ answers' = answers
    BY <1>0, <1>2 DEF LogUsage, Becomes, history, LocalTypes, Preset
  <2>2. SUFFICES ASSUME NEW p \in Presets
                 PROVE  usage'[p] = answers'[p] + Cardinality(Answering(p)')
    BY DEF UsageCounted
  <2>3. CASE p = Preset(w)
    <3>1. Answering(p)' = Answering(p) \cup {w} /\ w \notin Answering(p)
      BY <2>1, <2>3, <1>0, OthersAnswer DEF Answering, Ending, Answered
    <3>2. Cardinality(Answering(p)') = Cardinality(Answering(p)) + 1
      BY <3>1, AnsweringFinite, FS_AddElement
    <3>3. usage'[p] = usage[p] + 1 /\ answers'[p] = answers[p]
      BY <2>1, <2>3, <1>0 DEF CountTypes
    <3>4. /\ usage[p] = answers[p] + Cardinality(Answering(p))
          /\ answers[p] \in Nat /\ Cardinality(Answering(p)) \in Nat
      BY <1>1
    <3>5. QED
      BY <3>2, <3>3, <3>4
  <2>4. CASE p # Preset(w)
    <3>1. Answering(p)' = Answering(p)
      BY <2>1, <2>4, <1>0, OthersAnswer DEF Answering, Answered
    <3>2. usage'[p] = usage[p] /\ answers'[p] = answers[p]
      BY <2>1, <2>4, <1>0 DEF CountTypes
    <3>3. QED
      BY <1>1, <3>1, <3>2
  <2>5. QED
    BY <2>3, <2>4
<1>3. CASE Release(w) /\ out[w] = "answer"
  <2>1. /\ pc[w] = "release" /\ out[w] = "answer" /\ pc'[w] = "idle"
        /\ answers' = [answers EXCEPT ![Preset(w)] = @ + 1] /\ usage' = usage
    BY <1>0, <1>3 DEF Release, Return, Becomes, LocalTypes
  <2>2. SUFFICES ASSUME NEW p \in Presets
                 PROVE  usage'[p] = answers'[p] + Cardinality(Answering(p)')
    BY DEF UsageCounted
  <2>3. CASE p = Preset(w)
    <3>1. Answering(p)' = Answering(p) \ {w} /\ w \in Answering(p)
      BY <2>1, <2>3, <1>0, OthersAnswer DEF Answering, Ending, Answered
    <3>2. Cardinality(Answering(p)') = Cardinality(Answering(p)) - 1
      BY <3>1, AnsweringFinite, FS_RemoveElement
    <3>3. answers'[p] = answers[p] + 1 /\ usage'[p] = usage[p]
      BY <2>1, <2>3, <1>0 DEF CountTypes
    <3>4. QED
      BY <1>1, <3>2, <3>3
  <2>4. CASE p # Preset(w)
    <3>1. Answering(p)' = Answering(p)
      BY <2>1, <2>4, <1>0, OthersAnswer DEF Answering, Ending, Answered
    <3>2. usage'[p] = usage[p] /\ answers'[p] = answers[p]
      BY <2>1, <2>4, <1>0 DEF CountTypes
    <3>3. QED
      BY <1>1, <3>1, <3>2
  <2>5. QED
    BY <2>3, <2>4
<1>4. ASSUME UNCHANGED <<usage, answers>>,
             Answered(w) <=> Answered(w)',
             Answered(w) => Preset(w)' = Preset(w)
      PROVE  UsageCounted'
  <2>1. ASSUME NEW p \in Presets PROVE Answering(p)' = Answering(p)
    BY <1>0, <1>4, OthersAnswer DEF Answering, Answered
  <2>2. QED
    BY <1>4, <2>1 DEF UsageCounted
<1>5. QED
  BY <1>2, <1>3, <1>4, UsageSteps

-----------------------------------------------------------------------------
(* Overshoot: of the daily cap.                                            *)

(* Workers at these steps have found the preset below its daily cap.       *)
Admitted == {"get2", "swap2", "acquire", "inc", "rpm", "call", "log"}

Active == {w \in Workers : pc[w] # "idle"}

(* Requests that may still count for p: they read the usage below the cap, *)
(* and have not counted yet.                                               *)
Pending(p) == {w \in Active : /\ seen[w][p] < Daily
                              /\ ~Answered(w)}

Overshoot ==
    /\ Cardinality(Active) <= peak
    /\ \A w \in Workers :
          pc[w] \in Admitted => seen[w][Preset(w)] < Daily
    /\ \A p \in Presets :
          usage[p] >= Daily =>
              usage[p] + Cardinality(Pending(p)) < Daily + peak

(* The running requests can be counted, and those that may still count.    *)
LEMMA ActiveFinite ==
    /\ IsFiniteSet(Active) /\ Cardinality(Active) \in Nat
    /\ \A p : /\ IsFiniteSet(Pending(p)) /\ Cardinality(Pending(p)) \in Nat
              /\ Cardinality(Pending(p)) <= Cardinality(Active)
<1>1. IsFiniteSet(Active)
  BY FS_Subset, ConstantsAssumption DEF Active
<1>2. \A p : Pending(p) \in SUBSET Active
  BY DEF Pending, Answered
<1>3. QED
  BY <1>1, <1>2, FS_Subset, FS_CardinalityType

(* The other requests keep what they have read.                            *)
LEMMA OthersWait ==
    ASSUME LocalTypes, NEW w \in Workers, Touches(w)
    PROVE  /\ \A v \in Workers \ {w} :
                 /\ v \in Active' <=> v \in Active
                 /\ pc'[v] = pc[v] /\ seen'[v] = seen[v] /\ out'[v] = out[v]
                 /\ Preset(v)' = Preset(v)
           /\ \A p : \A v \in Workers \ {w} :
                 v \in Pending(p)' <=> v \in Pending(p)
BY DEF LocalTypes, Touches, Active, Pending, Answered, Preset

(* What a step of w does to the overshoot.                                 *)
(* What a step of a running request does to the overshoot.                 *)
LEMMA OvershootSteps ==
    ASSUME RouterTypes, NEW w \in Workers, Step(w), Daily > 0,
           pc[w] \notin Ending => out[w] = "next",
           pc[w] \in Admitted => seen[w][Preset(w)] < Daily
    PROVE  /\ peak' = peak /\ pc[w] # "idle"
           /\ pc'[w] \in Admitted => seen'[w][Preset(w)'] < Daily
           /\ pc'[w] # "idle" => seen'[w] = seen[w]
           /\ \/ LogUsage(w)
              \/ /\ usage' = usage
                 /\ Answered(w) /\ pc'[w] # "idle" => Answered(w)'
<1>0. LocalTypes
  BY DEF RouterTypes
<1>1. CASE Start(w) \/ GiveUp(w) \/ Get(w) \/ AcquireTimesOut(w) \/ Make(w)
  BY <1>0, <1>1
     DEF Start, GiveUp, Get, AcquireTimesOut, Make, Becomes, Continue,
         Return, shared, history, counts, LocalTypes, Ending, Answered,
         Admitted, Preset
<1>2. CASE Check(w)
  <2>1. /\ pc[w] = "check" /\ UNCHANGED <<usage, seen, peak, out>>
        /\ \/ pc'[w] = "start"
           \/ pc'[w] = "get2" /\ at' = at /\ ~Blocked(w)
    BY <1>0, <1>2
       DEF Check, Becomes, Continue, shared, history, counts, LocalTypes
  <2>2. seen[w][Preset(w)] \in Nat
    BY <1>0, <2>1, PresetType DEF LocalTypes
  <2>3. ~Blocked(w) => seen[w][Preset(w)] < Daily
    BY <2>2, ConstantTypes DEF Blocked
  <2>4. pc'[w] = "get2" => Preset(w)' = Preset(w)
    BY <2>1 DEF Preset
  <2>5. QED
    BY <2>1, <2>3, <2>4 DEF Ending, Answered, Admitted
<1>3. CASE Capture(w) \/ Swap(w) \/ Acquire(w) \/ CountIn(w) \/
         RpmDeadline(w) \/ RpmEnter(w) \/ CallAnswers(w) \/ LogUsage(w)
  BY <1>0, <1>3
     DEF Capture, Swap, Acquire, CountIn, RpmDeadline, RpmEnter,
         CallAnswers, LogUsage, Becomes, shared, history, counts,
         LocalTypes, Ending, Answered, Admitted, Preset
<1>4. CASE CallFails(w) \/ LogFails(w) \/ Sideline(w) \/ CountRead(w) \/
         CountOut(w)
  BY <1>0, <1>4
     DEF CallFails, LogFails, Failed, Sideline, CountRead, CountOut,
         Becomes, shared, history, counts, LocalTypes, Ending, Answered,
         Admitted
<1>5. CASE Release(w)
  BY <1>0, <1>5
     DEF Release, Becomes, Continue, Return, counts, LocalTypes, Ending,
         Answered, Admitted
<1>6. QED
  BY <1>1, <1>2, <1>3, <1>4, <1>5 DEF Step

(* No step lets one more request count once the cap is reached.            *)
LEMMA OvershootKept ==
    ASSUME RouterTypes, Overshoot, Daily > 0,
           NEW w \in Workers, Step(w) \/ Request(w),
           pc[w] \notin Ending => out[w] = "next"
    PROVE  Overshoot'
<1>0. /\ Touches(w) /\ LocalTypes /\ CountTypes /\ Knows(w) /\ peak \in Nat
      /\ Daily \in Nat
  BY StepTouches, ConstantTypes DEF RouterTypes, CountTypes
<1>1. CASE Request(w)
  <2>1. /\ pc[w] = "idle" /\ pc'[w] = "start" /\ seen'[w] = usage
        /\ usage' = usage
        /\ peak' = IF Cardinality(Active) + 1 > peak
                   THEN Cardinality(Active) + 1 ELSE peak
    BY <1>0, <1>1 DEF Request, Becomes, shared, LocalTypes, Active
  <2>2. Active' = Active \cup {w} /\ w \notin Active
    BY <2>1, <1>0, OthersWait DEF Active
  <2>3. Cardinality(Active') = Cardinality(Active) + 1
    BY <2>2, ActiveFinite, FS_AddElement
  <2>4. Cardinality(Active') <= peak' /\ peak <= peak' /\ peak' \in Nat
    BY <2>1, <2>3, ActiveFinite, <1>0
  <2>5. ASSUME NEW v \in Workers, pc'[v] \in Admitted
        PROVE  seen'[v][Preset(v)'] < Daily
    BY <2>1, <2>5, <1>0, OthersWait DEF Overshoot, Admitted
  <2>6. ASSUME NEW p \in Presets, usage'[p] >= Daily
        PROVE  usage'[p] + Cardinality(Pending(p)') < Daily + peak'
    <3>1. usage[p] \in Nat /\ usage'[p] = usage[p]
      BY <2>1, <1>0 DEF CountTypes
    <3>2. Pending(p)' = Pending(p)
      <4>1. w \notin Pending(p)
        BY <2>2 DEF Pending, Answered
      <4>2. ~(seen'[w][p] < Daily)
        BY <2>1, <2>6, <3>1, <1>0
      <4>3. w \notin Pending(p)'
        BY <4>2 DEF Pending, Answered
      <4>4. QED
        BY <4>1, <4>3, <1>0, OthersWait DEF Pending, Active, Answered
    <3>3. usage[p] + Cardinality(Pending(p)) < Daily + peak
      BY <2>6, <3>1 DEF Overshoot
    <3>4. QED
      BY <3>1, <3>2, <3>3, <2>4, <1>0, ActiveFinite
  <2>7. QED
    BY <2>4, <2>5, <2>6 DEF Overshoot
<1>2. CASE Step(w)
  <2>1. /\ peak' = peak /\ pc[w] # "idle"
        /\ pc'[w] \in Admitted => seen'[w][Preset(w)'] < Daily
        /\ pc'[w] # "idle" => seen'[w] = seen[w]
        /\ \/ LogUsage(w)
           \/ /\ usage' = usage
              /\ Answered(w) /\ pc'[w] # "idle" => Answered(w)'
    BY <1>2, OvershootSteps DEF Overshoot
  <2>2. Active' \in SUBSET Active
    BY <2>1, <1>0, OthersWait DEF Active
  <2>3. Cardinality(Active') <= peak'
    <3>1. /\ Cardinality(Active') <= Cardinality(Active)
          /\ Cardinality(Active') \in Nat
      BY <2>2, ActiveFinite, FS_Subset, FS_CardinalityType
    <3>2. QED
      BY <2>1, <3>1, ActiveFinite, <1>0 DEF Overshoot
  <2>4. ASSUME NEW v \in Workers, pc'[v] \in Admitted
        PROVE  seen'[v][Preset(v)'] < Daily
    BY <2>1, <2>4, <1>0, OthersWait DEF Overshoot
  <2>5. ASSUME NEW p \in Presets, usage'[p] >= Daily
        PROVE  usage'[p] + Cardinality(Pending(p)') < Daily + peak'
    <3>1. Pending(p)' \in SUBSET Pending(p)
      <4>1. w \in Pending(p)' => w \in Pending(p)
        BY <2>1, <2>2, <1>2 DEF Pending, Active, LogUsage, Ending, Answered
      <4>2. QED
        BY <4>1, <1>0, OthersWait DEF Pending, Active, Answered
    <3>2. /\ usage[p] \in Nat /\ Cardinality(Pending(p)) \in Nat
          /\ Cardinality(Pending(p)') \in Nat
          /\ Cardinality(Pending(p)') <= Cardinality(Pending(p))
      BY <3>1, <1>0, ActiveFinite, FS_Subset, FS_CardinalityType
         DEF CountTypes
    <3>3. CASE LogUsage(w) /\ Preset(w) = p
      <4>1. /\ usage'[p] = usage[p] + 1 /\ w \in Pending(p)
            /\ w \notin Pending(p)'
        BY <1>0, <2>1, <3>3
           DEF LogUsage, Becomes, LocalTypes, CountTypes, Pending, Active,
               Ending, Answered, Admitted, Overshoot
      <4>2. Cardinality(Pending(p)') <= Cardinality(Pending(p)) - 1
        <5>1. Pending(p)' \in SUBSET (Pending(p) \ {w})
          BY <3>1, <4>1
        <5>2. /\ IsFiniteSet(Pending(p) \ {w})
              /\ Cardinality(Pending(p) \ {w}) = Cardinality(Pending(p)) - 1
          BY <4>1, ActiveFinite, FS_RemoveElement
        <5>3. QED
          BY <5>1, <5>2, FS_Subset
      <4>3. CASE usage[p] >= Daily
        BY <2>1, <3>2, <4>1, <4>2, <4>3, <1>0 DEF Overshoot
      <4>4. CASE usage[p] < Daily
        <5>1. Cardinality(Pending(p)) <= peak
          BY ActiveFinite, <1>0 DEF Overshoot
        <5>2. QED
          BY <2>1, <3>2, <4>1, <4>2, <4>4, <5>1, <1>0
      <4>5. QED
        BY <4>3, <4>4, <3>2, <1>0
    <3>4. CASE ~(LogUsage(w) /\ Preset(w) = p)
      <4>1. usage'[p] = usage[p]
        BY <2>1, <3>4, <1>0 DEF LogUsage, CountTypes
      <4>2. QED
        BY <4>1, <2>5, <2>1, <3>2, <1>0 DEF Overshoot
    <3>5. QED
      BY <3>3, <3>4
  <2>6. QED
    BY <2>3, <2>4, <2>5 DEF Overshoot
<1>3. QED
  BY <1>1, <1>2



-----------------------------------------------------------------------------
(* Answers: of one request.                                                *)

(* The request has an answer it is about to return.                        *)
HasAnswer(w) == pc[w] = "log" \/ Answered(w)

(* A request has had as many answers as were spoilt, and one more from the *)
(* moment the provider answers until it ends or the usage write fails.     *)
Counted(w) ==
    /\ won[w] = spoilt[w] + (IF HasAnswer(w) THEN 1 ELSE 0)
    /\ pc[w] \notin Ending => out[w] = "next"
    /\ pc[w] = "idle" => won[w] = 0 /\ spoilt[w] = 0

(* No step forgets an answer or makes one up.                              *)
LEMMA AnswersKept ==
    ASSUME RouterTypes, \A v \in Workers : Counted(v),
           NEW w \in Workers, Step(w) \/ Request(w)
    PROVE  \A v \in Workers : Counted(v)'
<1>0. /\ LocalTypes /\ Touches(w) /\ Counted(w)
      /\ won[w] \in Nat /\ spoilt[w] \in Nat
  BY StepTouches DEF RouterTypes, LocalTypes
<1>1. CASE \/ Start(w) \/ GiveUp(w) \/ Get(w) \/ Make(w) \/ Check(w)
           \/ Capture(w) \/ Swap(w) \/ Acquire(w) \/ AcquireTimesOut(w)
           \/ Request(w)
  <2>1. Counted(w)'
    BY <1>0, <1>1
       DEF Start, GiveUp, Get, Make, Check, Capture, Swap, Acquire,
           AcquireTimesOut, Request, Becomes, Continue, Return, shared,
           history, LocalTypes, Counted, HasAnswer, Answered, Ending
  <2>2. QED
    BY <1>0, <2>1 DEF LocalTypes, Touches, Counted, HasAnswer, Answered
<1>2. CASE \/ CountIn(w) \/ RpmDeadline(w) \/ RpmEnter(w) \/ CallAnswers(w)
           \/ LogUsage(w)
  <2>1. Counted(w)'
    BY <1>0, <1>2
       DEF CountIn, RpmDeadline, RpmEnter, CallAnswers, LogUsage, Becomes,
           history, LocalTypes, Counted, HasAnswer, Answered, Ending
  <2>2. QED
    BY <1>0, <2>1 DEF LocalTypes, Touches, Counted, HasAnswer, Answered
<1>3. CASE \/ CallFails(w) \/ LogFails(w) \/ Sideline(w) \/ CountRead(w)
           \/ CountOut(w) \/ Release(w)
  <2>1. Counted(w)'
    BY <1>0, <1>3
       DEF CallFails, LogFails, Failed, Sideline, CountRead, CountOut,
           Release, Becomes, Continue, Return, history, LocalTypes, Counted,
           HasAnswer, Answered, Ending
  <2>2. QED
    BY <1>0, <2>1 DEF LocalTypes, Touches, Counted, HasAnswer, Answered
<1>4. QED
  BY <1>1, <1>2, <1>3 DEF Step

-----------------------------------------------------------------------------
(* The invariants.                                                         *)

(* What every state satisfies, by part.                                    *)
RouterInv ==
    /\ RouterTypes /\ PermitsReturned /\ UsageCounted
    /\ \A w \in Workers : Counted(w)
    /\ Daily > 0 => Overshoot

(* The types hold initially.                                               *)
LEMMA InitTypes == Init => RouterTypes
<1>1. SUFFICES ASSUME Init PROVE RouterTypes
  OBVIOUS
<1>2. PoolTypes
  BY <1>1, ConstantTypes DEF Init, PoolTypes
<1>3. CountTypes
  BY <1>1, ConstantTypes, ConstantsAssumption DEF Init, CountTypes
<1>4. LocalTypes
  BY <1>1, ConstantTypes DEF Init, LocalTypes, PCs, Outcomes, Unread
<1>5. ASSUME NEW w \in Workers PROVE Knows(w)
  BY <1>1 DEF Init, Knows, Before, Holding
<1>6. QED
  BY <1>2, <1>3, <1>4, <1>5 DEF RouterTypes

(* So do the other invariants.                                             *)
LEMMA InitHolds == Init => RouterInv
<1>1. SUFFICES ASSUME Init PROVE RouterInv
  OBVIOUS
<1>2. PermitsReturned
  BY <1>1 DEF Init, PermitsReturned
<1>3. UsageCounted
  <2>1. ASSUME NEW p \in Presets PROVE Answering(p) = {}
    BY <1>1 DEF Init, Answering, Answered, Ending
  <2>2. ASSUME NEW p \in Presets PROVE Cardinality(Answering(p)) = 0
    BY <2>1, FS_EmptySet
  <2>3. QED
    BY <1>1, <2>2 DEF Init, UsageCounted
<1>4. ASSUME NEW w \in Workers PROVE Counted(w)
  BY <1>1 DEF Init, Counted, HasAnswer, Answered, Ending
<1>5. Daily > 0 => Overshoot
  <2>1. Active = {}
    BY <1>1 DEF Init, Active
  <2>2. Cardinality(Active) = 0
    BY <2>1, FS_EmptySet
  <2>3. QED
    BY <1>1, <2>2, ConstantTypes DEF Init, Overshoot, Admitted
<1>6. QED
  BY <1>1, <1>2, <1>3, <1>4, <1>5, InitTypes DEF RouterInv

(* The environment leaves what the workers count alone.                    *)
LEMMA CountsUnmoved ==
    ASSUME PermitsReturned, UsageCounted, \A w \in Workers : Counted(w),
           Daily > 0 => Overshoot,
           UNCHANGED <<sems, usage, answers, peak, pc, at, seen, slot, out,
                       won, spoilt>>
    PROVE  /\ PermitsReturned' /\ UsageCounted'
           /\ \A w \in Workers : Counted(w)'
           /\ Daily > 0 => Overshoot'
<1>1. \A s : Holders(s)' = Holders(s)
  BY DEF Holders
<1>2. \A p : Answering(p)' = Answering(p) /\ Pending(p)' = Pending(p)
  BY DEF Answering, Answered, Pending, Active, Preset
<1>3. Active' = Active
  BY DEF Active
<1>4. PermitsReturned'
  BY <1>1 DEF PermitsReturned
<1>5. UsageCounted'
  BY <1>2 DEF UsageCounted
<1>6. \A w \in Workers : Counted(w)'
  BY DEF Counted, HasAnswer, Answered
<1>7. Daily > 0 => Overshoot'
  BY <1>2, <1>3 DEF Overshoot, Preset
<1>8. QED
  BY <1>4, <1>5, <1>6, <1>7

(* A step of the environment keeps what the workers know.                  *)
LEMMA EnvironmentTypes ==
    ASSUME PoolTypes', CountTypes', Grows, RouterTypes, UNCHANGED locals,
           UNCHANGED <<won, spoilt>>
    PROVE  RouterTypes'
<1>1. LocalTypes'
  BY DEF RouterTypes, LocalTypes, locals
<1>2. ASSUME NEW w \in Workers PROVE Knows(w)'
  <2>1. Knows(w) /\ lim[w] \in Nat /\ slot[w] \in Nat
    BY DEF RouterTypes, LocalTypes
  <2>2. pc[w] \notin Before => Preset(w) \in Presets
    BY PresetType DEF Before
  <2>3. QED
    BY <2>1, <2>2 DEF Knows, Grows, Preset, locals
<1>3. QED
  BY <1>1, <1>2 DEF RouterTypes

(* Every step keeps the invariants.                                        *)
LEMMA NextKeeps == RouterInv /\ [Next]_vars => RouterInv'
<1>1. SUFFICES ASSUME RouterInv, [Next]_vars PROVE RouterInv'
  OBVIOUS
<1>2. /\ RouterTypes /\ PermitsReturned /\ UsageCounted
      /\ \A w \in Workers : Counted(w)
      /\ Daily > 0 => Overshoot
      /\ PoolTypes /\ CountTypes
  BY <1>1 DEF RouterInv, RouterTypes
<1>3. CASE \E w \in Workers : Step(w) \/ Request(w)
  <2>1. PICK w \in Workers : Step(w) \/ Request(w)
    BY <1>3
  <2>2. pc[w] \notin Ending => out[w] = "next"
    BY <1>2 DEF Counted
  <2>3. RouterTypes'
    BY <1>2, <2>1, TypesStep
  <2>4. PermitsReturned'
    BY <1>2, <2>1, <2>3, PermitsKept
  <2>5. UsageCounted'
    BY <1>2, <2>1, <2>2, UsageKept
  <2>6. \A v \in Workers : Counted(v)'
    BY <1>2, <2>1, AnswersKept
  <2>7. Daily > 0 => Overshoot'
    BY <1>2, <2>1, <2>2, OvershootKept
  <2>8. QED
    BY <2>3, <2>4, <2>5, <2>6, <2>7 DEF RouterInv
<1>4. ASSUME RouterTypes',
             UNCHANGED <<sems, usage, answers, peak, pc, at, seen, slot, out,
                         won, spoilt>>
      PROVE  RouterInv'
  BY <1>2, <1>4, CountsUnmoved DEF RouterInv
<1>5. CASE \E l \in DOMAIN lims : WindowSlides(l)
  <2>1. PICK l \in DOMAIN lims : WindowSlides(l)
    BY <1>5
  <2> DEFINE n == lims[l].window - 1
  <2>2. n \in 0..Rpm
    <3>1. lims[l] \in Limiter
      BY <1>2 DEF PoolTypes
    <3>2. QED
      BY <2>1, <3>1, LimiterFields, ConstantTypes DEF WindowSlides
  <2>3. lims' = [lims EXCEPT ![l].window = n] /\ UNCHANGED <<sems, table>>
    BY <2>1 DEF WindowSlides
  <2> HIDE DEF n
  <2>4. PoolTypes' /\ Grows
    BY <1>2, <2>2, <2>3, WindowSet
  <2>5. RouterTypes'
    BY <1>2, <2>1, <2>4, EnvironmentTypes
       DEF WindowSlides, counts, history, CountTypes
  <2>6. QED
    BY <1>4, <2>1, <2>5 DEF WindowSlides, locals, history
<1>6. CASE \E l \in DOMAIN lims : BackoffEnds(l)
  <2>1. PICK l \in DOMAIN lims : BackoffEnds(l)
    BY <1>6
  <2>2. PoolTypes' /\ Grows
    BY <1>2, <2>1, BackoffSet DEF BackoffEnds
  <2>3. RouterTypes'
    BY <1>2, <2>1, <2>2, EnvironmentTypes
       DEF BackoffEnds, counts, history, CountTypes
  <2>4. QED
    BY <1>4, <2>1, <2>3 DEF BackoffEnds, locals, history
<1>7. CASE \E p \in Edited, c \in Capacities : Edit(p, c)
  <2>1. PICK p \in Edited, c \in Capacities : Edit(p, c)
    BY <1>7
  <2>2. PoolTypes' /\ Grows
    BY <1>2, <2>1, SamePool DEF Edit
  <2>3. CountTypes'
    BY <1>2, <2>1, ConstantTypes, ConstantsAssumption
       DEF Edit, history, CountTypes
  <2>4. RouterTypes'
    BY <1>2, <2>1, <2>2, <2>3, EnvironmentTypes DEF Edit, history
  <2>5. QED
    BY <1>4, <2>1, <2>4 DEF Edit, locals, history
<1>8. CASE CacheRefresh
  <2>1. PoolTypes' /\ Grows
    BY <1>2, <1>8, SamePool DEF CacheRefresh
  <2>2. CountTypes'
    BY <1>2, <1>8 DEF CacheRefresh, counts, history, CountTypes
  <2>3. RouterTypes'
    BY <1>2, <1>8, <2>1, <2>2, EnvironmentTypes DEF CacheRefresh, history
  <2>4. QED
    BY <1>4, <1>8, <2>3 DEF CacheRefresh, locals, history
<1>9. CASE UNCHANGED vars
  <2>1. PoolTypes' /\ Grows
    BY <1>2, <1>9, SamePool DEF vars, shared
  <2>2. CountTypes'
    BY <1>2, <1>9 DEF vars, shared, counts, history, CountTypes
  <2>3. RouterTypes'
    BY <1>2, <1>9, <2>1, <2>2, EnvironmentTypes DEF vars, history
  <2>4. QED
    BY <1>4, <1>9, <2>3 DEF vars, shared, locals, history
<1>10. QED
  BY <1>1, <1>3, <1>5, <1>6, <1>7, <1>8, <1>9 DEF Next, Environment

(* The invariants hold in every state.                                     *)
LEMMA InvHolds == Spec => []RouterInv
BY InitHolds, NextKeeps, PTL DEF Spec

(* Every variable has its type, and a worker past limiter_for or past the  *)
(* capture has the limiter or the semaphore its step needs.                *)
THEOREM RouterTypeCorrect == Spec => []TypeOK
<1>1. RouterTypes => TypeOK
  <2>1. SUFFICES ASSUME RouterTypes PROVE TypeOK
    OBVIOUS
  <2>2. /\ lim \in [Workers -> 0..Len(lims)]
        /\ slot \in [Workers -> 0..Len(sems)]
    BY <2>1, Lengths DEF RouterTypes, LocalTypes, Knows
  <2>3. ASSUME NEW w \in Workers
        PROVE  /\ pc[w] \notin {"idle", "start"} =>
                     at[w] <= Len(Chain) /\ plan[w] \in [Presets -> Capacities]
               /\ pc[w] \notin {"idle", "start", "get", "make"} => lim[w] # 0
               /\ pc[w] \in Holding \cup {"acquire"} => slot[w] # 0
    BY <2>1 DEF RouterTypes, Knows, Before
  <2>4. QED
    BY <2>1, <2>2, <2>3
       DEF TypeOK, RouterTypes, PoolTypes, CountTypes, LocalTypes
<1>2. QED
  BY <1>1, InvHolds, PTL DEF RouterInv

(* Every permit is free or held by the request that took it, although the  *)
(* limiter may have got another semaphore meanwhile (limiter_for,          *)
(* _call_ai_limited's finally).                                            *)
THEOREM PermitsAlwaysReturned == Spec => []PermitsReturned
BY InvHolds, PTL DEF RouterInv

(* The usage table counts the answers that were returned or are about to   *)
(* be (_log_preset_usage).                                                 *)
THEOREM UsageAlwaysAnswers == Spec => []UsageIsAnswers
<1>1. UsageCounted => UsageIsAnswers
  BY DEF UsageCounted, UsageIsAnswers, Answering, Answered, Ending
<1>2. QED
  BY <1>1, InvHolds, PTL DEF RouterInv

(* A request asks for a second answer only after the usage of the first    *)
(* could not be written (_call_ai_limited, _log_preset_usage).             *)
THEOREM RequestsAnsweredOnce == Spec => []OneAnswerPerRequest
<1>1. RouterInv => OneAnswerPerRequest
  <2>1. SUFFICES ASSUME RouterInv, NEW w \in Workers
                 PROVE  won[w] <= 1 + spoilt[w]
    BY DEF OneAnswerPerRequest
  <2>2. /\ spoilt[w] \in Nat
        /\ won[w] = spoilt[w] \/ won[w] = spoilt[w] + 1
    BY <2>1 DEF RouterInv, RouterTypes, LocalTypes, Counted
  <2>3. QED
    BY <2>2
<1>2. QED
  BY <1>1, InvHolds, PTL

(* The daily cap of a preset is overshot by the requests that ran at once, *)
(* and by no more (_call_ai_limited reads the usage once).                 *)
THEOREM DailyCapOvershoot == Spec => []DailyOvershoot
<1>1. RouterInv => DailyOvershoot
  <2>1. SUFFICES ASSUME RouterInv, Daily > 0, NEW p \in Presets, usage[p] # 0
                 PROVE  usage[p] < Daily + peak
    BY DEF DailyOvershoot
  <2>2. /\ usage[p] \in Nat /\ peak \in Nat /\ Daily \in Nat
        /\ Cardinality(Pending(p)) \in Nat
        /\ usage[p] >= Daily =>
              usage[p] + Cardinality(Pending(p)) < Daily + peak
    BY <2>1, ConstantTypes, ActiveFinite
       DEF RouterInv, RouterTypes, CountTypes, Overshoot
  <2>3. QED
    BY <2>2
<1>2. QED
  BY <1>1, InvHolds, PTL
=============================================================================
