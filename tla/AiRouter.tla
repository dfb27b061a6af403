------------------------------ MODULE AiRouter ------------------------------
(***************************************************************************)
(* The AI fallback router (services/ai/fallback_router.py) and its limiter *)
(* (services/ai/limiter.py): a request walks the chain of presets, takes a *)
(* concurrency slot and an RPM slot of each, and returns the first answer. *)
(*                                                                         *)
(* Requests run in the threads of an executor, here Workers.  A request    *)
(* whose caller has timed out goes on running: nothing cancels a thread,   *)
(* which finds out where it looks at the clock.                            *)
(* A step is what a thread does between two calls: in CPython a thread may *)
(* be preempted when a call returns, and not between two subscripts, so    *)
(* in_flight += 1 is a step and in_flight = max(0, in_flight - 1) is two.  *)
(***************************************************************************)
EXTENDS Naturals, Sequences, FiniteSets

CONSTANTS
    Workers,      \* threads of the executor
    Chain,        \* the presets in the order they are tried
    Capacities,   \* what an administrator sets max_concurrency to
    FirstCapacity,
    Rpm,          \* max_rpm of each preset
    Daily,        \* max_daily_req of each preset, 0 for none
    Threshold,    \* FAILURE_THRESHOLD
    Edited,       \* bound: the presets an administrator edits
    MaxRequests,  \* bound: requests
    MaxEdits,     \* bound: edits of max_concurrency
    MaxFailures   \* bound: provider calls that fail, usage writes that fail

Presets == {Chain[i] : i \in DOMAIN Chain}

ASSUME ConstantsAssumption ==
    /\ IsFiniteSet(Workers) /\ Workers # {}
    /\ Chain \in Seq(Presets) /\ Chain # <<>>
    /\ Capacities \subseteq Nat \ {0} /\ FirstCapacity \in Capacities
    /\ Edited \subseteq Presets
    /\ {Rpm, Threshold} \subseteq Nat \ {0}
    /\ {Daily, MaxRequests, MaxEdits, MaxFailures} \subseteq Nat

PCs == {"idle", "start", "get", "make", "swap", "check", "get2", "swap2",
        "acquire", "inc", "rpm", "call", "log", "sideline",
        "dec", "decw", "release"}

(* The steps that hold a permit of the semaphore a worker has captured.    *)
Holding == {"inc", "rpm", "call", "log", "sideline", "dec", "decw", "release"}

(* How an attempt ends: the next preset, an answer, or the deadline.       *)
Outcomes == {"next", "answer", "timeout"}

(* A BoundedSemaphore, and the state LimiterStore keeps of a preset.       *)
Semaphore == [cap : Capacities, free : Nat]
Limiter   == [slots : Nat, cap : Capacities, flight : Nat,
              window : 0..Rpm, streak : Nat, backoff : BOOLEAN]

VARIABLES
    conf,    \* max_concurrency in the presets table
    cached,  \* the same in the cached chain (ai_read_cache, 10 s)
    table,   \* LimiterStore._states: the limiter of each preset, 0 for none
    lims,    \* the limiters made so far
    sems,    \* the semaphores made so far
    usage,   \* preset_hourly_usage: requests of the last 24 h
    pc, at, plan, seen, lim, slot, reg, out, \* locals of each worker
    requests, edits, failures, \* counters
    answers, \* history: answers each preset's calls have returned
    won,     \* history: calls of the running request the provider answered
    spoilt,  \* history: those whose usage could not be written
    peak     \* history: the most requests that have run at once

shared  == <<conf, cached, table, lims, sems, usage>>
locals  == <<pc, at, plan, seen, lim, slot, reg, out>>
counts  == <<requests, edits, failures>>
history == <<answers, won, spoilt, peak>>
vars    == <<shared, locals, counts, history>>

-----------------------------------------------------------------------------
(* Helpers                                                                 *)

Preset(w) == Chain[at[w]]

Holders(s) == {w \in Workers : pc[w] \in Holding /\ slot[w] = s}

Becomes(w, step) == pc' = [pc EXCEPT ![w] = step]

(* The loop goes on with the next preset; what is known of this one is     *)
(* read again.                                                             *)
Continue(w) ==
    /\ Becomes(w, "start")
    /\ at'   = [at EXCEPT ![w] = @ + 1]
    /\ lim'  = [lim EXCEPT ![w] = 0]
    /\ slot' = [slot EXCEPT ![w] = 0]

Unread == [p \in Presets |-> 0]

(* The request is over; its locals are gone.                               *)
Return(w) ==
    /\ Becomes(w, "idle")
    /\ at'   = [at EXCEPT ![w] = 1]
    /\ lim'  = [lim EXCEPT ![w] = 0]
    /\ slot' = [slot EXCEPT ![w] = 0]
    /\ plan' = [plan EXCEPT ![w] = Unread]
    /\ seen' = [seen EXCEPT ![w] = Unread]
    /\ out'  = [out EXCEPT ![w] = "next"]
    /\ won'  = [won EXCEPT ![w] = 0]
    /\ spoilt' = [spoilt EXCEPT ![w] = 0]

(* A new semaphore with c permits, for a limiter.                          *)
NewSem(c) == Append(sems, [cap |-> c, free |-> c])

-----------------------------------------------------------------------------
(* _call_ai_limited                                                        *)

(* Mutant: the usage is not read.                                          *)
RequestWithOldUsage(w) ==
    /\ pc[w] = "idle"
    /\ requests < MaxRequests
    /\ requests' = requests + 1
    /\ Becomes(w, "start")
    /\ plan' = [plan EXCEPT ![w] = cached]
    /\ LET running == Cardinality({v \in Workers : pc[v] # "idle"}) + 1
       IN  peak' = IF running > peak THEN running ELSE peak
    /\ UNCHANGED <<shared, at, seen, lim, slot, reg, out, edits, failures,
                   answers, won, spoilt>>

(* The chain comes from the cache, the usage of all its presets from one   *)
(* batched read.                                                           *)
Request(w) ==
    /\ pc[w] = "idle"
    /\ requests < MaxRequests
    /\ requests' = requests + 1
    /\ Becomes(w, "start")
    /\ plan' = [plan EXCEPT ![w] = cached]
    /\ seen' = [seen EXCEPT ![w] = usage]
    /\ LET running == Cardinality({v \in Workers : pc[v] # "idle"}) + 1
       IN  peak' = IF running > peak THEN running ELSE peak
    /\ UNCHANGED <<shared, at, lim, slot, reg, out, edits, failures,
                   answers, won, spoilt>>

(* The next preset of the chain.                                           *)
Start(w) ==
    /\ pc[w] = "start"
    /\ at[w] <= Len(Chain)
    /\ Becomes(w, "get")
    /\ UNCHANGED <<shared, at, plan, seen, lim, slot, reg, out, counts, history>>

(* The deadline has passed, or every preset has been tried.                *)
GiveUp(w) ==
    /\ pc[w] = "start"
    /\ Return(w)
    /\ UNCHANGED <<shared, reg, counts, answers, peak>>

(* limiter_for: the first request for a preset makes its limiter.          *)
Make(w) ==
    /\ pc[w] = "make"
    /\ LET c == plan[w][Preset(w)]
       IN  /\ sems' = NewSem(c)
           /\ lims' = Append(lims, [slots |-> Len(sems) + 1, cap |-> c,
                                    flight |-> 0, window |-> 0,
                                    streak |-> 0, backoff |-> FALSE])
    /\ table' = [table EXCEPT ![Preset(w)] = Len(lims) + 1]
    /\ lim' = [lim EXCEPT ![w] = Len(lims) + 1]
    /\ Becomes(w, "check")
    /\ UNCHANGED <<conf, cached, usage, at, plan, seen, slot, reg, out,
                   counts, history>>

(* limiter_for: the semaphore is swapped while nothing is in flight.       *)
Swaps(w, l) ==
    /\ plan[w][Preset(w)] # lims[l].cap
    /\ lims[l].flight = 0

(* The first look at the limiter.                                          *)
Get(w) ==
    /\ pc[w] = "get"
    /\ LET l == table[Preset(w)]
       IN  IF l = 0 THEN Becomes(w, "make") /\ UNCHANGED lim
           ELSE /\ lim' = [lim EXCEPT ![w] = l]
                /\ Becomes(w, IF Swaps(w, l) THEN "swap" ELSE "check")
    /\ UNCHANGED <<shared, at, plan, seen, slot, reg, out, counts, history>>

(* A preset in backoff, or at its RPM or daily limit, is skipped.          *)
Blocked(w) ==
    \/ lims[lim[w]].backoff
    \/ lims[lim[w]].window >= Rpm
    \/ Daily > 0 /\ seen[w][Preset(w)] >= Daily

Check(w) ==
    /\ pc[w] = "check"
    /\ IF Blocked(w) THEN Continue(w)
       ELSE Becomes(w, "get2") /\ UNCHANGED <<at, lim, slot>>
    /\ UNCHANGED <<shared, plan, seen, reg, out, counts, history>>

(* The second look captures the semaphore the permit will go back to.      *)
Capture(w) ==
    /\ pc[w] = "get2"
    /\ LET l == table[Preset(w)]
       IN  /\ lim' = [lim EXCEPT ![w] = l]
           /\ IF Swaps(w, l)
              THEN Becomes(w, "swap2") /\ UNCHANGED slot
              ELSE /\ Becomes(w, "acquire")
                   /\ slot' = [slot EXCEPT ![w] = lims[l].slots]
    /\ UNCHANGED <<shared, at, plan, seen, reg, out, counts, history>>

(* The new semaphore is made first and stored then.                        *)
Swap(w) ==
    /\ pc[w] \in {"swap", "swap2"}
    /\ LET c == plan[w][Preset(w)]
       IN  /\ sems' = NewSem(c)
           /\ lims' = [lims EXCEPT ![lim[w]].slots = Len(sems) + 1,
                                   ![lim[w]].cap = c]
    /\ IF pc[w] = "swap" THEN Becomes(w, "check") /\ UNCHANGED slot
       ELSE /\ Becomes(w, "acquire")
            /\ slot' = [slot EXCEPT ![w] = Len(sems) + 1]
    /\ UNCHANGED <<conf, cached, table, usage, at, plan, seen, lim, reg, out,
                   counts, history>>

Acquire(w) ==
    /\ pc[w] = "acquire"
    /\ sems[slot[w]].free > 0
    /\ sems' = [sems EXCEPT ![slot[w]].free = @ - 1]
    /\ Becomes(w, "inc")
    /\ UNCHANGED <<conf, cached, table, lims, usage, at, plan, seen, lim, slot,
                   reg, out, counts, history>>

(* No permit within 30 s: the next preset.                                 *)
AcquireTimesOut(w) ==
    /\ pc[w] = "acquire"
    /\ sems[slot[w]].free = 0
    /\ Continue(w)
    /\ UNCHANGED <<shared, plan, seen, reg, out, counts, history>>

CountIn(w) ==
    /\ pc[w] = "inc"
    /\ lims' = [lims EXCEPT ![lim[w]].flight = @ + 1]
    /\ Becomes(w, "rpm")
    /\ UNCHANGED <<conf, cached, table, sems, usage, at, plan, seen, lim, slot,
                   reg, out, counts, history>>

(* Mutant: the deadline is not looked at.                                  *)
RpmNoDeadline(w) == pc[w] = "rpm" /\ UNCHANGED vars

(* The RPM loop: it leaves when the deadline has passed ...                *)
RpmDeadline(w) ==
    /\ pc[w] = "rpm"
    /\ Becomes(w, "dec")
    /\ out' = [out EXCEPT ![w] = "timeout"]
    /\ UNCHANGED <<shared, at, plan, seen, lim, slot, reg, counts, history>>

(* Mutant: the window is not checked.                                      *)
RpmEnterUnchecked(w) ==
    /\ pc[w] = "rpm"
    /\ lims' = [lims EXCEPT ![lim[w]].window = @ + 1]
    /\ Becomes(w, "call")
    /\ UNCHANGED <<conf, cached, table, sems, usage, at, plan, seen, lim, slot,
                   reg, out, counts, history>>

(* ... or, under the lock, when the last minute has room for the request.  *)
RpmEnter(w) ==
    /\ pc[w] = "rpm"
    /\ lims[lim[w]].window < Rpm
    /\ lims' = [lims EXCEPT ![lim[w]].window = @ + 1]
    /\ Becomes(w, "call")
    /\ UNCHANGED <<conf, cached, table, sems, usage, at, plan, seen, lim, slot,
                   reg, out, counts, history>>

(* The provider answers: the streak is over.                               *)
CallAnswers(w) ==
    /\ pc[w] = "call"
    /\ lims' = [lims EXCEPT ![lim[w]].streak = 0, ![lim[w]].backoff = FALSE]
    /\ won' = [won EXCEPT ![w] = @ + 1]
    /\ Becomes(w, "log")
    /\ UNCHANGED <<conf, cached, table, sems, usage, at, plan, seen, lim, slot,
                   reg, out, counts, answers, spoilt, peak>>

(* _log_preset_usage: the answer is returned once its usage is written.    *)
LogUsage(w) ==
    /\ pc[w] = "log"
    /\ usage' = [usage EXCEPT ![Preset(w)] = @ + 1]
    /\ out' = [out EXCEPT ![w] = "answer"]
    /\ Becomes(w, "dec")
    /\ UNCHANGED <<conf, cached, table, lims, sems, at, plan, seen, lim, slot,
                   reg, counts, history>>

(* Any exception counts toward the streak, the one of a failed usage write *)
(* as much as the provider's; at the threshold the preset is sidelined.    *)
Failed(w) ==
    /\ failures < MaxFailures
    /\ failures' = failures + 1
    /\ out' = [out EXCEPT ![w] = "next"]
    /\ lims' = [lims EXCEPT ![lim[w]].streak = @ + 1]
    /\ Becomes(w, IF lims[lim[w]].streak + 1 >= Threshold THEN "sideline"
                  ELSE "dec")
    /\ UNCHANGED <<conf, cached, table, sems, usage, at, plan, seen, lim, slot,
                   reg, requests, edits, answers, won, peak>>

CallFails(w) == pc[w] = "call" /\ Failed(w) /\ UNCHANGED spoilt

(* Mutant: the usage is written although the write raises.                 *)
LogFailsAfterWrite(w) ==
    /\ pc[w] = "log"
    /\ failures < MaxFailures
    /\ failures' = failures + 1
    /\ usage' = [usage EXCEPT ![Preset(w)] = @ + 1]
    /\ spoilt' = [spoilt EXCEPT ![w] = @ + 1]
    /\ Becomes(w, "dec")
    /\ UNCHANGED <<conf, cached, table, lims, sems, at, plan, seen, lim, slot,
                   reg, out, requests, edits, answers, won, peak>>

LogFails(w) ==
    /\ pc[w] = "log"
    /\ Failed(w)
    /\ spoilt' = [spoilt EXCEPT ![w] = @ + 1]

Sideline(w) ==
    /\ pc[w] = "sideline"
    /\ lims' = [lims EXCEPT ![lim[w]].streak = 0, ![lim[w]].backoff = TRUE]
    /\ Becomes(w, "dec")
    /\ UNCHANGED <<conf, cached, table, sems, usage, at, plan, seen, lim, slot,
                   reg, out, counts, history>>

(* finally: in_flight is read, then written ...                            *)
CountRead(w) ==
    /\ pc[w] = "dec"
    /\ reg' = [reg EXCEPT ![w] = lims[lim[w]].flight]
    /\ Becomes(w, "decw")
    /\ UNCHANGED <<shared, at, plan, seen, lim, slot, out, counts, history>>

CountOut(w) ==
    /\ pc[w] = "decw"
    /\ lims' = [lims EXCEPT ![lim[w]].flight =
                    IF reg[w] = 0 THEN 0 ELSE reg[w] - 1]
    /\ reg' = [reg EXCEPT ![w] = 0]
    /\ Becomes(w, "release")
    /\ UNCHANGED <<conf, cached, table, sems, usage, at, plan, seen, lim, slot,
                   out, counts, history>>

(* Mutant: the permit goes to the semaphore of the limiter.                *)
ReleaseToCurrent(w) ==
    /\ pc[w] = "release"
    /\ sems' = [sems EXCEPT ![lims[lim[w]].slots].free = @ + 1]
    /\ IF out[w] = "next"
       THEN Continue(w) /\ UNCHANGED <<plan, seen, out, won, spoilt>>
       ELSE Return(w)
    /\ answers' = IF out[w] = "answer"
                  THEN [answers EXCEPT ![Preset(w)] = @ + 1] ELSE answers
    /\ UNCHANGED <<conf, cached, table, lims, usage, reg, counts, peak>>

(* Mutant: an answered request goes on.                                    *)
ReleaseAndGoOn(w) ==
    /\ pc[w] = "release"
    /\ sems' = [sems EXCEPT ![slot[w]].free = @ + 1]
    /\ Continue(w)
    /\ answers' = IF out[w] = "answer"
                  THEN [answers EXCEPT ![Preset(w)] = @ + 1] ELSE answers
    /\ UNCHANGED <<conf, cached, table, lims, usage, plan, seen, reg, out, counts,
                   won, spoilt, peak>>

(* ... and the permit goes back to the semaphore it was taken from.        *)
Release(w) ==
    /\ pc[w] = "release"
    /\ sems' = [sems EXCEPT ![slot[w]].free = @ + 1]
    /\ IF out[w] = "next"
       THEN Continue(w) /\ UNCHANGED <<plan, seen, out, won, spoilt>>
       ELSE Return(w)
    /\ answers' = IF out[w] = "answer"
                  THEN [answers EXCEPT ![Preset(w)] = @ + 1] ELSE answers
    /\ UNCHANGED <<conf, cached, table, lims, usage, reg, counts, peak>>

-----------------------------------------------------------------------------
(* The environment                                                         *)

(* A request is older than a minute.                                       *)
WindowSlides(l) ==
    /\ lims[l].window > 0
    /\ lims' = [lims EXCEPT ![l].window = @ - 1]
    /\ UNCHANGED <<conf, cached, table, sems, usage, locals, counts, history>>

BackoffEnds(l) ==
    /\ lims[l].backoff
    /\ lims' = [lims EXCEPT ![l].backoff = FALSE]
    /\ UNCHANGED <<conf, cached, table, sems, usage, locals, counts, history>>

Edit(p, c) ==
    /\ edits < MaxEdits
    /\ c # conf[p]
    /\ conf' = [conf EXCEPT ![p] = c]
    /\ edits' = edits + 1
    /\ UNCHANGED <<cached, table, lims, sems, usage, locals, requests, failures,
                   history>>

(* The cached chain is older than its TTL and read again.                  *)
CacheRefresh ==
    /\ cached # conf
    /\ cached' = conf
    /\ UNCHANGED <<conf, table, lims, sems, usage, locals, counts, history>>

-----------------------------------------------------------------------------
(* Specification                                                           *)

Init ==
    /\ conf = [p \in Presets |-> FirstCapacity] /\ cached = conf
    /\ table = [p \in Presets |-> 0]
    /\ lims = <<>> /\ sems = <<>>
    /\ usage = [p \in Presets |-> 0]
    /\ pc = [w \in Workers |-> "idle"]
    /\ at = [w \in Workers |-> 1]
    /\ plan = [w \in Workers |-> Unread] /\ seen = [w \in Workers |-> Unread]
    /\ lim = [w \in Workers |-> 0] /\ slot = [w \in Workers |-> 0]
    /\ reg = [w \in Workers |-> 0] /\ out = [w \in Workers |-> "next"]
    /\ requests = 0 /\ edits = 0 /\ failures = 0
    /\ answers = [p \in Presets |-> 0]
    /\ won = [w \in Workers |-> 0] /\ spoilt = [w \in Workers |-> 0]
    /\ peak = 0

(* What a thread does on its own once its request has begun.               *)
Step(w) ==
    \/ Start(w) \/ GiveUp(w) \/ Get(w) \/ Make(w) \/ Check(w) \/ Capture(w) \/ Swap(w)
    \/ Acquire(w) \/ AcquireTimesOut(w) \/ CountIn(w)
    \/ RpmDeadline(w) \/ RpmEnter(w)
    \/ CallAnswers(w) \/ LogUsage(w) \/ CallFails(w) \/ LogFails(w)
    \/ Sideline(w) \/ CountRead(w) \/ CountOut(w) \/ Release(w)

Environment ==
    \/ \E w \in Workers : Request(w)
    \/ \E l \in DOMAIN lims : WindowSlides(l) \/ BackoffEnds(l)
    \/ \E p \in Edited, c \in Capacities : Edit(p, c)
    \/ CacheRefresh

Next == (\E w \in Workers : Step(w)) \/ Environment

(* Threads are scheduled, a provider call ends at its client timeout, and  *)
(* the deadline passes.  Nothing is assumed of the windows and backoffs.   *)
Fairness == \A w \in Workers : WF_vars(Step(w))

Spec == Init /\ [][Next]_vars /\ Fairness

-----------------------------------------------------------------------------
(* Properties                                                              *)

(* Every variable has its type; a worker past limiter_for has a limiter,   *)
(* and one past the capture has a semaphore of that preset.                *)
TypeOK ==
    /\ conf \in [Presets -> Capacities] /\ cached \in [Presets -> Capacities]
    /\ lims \in Seq(Limiter) /\ sems \in Seq(Semaphore)
    /\ table \in [Presets -> 0..Len(lims)]
    /\ \A l \in DOMAIN lims : lims[l].slots \in DOMAIN sems
    /\ usage \in [Presets -> Nat]
    /\ pc \in [Workers -> PCs] /\ at \in [Workers -> 1..(Len(Chain) + 1)]
    /\ plan \in [Workers -> [Presets -> {0} \cup Capacities]]
    /\ seen \in [Workers -> [Presets -> Nat]]
    /\ lim \in [Workers -> 0..Len(lims)] /\ slot \in [Workers -> 0..Len(sems)]
    /\ reg \in [Workers -> Nat] /\ out \in [Workers -> Outcomes]
    /\ \A w \in Workers :
          /\ pc[w] \notin {"idle", "start"} =>
                at[w] <= Len(Chain) /\ plan[w] \in [Presets -> Capacities]
          /\ pc[w] \notin {"idle", "start", "get", "make"} => lim[w] # 0
          /\ pc[w] \in Holding \cup {"acquire"} => slot[w] # 0
    /\ requests \in 0..MaxRequests /\ edits \in 0..MaxEdits
    /\ failures \in 0..MaxFailures
    /\ answers \in [Presets -> Nat]
    /\ won \in [Workers -> Nat] /\ spoilt \in [Workers -> Nat]
    /\ peak \in Nat

(* Every permit is free or held by the request that took it, although the  *)
(* limiter may have got another semaphore meanwhile ("Capture the          *)
(* semaphore instance we actually acquire").                               *)
PermitsReturned ==
    \A s \in DOMAIN sems : sems[s].free + Cardinality(Holders(s)) = sems[s].cap

(* The usage table counts the answers callers got, and those about to be   *)
(* returned: usage is written on success only, and once.                   *)
UsageIsAnswers ==
    \A p \in Presets :
        usage[p] = answers[p]
            + Cardinality({w \in Workers : /\ pc[w] \in {"dec", "decw", "release"}
                                           /\ out[w] = "answer"
                                           /\ Preset(w) = p})

(* A request asks for a second answer only when the usage of the first     *)
(* could not be written: the chain reorders calls, it adds none.           *)
OneAnswerPerRequest == \A w \in Workers : won[w] <= 1 + spoilt[w]

(* Requests read the usage once, before their first call, so the day's cap *)
(* is overshot by the requests that ran at once, and by no more.           *)
DailyOvershoot ==
    Daily > 0 =>
        \A p \in Presets : usage[p] < Daily + peak \/ usage[p] = 0

(* Every request ends, abandoned or not, whatever the other ones do:       *)
(* "so abandoned threads cannot pin executor workers for long".            *)
EveryRequestEnds == \A w \in Workers : pc[w] # "idle" ~> pc[w] = "idle"
=============================================================================
