-------------------------- MODULE PrecardRunProofs --------------------------
(***************************************************************************)
(* Theorems about the pre-card pipeline, as the factory console and a      *)
(* terminal run it (the specification of FactoryConsole): rows never mix   *)
(* generations, a kill costs one batch, vetoed rows are queued once, a run *)
(* of all stages leaves no gap; and the types of the whole console.        *)
(*                                                                         *)
(* To the pipeline, every step of the console is one of PipelineNext.      *)
(* PipeTypes carries the types and the dates of results; each property has *)
(* an invariant of its own on top of it: MixInv, OneBatchInv, OnceInv with *)
(* QueuedInv, and FilledInv.                                               *)
(***************************************************************************)
EXTENDS FactoryConsoleProofs, SequenceTheorems

-----------------------------------------------------------------------------
(* Stages                                                                  *)

-----------------------------------------------------------------------------
LEMMA StageNames ==
    /\ Len(Stages) = 7 /\ DOMAIN Stages = 1..7
    /\ Stages[1] = "preprocess" /\ Stages[2] = "inflection_review"
    /\ Stages[3] = "anchor_rank" /\ Stages[4] = "sense_judge"
    /\ Stages[5] = "topic_vectors" /\ Stages[6] = "topic_label"
    /\ Stages[7] = "enrich"
BY DEF Stages

(* All stages, by name.                                                     *)
LEMMA StageSet ==
    StageIds = {"preprocess", "inflection_review", "anchor_rank",
                "sense_judge", "topic_vectors", "topic_label", "enrich"}
<1> DEFINE names == {"preprocess", "inflection_review", "anchor_rank",
                     "sense_judge", "topic_vectors", "topic_label", "enrich"}
<1>1. \A n \in DOMAIN Stages : Stages[n] \in names
  <2> SUFFICES ASSUME NEW n \in 1..7 PROVE Stages[n] \in names
    BY StageNames
  <2>1. n = 1 \/ n = 2 \/ n = 3 \/ n = 4 \/ n = 5 \/ n = 6 \/ n = 7
    OBVIOUS
  <2>2. QED
    BY <2>1, StageNames
<1>2. \A x \in {1, 2, 3, 4, 5, 6, 7} : Stages[x] \in StageIds
  BY StageNames DEF StageIds, ToSet
<1>3. StageIds \subseteq names
  BY <1>1 DEF StageIds, ToSet
<1>4. QED
  BY <1>2, <1>3, StageNames

(* No stage has two places.                                                 *)
LEMMA StagesDiffer ==
    \A m, n \in 1..7 : Stages[m] = Stages[n] => m = n
<1> SUFFICES ASSUME NEW m \in 1..7, NEW n \in 1..7, Stages[m] = Stages[n]
             PROVE  m = n
  OBVIOUS
<1>1. m = 1 \/ m = 2 \/ m = 3 \/ m = 4 \/ m = 5 \/ m = 6 \/ m = 7
  OBVIOUS
<1>2. n = 1 \/ n = 2 \/ n = 3 \/ n = 4 \/ n = 5 \/ n = 6 \/ n = 7
  OBVIOUS
<1>3. QED
  BY <1>1, <1>2, StageNames

(* What each stage works from, and what a redo of it evicts.                *)
LEMMA Chain ==
    /\ Upstream["preprocess"] = "none" /\ Upstream["inflection_review"] = "none"
    /\ Upstream["anchor_rank"] = "none"
    /\ Upstream["sense_judge"] = "anchor_rank"
    /\ Upstream["topic_vectors"] = "sense_judge"
    /\ Upstream["topic_label"] = "topic_vectors"
    /\ Upstream["enrich"] = "sense_judge"
BY StageSet DEF Upstream
LEMMA Chain2 ==
    /\ Downstream["anchor_rank"]
          = {"sense_judge", "topic_vectors", "topic_label", "enrich"}
    /\ Downstream["sense_judge"] = {"topic_vectors", "topic_label", "enrich"}
    /\ Downstream["topic_vectors"] = {"topic_label", "enrich"}
    /\ Downstream["topic_label"] = {"enrich"}
BY StageSet DEF Downstream
LEMMA Chain3 ==
    /\ Downstream["preprocess"] = {}
    /\ Downstream["inflection_review"] = {} /\ Downstream["enrich"] = {}
BY StageSet DEF Downstream

-----------------------------------------------------------------------------
(* The steps of the pipeline                                               *)

(* What a step of the factory may be to the pipeline.                      *)
PipelineNext ==
    \/ \E resume \in BOOLEAN, selected \in SUBSET StageIds,
          rekey \in SUBSET Keys : Start(resume, selected, rekey)
    \/ RunStep \/ RunStops \/ RunWrites \/ RunKilled
    \/ UNCHANGED runVars

(* Every step of the console and of a terminal is a step of the pipeline or *)
(* leaves it alone.                                                         *)
LEMMA PipelineSteps ==
    ASSUME [Next]_vars
    PROVE  PipelineNext
<1>1. CASE \E q \in Requests : \E r \in Runs : ConsoleStart(q, r)
  <2>1. \/ UNCHANGED runVars
        \/ \E resume \in BOOLEAN : Start(resume, StageIds, {})
    BY <1>1 DEF ConsoleStart, runVars
  <2>2. StageIds \in SUBSET StageIds /\ {} \in SUBSET Keys
    OBVIOUS
  <2>3. QED
    BY <2>1, <2>2 DEF PipelineNext
<1>2. CASE TerminalStart
  <2>1. PICK resume \in BOOLEAN, selected \in Selections, rekey \in Rekeys :
           Start(resume, selected, rekey)
    BY <1>2 DEF TerminalStart
  <2>2. selected \in SUBSET StageIds /\ rekey \in SUBSET Keys
    BY PrecardAssumption, ConsoleAssumption DEF StageIds, Keys
  <2>3. QED
    BY <2>1, <2>2 DEF PipelineNext
<1>3. CASE PipelineEnds \/ PipelineKilled \/ RunStep
  BY <1>3 DEF PipelineEnds, PipelineKilled, PipelineNext
<1>4. CASE \E q \in Requests : ForcedKill(q)
  BY <1>4 DEF ForcedKill, PipelineNext
<1>5. CASE UNCHANGED runVars
  BY <1>5 DEF PipelineNext
<1>6. QED
  BY <1>1, <1>2, <1>3, <1>4, <1>5 DEF Next, OtherChildEnds, PidGoesOn,
     ConsoleRestart, vars

-----------------------------------------------------------------------------
(* Types                                                                   *)

Store == [StageIds -> [Keys -> Entry]]

RunRecord == [pc : RunPCs, stage : 1..7, batch : Nat \ {0},
              selected : SUBSET StageIds,
              after : {"none", "batch", "stage", "stop", "write"},
              wrote : BOOLEAN]

Outs == [by : 0..MaxAttempts, full : BOOLEAN, rows : SUBSET Keys,
         mixed : SUBSET Keys, partial : SUBSET Keys]

(* A result is of a run that has begun.                                    *)
Dated(states) ==
    \A s \in StageIds, k \in Keys :
        /\ states[s][k].v <= attempt
        /\ states[s][k] # Absent => states[s][k].v # 0

(* Types, and how far the run has come: only the judge saves between two   *)
(* stages, and vetoes wait only while the run goes on.                     *)
PipeTypes ==
    /\ disk \in Store /\ mem \in Store
    /\ run \in RunRecord
    /\ attempt \in 0..MaxAttempts
    /\ pending \in SUBSET Keys
    /\ queue \in Seq(Keys \X (1..MaxAttempts))
    /\ out \in Outs
    /\ ends \in [1..MaxAttempts ->
                    {"none", "done", "stopped", "killed", "torn"}]
    /\ Dated(disk) /\ Dated(mem)
    /\ run.pc = "flush" /\ run.after = "stage" => run.stage = 4
    /\ run.pc = "off" => pending = {} /\ mem = Empty
    /\ run.pc # "off" => attempt # 0 /\ ends[attempt] = "none"
    /\ \A n \in 1..MaxAttempts : n > attempt => ends[n] = "none"
    /\ \A k \in pending : mem["enrich"][k].v = attempt

(* The keys that stages work on are keys of the sample or the base lemma.   *)
LEMMA KeyTypes ==
    /\ \A i \in DOMAIN Sample : Sample[i] \in Keys
    /\ \A n, i : i \in DOMAIN Sample => Key(n, i) \in Keys
    /\ \A n : KeysOf(n) \subseteq Keys
    /\ \A n, b : BatchKeys(n, b) \subseteq Keys
    /\ Todo \subseteq Keys
<1>1. \A i \in DOMAIN Sample : Sample[i] \in Keys
  BY DEF Keys, ToSet
<1>2. Base \in Keys
  BY DEF Keys
<1>3. \A n, i : i \in DOMAIN Sample => Key(n, i) \in Keys
  BY <1>1, <1>2 DEF Key, Cur
<1>4. \A n : KeysOf(n) \subseteq Keys
  BY <1>3 DEF KeysOf, Items
<1>5. \A n, b : BatchKeys(n, b) \subseteq Keys
  BY <1>3 DEF BatchKeys, BatchItems, Items
<1>6. Todo \subseteq Keys
  BY <1>5 DEF Todo
<1>7. QED
  BY <1>1, <1>3, <1>4, <1>5, <1>6

(* Results, and what a run begins with.                                     *)
LEMMA EntryTypes ==
    /\ Absent \in Entry /\ Empty \in Store /\ NoRunYet \in RunRecord
    /\ NoOut \in Outs /\ MaxAttempts \in Nat
    /\ \A s \in StageIds, k \in Keys : Empty[s][k] = Absent
    /\ \A c \in Entry : /\ c.v \in 0..MaxAttempts /\ c.up \in 0..MaxAttempts
                        /\ c.v \in Nat /\ c.up \in Nat
<1>1. MaxAttempts \in Nat
  BY PrecardAssumption
<1>2. Absent \in Entry
  BY <1>1 DEF Absent, Entry
<1>3. Empty \in Store /\ \A s \in StageIds, k \in Keys : Empty[s][k] = Absent
  BY <1>2 DEF Empty, Store
<1>4. NoRunYet \in RunRecord
  BY DEF NoRunYet, RunRecord, RunPCs
<1>5. NoOut \in Outs
  BY <1>1 DEF NoOut, Outs
<1>6. \A c \in Entry : /\ c.v \in 0..MaxAttempts /\ c.up \in 0..MaxAttempts
                       /\ c.v \in Nat /\ c.up \in Nat
  BY <1>1 DEF Entry
<1>7. QED
  BY <1>1, <1>2, <1>3, <1>4, <1>5, <1>6

(* Every place names a stage.                                               *)
LEMMA StageIdOf ==
    ASSUME NEW n \in 1..7
    PROVE  Stages[n] \in StageIds
BY StageNames DEF StageIds, ToSet

(* The stage gets results of this run for the items in done, none of which *)
(* had one, computed from what is upstream now.                            *)
Extends(s, done) ==
    /\ s \in StageIds /\ done \subseteq Keys /\ mem' \in Store
    /\ \A t \in StageIds \ {s} : mem'[t] = mem[t]
    /\ \A k \in Keys \ done : mem'[s][k] = mem[s][k]
    /\ \A k \in done :
          /\ mem[s][k] = Absent
          /\ mem'[s][k] # Absent
          /\ mem'[s][k].v = attempt
          /\ mem'[s][k].up = IF Upstream[s] = "none" THEN 0
                             ELSE mem[Upstream[s]][k].v

(* Judged items are routed: no result is lost or made.                     *)
Routes ==
    /\ mem' \in Store
    /\ \A t \in StageIds \ {"sense_judge"} : mem'[t] = mem[t]
    /\ \A k \in Keys :
          /\ mem'["sense_judge"][k].v = mem["sense_judge"][k].v
          /\ mem'["sense_judge"][k].up = mem["sense_judge"][k].up
          /\ mem'["sense_judge"][k] = Absent <=> mem["sense_judge"][k] = Absent

(* The stage upstream of one, if there is one, is another stage.            *)
LEMMA UpstreamType ==
    ASSUME NEW s \in StageIds
    PROVE  /\ Upstream[s] = "none" \/ Upstream[s] \in StageIds
           /\ Upstream[s] # s
           /\ "none" \notin StageIds
BY Chain, StageSet

(* What a stage makes of an item.                                           *)
LEMMA ResultType ==
    ASSUME PipeTypes, attempt # 0, NEW s \in StageIds, NEW k \in Keys,
           NEW verdict \in {"none", "keep", "drop", "redirect"}
    PROVE  /\ Result(s, k, verdict) \in Entry
           /\ Result(s, k, verdict) # Absent
           /\ Result(s, k, verdict).v = attempt
           /\ Result(s, k, verdict).up = IF Upstream[s] = "none" THEN 0
                                         ELSE mem[Upstream[s]][k].v
<1>1. attempt \in 0..MaxAttempts /\ MaxAttempts \in Nat
  BY EntryTypes DEF PipeTypes
<1> DEFINE up == IF Upstream[s] = "none" THEN 0 ELSE mem[Upstream[s]][k].v
<1>2. up \in 0..MaxAttempts
  <2>1. CASE Upstream[s] = "none"
    BY <1>1, <2>1
  <2>2. CASE Upstream[s] # "none"
    <3>1. mem[Upstream[s]][k] \in Entry
      BY <2>2, UpstreamType DEF PipeTypes, Store
    <3>2. QED
      BY <2>2, <3>1, EntryTypes
  <2>3. QED
    BY <2>1, <2>2
<1>3. Result(s, k, verdict) = [v |-> attempt, verdict |-> verdict, up |-> up]
  BY DEF Result
<1> HIDE DEF up
<1>4. Result(s, k, verdict) \in Entry /\ Result(s, k, verdict) # Absent
  BY <1>1, <1>2, <1>3 DEF Entry, Absent
<1>5. Result(s, k, verdict).v = attempt /\ Result(s, k, verdict).up = up
  BY <1>3
<1>6. QED
  BY <1>4, <1>5 DEF up

(* A step that adds results for items without one.                          *)
LEMMA Extended ==
    ASSUME PipeTypes, attempt # 0, NEW s \in StageIds, NEW done \in SUBSET Keys,
           \A k \in done : ~Done(s, k),
           NEW verdict,
           \A k \in done : verdict[k] \in {"none", "keep", "drop", "redirect"},
           mem' = [mem EXCEPT ![s] = [k \in Keys |->
                      IF k \in done THEN Result(s, k, verdict[k]) ELSE @[k]]]
    PROVE  Extends(s, done)
<1> DEFINE f == [k \in Keys |-> IF k \in done THEN Result(s, k, verdict[k])
                                ELSE mem[s][k]]
<1>1. mem \in Store
  BY DEF PipeTypes
<1>2. mem' = [mem EXCEPT ![s] = f]
  BY <1>1 DEF Store
<1>3. \A k \in Keys : f[k] \in Entry
  <2> SUFFICES ASSUME NEW k \in Keys PROVE f[k] \in Entry
    OBVIOUS
  <2>1. mem[s][k] \in Entry
    BY <1>1 DEF Store
  <2>2. k \in done => Result(s, k, verdict[k]) \in Entry
    BY ResultType
  <2>3. QED
    BY <2>1, <2>2
<1>4. f \in [Keys -> Entry]
  BY <1>3
<1>5. \A k \in done :
         /\ f[k] # Absent /\ f[k].v = attempt
         /\ f[k].up = IF Upstream[s] = "none" THEN 0 ELSE mem[Upstream[s]][k].v
  BY ResultType
<1>6. \A k \in Keys \ done : f[k] = mem[s][k]
  OBVIOUS
<1> HIDE DEF f
<1>7. /\ mem' \in Store /\ mem'[s] = f
      /\ \A t \in StageIds \ {s} : mem'[t] = mem[t]
  <2> DEFINE new == [mem EXCEPT ![s] = f]
  <2>1. /\ new \in Store /\ new[s] = f
        /\ \A t \in StageIds \ {s} : new[t] = mem[t]
    BY <1>1, <1>4 DEF Store
  <2>2. mem' = new
    BY <1>2
  <2> HIDE DEF new
  <2>3. QED
    BY <2>1, <2>2
<1>8. QED
  BY <1>5, <1>6, <1>7 DEF Extends, Done

(* A batch adds the results that it was to make.                            *)
LEMMA WorkExtends ==
    ASSUME PipeTypes, Work
    PROVE  Extends(Stages[run.stage], Todo)
<1> DEFINE s == Stages[run.stage]
<1>1. s \in StageIds /\ attempt # 0 /\ Todo \in SUBSET Keys
  BY StageIdOf, KeyTypes DEF PipeTypes, RunRecord, Work
<1>2. \A k \in Todo : ~Done(s, k)
  BY DEF Todo
<1>3. PICK verdict \in [Todo -> {"none", "keep", "drop", "redirect"}] :
         mem' = [mem EXCEPT ![s] = [k \in Keys |->
                    IF k \in Todo THEN Result(s, k, verdict[k]) ELSE @[k]]]
  BY DEF Work
<1>4. \A k \in Todo : verdict[k] \in {"none", "keep", "drop", "redirect"}
  OBVIOUS
<1> HIDE DEF s
<1>5. Extends(s, Todo)
  BY <1>1, <1>2, <1>3, <1>4, Extended
<1>6. QED
  BY <1>5 DEF s

(* A stopped batch adds some of them at most, and none that costs a call.   *)
LEMMA StopExtends ==
    ASSUME PipeTypes, Stop
    PROVE  \E done \in SUBSET Todo :
              /\ Extends(Stages[run.stage], done)
              /\ Stages[run.stage] = "enrich" => done = {}
<1> DEFINE s == Stages[run.stage]
           asked == s = "inflection_review" /\ Todo \cap Stubs # {}
           done == IF asked THEN Todo \ Stubs ELSE {}
           verdict == [k \in done |-> "keep"]
<1>1. s \in StageIds /\ attempt # 0 /\ Todo \in SUBSET Keys
  BY StageIdOf, KeyTypes DEF PipeTypes, RunRecord, Stop
<1>2. done \in SUBSET Todo /\ done \in SUBSET Keys
  BY <1>1
<1>3. \A k \in done : ~Done(s, k)
  BY <1>2 DEF Todo
<1>4. s = "enrich" => done = {}
  OBVIOUS
<1>5. \A k \in done : verdict[k] \in {"none", "keep", "drop", "redirect"}
  OBVIOUS
<1>6. mem' = [mem EXCEPT ![s] = [k \in Keys |->
                 IF k \in done THEN Result(s, k, verdict[k]) ELSE @[k]]]
  <2>1. mem' = [mem EXCEPT ![s] = [k \in Keys |->
                 IF asked /\ k \in Todo \ Stubs
                 THEN Result(s, k, "keep") ELSE @[k]]]
    BY DEF Stop
  <2>2. \A k : k \in done <=> asked /\ k \in Todo \ Stubs
    OBVIOUS
  <2>3. \A k \in done : verdict[k] = "keep"
    OBVIOUS
  <2> HIDE DEF s, asked, done, verdict
  <2>4. [k \in Keys |-> IF asked /\ k \in Todo \ Stubs
                        THEN Result(s, k, "keep") ELSE mem[s][k]]
        = [k \in Keys |-> IF k \in done THEN Result(s, k, verdict[k])
                          ELSE mem[s][k]]
    BY <2>2, <2>3
  <2>5. mem \in Store
    BY DEF PipeTypes
  <2>6. QED
    BY <1>1, <2>1, <2>4, <2>5 DEF Store
<1> HIDE DEF s, done, verdict
<1>7. Extends(s, done)
  BY <1>1, <1>2, <1>3, <1>5, <1>6, Extended
<1>8. QED
  BY <1>2, <1>7, <1>4 DEF s

(* The route after the judge sets verdicts only.                            *)
LEMMA Routed ==
    ASSUME PipeTypes, NEW unrouted \in SUBSET Keys,
           \A k \in unrouted : Done("sense_judge", k),
           mem' = [mem EXCEPT !["sense_judge"] = [k \in Keys |->
                      IF k \in unrouted
                      THEN [@[k] EXCEPT !.verdict =
                               IF k \in Propers THEN "drop" ELSE "keep"]
                      ELSE @[k]]]
    PROVE  Routes
<1> DEFINE s == "sense_judge"
           g(k) == [mem[s][k] EXCEPT !.verdict =
                       IF k \in Propers THEN "drop" ELSE "keep"]
           f == [k \in Keys |-> IF k \in unrouted THEN g(k) ELSE mem[s][k]]
<1>1. mem \in Store /\ s \in StageIds
  BY StageSet DEF PipeTypes
<1>2. mem' = [mem EXCEPT ![s] = f]
  BY <1>1 DEF Store
<1>3. ASSUME NEW k \in Keys
      PROVE  g(k) \in Entry /\ g(k).v = mem[s][k].v /\ g(k).up = mem[s][k].up
  <2>1. mem[s][k] \in Entry
    BY <1>1 DEF Store
  <2>2. \A c \in Entry, w \in {"drop", "keep"} :
           /\ [c EXCEPT !.verdict = w] \in Entry
           /\ [c EXCEPT !.verdict = w].v = c.v
           /\ [c EXCEPT !.verdict = w].up = c.up
    BY DEF Entry
  <2>3. (IF k \in Propers THEN "drop" ELSE "keep") \in {"drop", "keep"}
    OBVIOUS
  <2>4. QED
    BY <2>1, <2>2, <2>3
<1>4. \A k \in unrouted : mem[s][k] # Absent /\ g(k) # Absent
  <2> SUFFICES ASSUME NEW k \in unrouted
               PROVE  mem[s][k] # Absent /\ g(k) # Absent
    OBVIOUS
  <2>1. mem[s][k] # Absent
    BY DEF Done
  <2>2. mem[s][k].v # 0
    BY <1>1, <2>1 DEF PipeTypes, Dated
  <2>3. g(k).v # 0 /\ Absent.v = 0
    BY <1>3, <2>2 DEF Absent
  <2> HIDE DEF g
  <2>4. QED
    BY <2>1, <2>3
<1> HIDE DEF g
<1>5. f \in [Keys -> Entry]
  BY <1>1, <1>3 DEF Store
<1>6. \A k \in Keys : /\ f[k].v = mem[s][k].v /\ f[k].up = mem[s][k].up
                      /\ f[k] = Absent <=> mem[s][k] = Absent
  BY <1>3, <1>4
<1> HIDE DEF f
<1>7. /\ mem' \in Store /\ mem'[s] = f
      /\ \A t \in StageIds \ {s} : mem'[t] = mem[t]
  <2> DEFINE new == [mem EXCEPT ![s] = f]
  <2>1. /\ new \in Store /\ new[s] = f
        /\ \A t \in StageIds \ {s} : new[t] = mem[t]
    BY <1>1, <1>5 DEF Store
  <2>2. mem' = new
    BY <1>2
  <2> HIDE DEF new
  <2>3. QED
    BY <2>1, <2>2
<1>8. QED
  BY <1>6, <1>7 DEF Routes

(* A stage ends: after the last one the queue is next, and the judge saves  *)
(* the routes first.                                                        *)
LEMMA StageEndsCases ==
    ASSUME PipeTypes, StageEnds
    PROVE  /\ Routes
           /\ \/ /\ mem' = mem /\ run.stage = 7
                 /\ run' = [run EXCEPT !.pc = "queue"]
              \/ /\ mem' = mem /\ run.stage # 7
                 /\ run' = [run EXCEPT !.stage = run.stage + 1, !.batch = 1]
              \/ run' = Save("stage") /\ run.stage = 4
<1> DEFINE unrouted == {k \in KeysOf(4) : Done("sense_judge", k)
                                /\ mem["sense_judge"][k].verdict = "none"}
<1>1. run \in RunRecord /\ run.stage \in 1..7
  BY DEF PipeTypes, RunRecord
<1>2. CASE Stages[run.stage] = "sense_judge" /\ unrouted # {}
  <2>1. run.stage = 4
    BY <1>1, <1>2, StagesDiffer, StageNames
  <2>2. run' = Save("stage")
    BY <1>2 DEF StageEnds
  <2>3. unrouted \in SUBSET Keys /\ \A k \in unrouted : Done("sense_judge", k)
    BY KeyTypes
  <2>4. mem' = [mem EXCEPT !["sense_judge"] = [k \in Keys |->
                   IF k \in unrouted
                   THEN [@[k] EXCEPT !.verdict =
                            IF k \in Propers THEN "drop" ELSE "keep"]
                   ELSE @[k]]]
    BY <1>2 DEF StageEnds
  <2> HIDE DEF unrouted
  <2>5. Routes
    BY <2>3, <2>4, Routed
  <2>6. QED
    BY <2>1, <2>2, <2>5
<1>3. CASE ~(Stages[run.stage] = "sense_judge" /\ unrouted # {})
  <2>1. /\ mem' = mem
        /\ run' = IF run.stage = Len(Stages) THEN [run EXCEPT !.pc = "queue"]
                  ELSE [run EXCEPT !.stage = @ + 1, !.batch = 1]
    BY <1>3 DEF StageEnds
  <2>2. Routes
    BY <2>1 DEF Routes, PipeTypes
  <2>3. [run EXCEPT !.stage = @ + 1, !.batch = 1]
        = [run EXCEPT !.stage = run.stage + 1, !.batch = 1]
    BY <1>1 DEF RunRecord
  <2>4. QED
    BY <2>1, <2>2, <2>3, StageNames
<1>4. QED
  BY <1>2, <1>3

(* The run record: where it goes.                                          *)
LEMMA RunTypes ==
    ASSUME NEW r \in RunRecord
    PROVE  /\ r.pc \in RunPCs /\ r.stage \in 1..7 /\ r.batch \in Nat \ {0}
           /\ r.selected \in SUBSET StageIds /\ r.wrote \in BOOLEAN
           /\ [r EXCEPT !.pc = "queue"] \in RunRecord
           /\ [r EXCEPT !.wrote = TRUE] \in RunRecord
           /\ \A b \in Nat \ {0} :
                 [r EXCEPT !.pc = "work", !.batch = b] \in RunRecord
           /\ \A n \in 1..7 :
                 /\ [r EXCEPT !.stage = n, !.batch = 1] \in RunRecord
                 /\ [r EXCEPT !.pc = "work", !.stage = n, !.batch = 1]
                       \in RunRecord
           /\ \A a \in {"batch", "stage", "stop", "write"} :
                 [r EXCEPT !.pc = "flush", !.after = a, !.wrote = FALSE]
                    \in RunRecord
           /\ \A x \in SUBSET StageIds :
                 [r EXCEPT !.pc = "work", !.selected = x] \in RunRecord
<1>1. /\ r.pc \in RunPCs /\ r.stage \in 1..7 /\ r.batch \in Nat \ {0}
      /\ r.selected \in SUBSET StageIds /\ r.wrote \in BOOLEAN
  BY DEF RunRecord
<1>2. /\ [r EXCEPT !.pc = "queue"] \in RunRecord
      /\ [r EXCEPT !.wrote = TRUE] \in RunRecord
  BY DEF RunRecord, RunPCs
<1>3. \A b \in Nat \ {0} : [r EXCEPT !.pc = "work", !.batch = b] \in RunRecord
  BY DEF RunRecord, RunPCs
<1>4. \A n \in 1..7, b \in Nat \ {0} :
         /\ [r EXCEPT !.stage = n, !.batch = b] \in RunRecord
         /\ [r EXCEPT !.pc = "work", !.stage = n, !.batch = b] \in RunRecord
  BY DEF RunRecord, RunPCs
<1>5. 1 \in Nat \ {0}
  OBVIOUS
<1>6. \A a \in {"batch", "stage", "stop", "write"} :
         [r EXCEPT !.pc = "flush", !.after = a, !.wrote = FALSE] \in RunRecord
  BY DEF RunRecord, RunPCs
<1>7. \A x \in SUBSET StageIds :
         [r EXCEPT !.pc = "work", !.selected = x] \in RunRecord
  BY DEF RunRecord, RunPCs
<1>8. QED
  BY <1>1, <1>2, <1>3, <1>4, <1>5, <1>6, <1>7

(* The files are written: the run goes on with the next batch, or with the  *)
(* stage after the judge.                                                   *)
LEMMA FlushDoneCases ==
    ASSUME PipeTypes, FlushDone
    PROVE  /\ run.pc = "flush" /\ Unsaved = {}
           /\ UNCHANGED <<disk, mem, attempt, pending, queue, out, ends>>
           /\ \/ /\ run.after = "batch"
                 /\ run' = [run EXCEPT !.pc = "work", !.batch = run.batch + 1]
              \/ /\ run.after = "stage" /\ run.stage = 4
                 /\ run' = [run EXCEPT !.pc = "work", !.stage = 5, !.batch = 1]
<1>1. run \in RunRecord /\ (run.after = "stage" => run.stage = 4)
  BY DEF PipeTypes, FlushDone
<1>2. \/ /\ run.after = "batch"
         /\ run' = [run EXCEPT !.pc = "work", !.batch = run.batch + 1]
      \/ /\ run.after = "stage"
         /\ run' = [run EXCEPT !.pc = "work", !.stage = run.stage + 1,
                               !.batch = 1]
  BY <1>1 DEF FlushDone, RunRecord
<1>3. run.after = "stage" => run.stage + 1 = 5
  BY <1>1
<1>4. QED
  BY <1>1, <1>2, <1>3 DEF FlushDone

(* All files are written: the files hold what is in memory.                *)
LEMMA AllSaved ==
    ASSUME PipeTypes, Unsaved = {}
    PROVE  disk = mem
<1>1. \A s \in StageIds : disk[s] = mem[s]
  BY DEF Unsaved, StageIds, ToSet
<1>2. QED
  BY <1>1 DEF PipeTypes, Store

(* One file is replaced by what is in memory.                              *)
LEMMA OneSaved ==
    ASSUME PipeTypes, FlushFile
    PROVE  /\ disk' \in Store
           /\ UNCHANGED <<mem, attempt, pending, queue, out, ends>>
           /\ \A t \in StageIds : disk'[t] = disk[t] \/ disk'[t] = mem[t]
           /\ run.pc = "flush" /\ run' = [run EXCEPT !.wrote = TRUE]
<1> DEFINE s == Stages[Min(Unsaved)]
<1>1. /\ disk' = [disk EXCEPT ![s] = mem[s]] /\ disk \in Store /\ mem \in Store
  BY DEF FlushFile, PipeTypes
<1> HIDE DEF s
<1>2. CASE s \in StageIds
  BY <1>1, <1>2 DEF Store, FlushFile
<1>3. CASE s \notin StageIds
  <2>1. disk' = disk
    BY <1>1, <1>3 DEF Store
  <2>2. QED
    BY <1>1, <2>1 DEF FlushFile
<1>4. QED
  BY <1>2, <1>3 DEF FlushFile

(* What is in memory stays dated, whether results are made or routed.      *)
LEMMA StaysDated ==
    ASSUME PipeTypes, attempt # 0, UNCHANGED attempt,
           \/ \E s, done : Extends(s, done)
           \/ Routes
    PROVE  mem' \in Store /\ Dated(mem)'
<1>1. Dated(mem) /\ attempt \in Nat /\ mem \in Store
  BY EntryTypes DEF PipeTypes
<1>2. ASSUME NEW s, NEW done, Extends(s, done)
      PROVE  mem' \in Store /\ Dated(mem)'
  <2>1. mem' \in Store
    BY <1>2 DEF Extends
  <2>2. ASSUME NEW t \in StageIds, NEW k \in Keys
        PROVE  /\ mem'[t][k].v <= attempt
               /\ mem'[t][k] # Absent => mem'[t][k].v # 0
    <3>1. CASE t = s /\ k \in done
      BY <1>1, <1>2, <3>1 DEF Extends
    <3>2. CASE ~(t = s /\ k \in done)
      <4>1. mem'[t][k] = mem[t][k]
        BY <1>2, <3>2 DEF Extends
      <4>2. QED
        BY <1>1, <4>1 DEF Dated
    <3>3. QED
      BY <3>1, <3>2
  <2>3. QED
    BY <2>1, <2>2 DEF Dated
<1>3. ASSUME Routes
      PROVE  mem' \in Store /\ Dated(mem)'
  <2>1. mem' \in Store
    BY <1>3 DEF Routes
  <2>2. ASSUME NEW t \in StageIds, NEW k \in Keys
        PROVE  /\ mem'[t][k].v <= attempt
               /\ mem'[t][k] # Absent => mem'[t][k].v # 0
    <3>1. /\ mem'[t][k].v = mem[t][k].v
          /\ mem'[t][k] # Absent => mem[t][k] # Absent
      BY <1>3 DEF Routes
    <3>2. QED
      BY <1>1, <3>1 DEF Dated
  <2>3. QED
    BY <2>1, <2>2 DEF Dated
<1>4. QED
  BY <1>2, <1>3

(* The results that a run to come takes out.                               *)
Taken(selected, rekey, s, k) == s \in Evicted(selected) /\ k \in rekey

(* A run begins with what it has loaded, less what it evicts.              *)
LEMMA Loads ==
    ASSUME PipeTypes, NEW resume \in BOOLEAN, NEW selected \in SUBSET StageIds,
           NEW rekey, Start(resume, selected, rekey)
    PROVE  /\ run.pc = "off" /\ attempt < MaxAttempts /\ attempt' = attempt + 1
           /\ UNCHANGED <<disk, pending, queue, out, ends>>
           /\ run' = [NoRunYet EXCEPT !.pc = "work", !.selected = selected]
           /\ mem' \in Store
           /\ \A s \in StageIds, k \in Keys :
                 mem'[s][k] = Absent \/ mem'[s][k] = disk[s][k]
<1> DEFINE loaded == IF resume THEN disk ELSE Empty
           states == [s \in StageIds |-> [k \in Keys |->
                      IF s \in Evicted(selected) /\ k \in rekey
                      THEN Absent ELSE loaded[s][k]]]
<1>1. loaded \in Store
  BY EntryTypes DEF PipeTypes
<1>2. /\ mem' = states
      /\ run.pc = "off" /\ attempt < MaxAttempts /\ attempt' = attempt + 1
      /\ UNCHANGED <<disk, pending, queue, out, ends>>
      /\ run' = [NoRunYet EXCEPT !.pc = "work", !.selected = selected]
  BY DEF Start
<1>3. \A s \in StageIds, k \in Keys :
         states[s][k] = IF Taken(selected, rekey, s, k) THEN Absent
                        ELSE loaded[s][k]
  BY DEF Taken
<1>4. states \in Store
  <2>1. \A s \in StageIds, k \in Keys :
           loaded[s][k] \in Entry /\ Absent \in Entry
    BY <1>1, EntryTypes DEF Store
  <2> HIDE DEF loaded
  <2>2. QED
    BY <2>1 DEF Store
<1>5. \A s \in StageIds, k \in Keys :
         loaded[s][k] = IF resume THEN disk[s][k] ELSE Absent
  BY EntryTypes
<1> HIDE DEF states, loaded
<1>6. \A s \in StageIds, k \in Keys :
         states[s][k] = Absent \/ states[s][k] = disk[s][k]
  BY <1>3, <1>5
<1>7. QED
  BY <1>2, <1>4, <1>6

(* What it takes out is not there.                                         *)
LEMMA TakenOut ==
    ASSUME NEW resume, NEW selected, NEW rekey, Start(resume, selected, rekey),
           NEW s \in StageIds, NEW k \in Keys, Taken(selected, rekey, s, k)
    PROVE  mem'[s][k] = Absent
BY DEF Start, Taken

(* What it does not take out is as it was loaded.                          *)
LEMMA NotTaken ==
    ASSUME PipeTypes, NEW resume, NEW selected, NEW rekey,
           Start(resume, selected, rekey),
           NEW s \in StageIds, NEW k \in Keys, ~Taken(selected, rekey, s, k)
    PROVE  mem'[s][k] = IF resume THEN disk[s][k] ELSE Absent
<1>1. mem'[s][k] = (IF resume THEN disk ELSE Empty)[s][k]
  BY DEF Start, Taken
<1>2. QED
  BY <1>1, EntryTypes

(* No run has begun.                                                        *)
LEMMA PipeInitial == Init => PipeTypes
<1> SUFFICES ASSUME Init PROVE PipeTypes
  OBVIOUS
<1>1. /\ disk = Empty /\ mem = Empty /\ run = NoRunYet /\ attempt = 0
      /\ pending = {} /\ queue = <<>> /\ out = NoOut
      /\ ends = [n \in 1..MaxAttempts |-> "none"]
  BY DEF Init, RunInit
<1>2. Dated(disk) /\ Dated(mem)
  BY <1>1, EntryTypes DEF Dated, Absent
<1>3. ends \in [1..MaxAttempts -> {"none", "done", "stopped", "killed", "torn"}]
      /\ \A n \in 1..MaxAttempts : ends[n] = "none"
  BY <1>1
<1>4. run.pc = "off"
  BY <1>1 DEF NoRunYet
<1>5. queue \in Seq(Keys \X (1..MaxAttempts))
  BY <1>1
<1>6. attempt \in 0..MaxAttempts
  BY <1>1, EntryTypes
<1>7. QED
  BY <1>1, <1>2, <1>3, <1>4, <1>5, <1>6, EntryTypes DEF PipeTypes

(* A run begins.                                                            *)
LEMMA PipeStart ==
    ASSUME PipeTypes, NEW resume \in BOOLEAN, NEW selected \in SUBSET StageIds,
           NEW rekey, Start(resume, selected, rekey)
    PROVE  PipeTypes'
<1>1. /\ run.pc = "off" /\ attempt < MaxAttempts /\ attempt' = attempt + 1
      /\ UNCHANGED <<disk, pending, queue, out, ends>>
      /\ run' = [NoRunYet EXCEPT !.pc = "work", !.selected = selected]
      /\ mem' \in Store
      /\ \A s \in StageIds, k \in Keys :
            mem'[s][k] = Absent \/ mem'[s][k] = disk[s][k]
  BY Loads
<1>2. /\ attempt \in Nat /\ attempt' \in 1..MaxAttempts /\ pending = {}
      /\ attempt' # 0
  BY <1>1, EntryTypes DEF PipeTypes
<1>3. run' \in RunRecord /\ run'.pc = "work"
  BY <1>1, RunTypes, EntryTypes DEF NoRunYet
<1>4. Dated(disk)'
  <2>1. \A s \in StageIds, k \in Keys : disk[s][k] \in Entry
    BY DEF PipeTypes, Store
  <2>2. \A s \in StageIds, k \in Keys : disk[s][k].v \in Nat
    BY <2>1, EntryTypes
  <2>3. QED
    BY <1>1, <1>2, <2>2 DEF PipeTypes, Dated
<1>5. Dated(mem)'
  <2> SUFFICES ASSUME NEW s \in StageIds, NEW k \in Keys
               PROVE  /\ mem'[s][k].v <= attempt'
                      /\ mem'[s][k] # Absent => mem'[s][k].v # 0
    BY DEF Dated
  <2>1. CASE mem'[s][k] = Absent
    BY <1>2, <2>1 DEF Absent
  <2>2. CASE mem'[s][k] = disk[s][k]
    BY <1>1, <1>4, <2>2 DEF Dated
  <2>3. QED
    BY <1>1, <2>1, <2>2
<1>6. /\ ends'[attempt'] = "none"
      /\ \A n \in 1..MaxAttempts : n > attempt' => ends'[n] = "none"
  BY <1>1, <1>2 DEF PipeTypes
<1>7. QED
  BY <1>1, <1>2, <1>3, <1>4, <1>5, <1>6 DEF PipeTypes

(* Steps of the run in progress.                                           *)
LEMMA PipeRunStep ==
    ASSUME PipeTypes, RunStep
    PROVE  PipeTypes'
<1>1. /\ run \in RunRecord /\ attempt \in 0..MaxAttempts /\ disk \in Store
      /\ mem \in Store /\ Dated(disk) /\ Dated(mem)
  BY DEF PipeTypes
<1>2. /\ run.pc # "off" /\ attempt # 0 /\ UNCHANGED <<attempt, ends, out>>
      /\ attempt \in 1..MaxAttempts
  BY <1>1 DEF PipeTypes, RunStep, Work, Stop, StageEnds, FlushFile,
     FlushDone, QueueRow, QueueDone
<1>3. "enrich" \in StageIds
  BY StageSet
<1>4. CASE Work
  <2>1. Extends(Stages[run.stage], Todo)
    BY <1>4, WorkExtends
  <2>2. /\ run' = Save("batch") /\ UNCHANGED <<disk, queue>> /\ run.pc = "work"
        /\ pending' = IF Stages[run.stage] = "enrich"
                      THEN pending \cup (Todo \cap Vetoed) ELSE pending
    BY <1>4 DEF Work
  <2>3. mem' \in Store /\ Dated(mem)'
    BY <1>2, <2>1, StaysDated
  <2>4. run' \in RunRecord /\ run'.pc = "flush" /\ run'.after = "batch"
    BY <1>1, <2>2, RunTypes DEF Save, RunRecord
  <2>5. ASSUME NEW k \in pending'
        PROVE  k \in Keys /\ mem'["enrich"][k].v = attempt
    <3>1. CASE k \in Todo /\ Stages[run.stage] = "enrich"
      BY <2>1, <3>1, KeyTypes DEF Extends
    <3>2. CASE k \in pending
      <4>1. k \in Keys /\ mem["enrich"][k].v = attempt
        BY <3>2 DEF PipeTypes
      <4>2. CASE k \in Todo /\ Stages[run.stage] = "enrich"
        BY <3>1, <4>2
      <4>3. CASE ~(k \in Todo /\ Stages[run.stage] = "enrich")
        <5>1. mem'["enrich"][k] = mem["enrich"][k]
          BY <1>3, <2>1, <4>1, <4>3 DEF Extends
        <5>2. QED
          BY <4>1, <5>1
      <4>4. QED
        BY <4>2, <4>3
    <3>3. QED
      BY <2>2, <3>1, <3>2
  <2>6. Dated(disk)'
    BY <1>1, <1>2, <2>2 DEF Dated
  <2>7. QED
    BY <1>2, <2>2, <2>3, <2>4, <2>5, <2>6 DEF PipeTypes
<1>5. CASE Stop
  <2>1. PICK done \in SUBSET Todo : Extends(Stages[run.stage], done)
    BY <1>5, StopExtends
  <2>2. /\ run' = Save("stop") /\ run.pc = "work"
        /\ UNCHANGED <<disk, queue, pending>>
    BY <1>5 DEF Stop
  <2>3. mem' \in Store /\ Dated(mem)'
    BY <1>2, <2>1, StaysDated
  <2>4. run' \in RunRecord /\ run'.pc = "flush" /\ run'.after = "stop"
    BY <1>1, <2>2, RunTypes DEF Save, RunRecord
  <2>5. ASSUME NEW k \in pending'
        PROVE  k \in Keys /\ mem'["enrich"][k].v = attempt
    <3>1. k \in Keys /\ mem["enrich"][k].v = attempt
      BY <2>2 DEF PipeTypes
    <3>2. QED
      BY <1>3, <2>1, <3>1 DEF Extends
  <2>6. Dated(disk)'
    BY <1>1, <1>2, <2>2 DEF Dated
  <2>7. QED
    BY <1>2, <2>2, <2>3, <2>4, <2>5, <2>6 DEF PipeTypes
<1>6. CASE StageEnds
  <2>1. /\ Routes /\ UNCHANGED <<disk, queue, pending>> /\ run.pc = "work"
    BY <1>6, StageEndsCases DEF StageEnds
  <2>2. mem' \in Store /\ Dated(mem)'
    BY <1>2, <2>1, StaysDated
  <2>3. /\ run' \in RunRecord /\ run'.pc # "off"
        /\ run'.pc = "flush" => run'.after = "stage" /\ run'.stage = 4
    <3>1. CASE run' = [run EXCEPT !.pc = "queue"]
      BY <1>1, <3>1, RunTypes DEF RunRecord
    <3>2. CASE /\ run.stage # 7
               /\ run' = [run EXCEPT !.stage = run.stage + 1, !.batch = 1]
      <4>1. run.stage + 1 \in 1..7
        <5>1. run.stage \in 1..7 /\ run.stage # 7
          BY <1>1, <3>2 DEF RunRecord
        <5>2. QED
          BY <5>1
      <4>2. run' \in RunRecord
        BY <1>1, <3>2, <4>1, RunTypes
      <4>3. run'.pc = run.pc
        BY <1>1, <3>2 DEF RunRecord
      <4>4. QED
        BY <2>1, <4>2, <4>3
    <3>3. CASE run' = Save("stage") /\ run.stage = 4
      <4>1. run' \in RunRecord
        BY <1>1, <3>3, RunTypes DEF Save
      <4>2. QED
        BY <1>1, <3>3, <4>1 DEF Save, RunRecord
    <3>4. QED
      BY <1>6, <3>1, <3>2, <3>3, StageEndsCases
  <2>4. ASSUME NEW k \in pending'
        PROVE  k \in Keys /\ mem'["enrich"][k].v = attempt
    BY <1>3, <2>1 DEF PipeTypes, Routes
  <2>5. Dated(disk)'
    BY <1>1, <1>2, <2>1 DEF Dated
  <2>6. QED
    BY <1>2, <2>1, <2>2, <2>3, <2>4, <2>5 DEF PipeTypes
<1>7. CASE FlushFile
  <2>1. /\ disk' \in Store /\ UNCHANGED <<mem, pending, queue>>
        /\ \A t \in StageIds : disk'[t] = disk[t] \/ disk'[t] = mem[t]
        /\ run.pc = "flush" /\ run' = [run EXCEPT !.wrote = TRUE]
    BY <1>7, OneSaved
  <2>2. Dated(disk)' /\ Dated(mem)'
    BY <1>1, <1>2, <2>1 DEF Dated
  <2>3. /\ run' \in RunRecord /\ run'.pc = run.pc /\ run'.after = run.after
        /\ run'.stage = run.stage
    BY <1>1, <2>1, RunTypes DEF RunRecord
  <2>4. QED
    BY <1>2, <2>1, <2>2, <2>3 DEF PipeTypes
<1>8. CASE FlushDone
  <2>1. /\ UNCHANGED <<disk, mem, pending, queue>>
        /\ \/ /\ run.after = "batch"
              /\ run' = [run EXCEPT !.pc = "work", !.batch = run.batch + 1]
           \/ /\ run.after = "stage" /\ run.stage = 4
              /\ run' = [run EXCEPT !.pc = "work", !.stage = 5, !.batch = 1]
    BY <1>8, FlushDoneCases
  <2>2. run.batch + 1 \in Nat \ {0} /\ 5 \in 1..7
    <3>1. run.batch \in Nat
      BY <1>1 DEF RunRecord
    <3>2. QED
      BY <3>1
  <2>3. run' \in RunRecord
    BY <1>1, <2>1, <2>2, RunTypes
  <2>4. run'.pc = "work"
    BY <1>1, <2>1 DEF RunRecord
  <2>5. Dated(disk)' /\ Dated(mem)'
    BY <1>1, <1>2, <2>1 DEF Dated
  <2>6. QED
    BY <1>2, <2>1, <2>3, <2>4, <2>5 DEF PipeTypes
<1>9. CASE QueueRow
  <2>1. PICK k \in pending :
           /\ queue' = Append(queue, <<k, mem["enrich"][k].v>>)
           /\ pending' = pending \ {k}
    BY <1>9 DEF QueueRow
  <2>2. UNCHANGED <<disk, mem, run>> /\ run.pc = "queue"
    BY <1>9 DEF QueueRow
  <2>3. <<k, mem["enrich"][k].v>> \in Keys \X (1..MaxAttempts)
    BY <1>2, <2>1 DEF PipeTypes
  <2>4. queue' \in Seq(Keys \X (1..MaxAttempts))
    BY <2>1, <2>3, AppendProperties DEF PipeTypes
  <2>5. Dated(disk)' /\ Dated(mem)'
    BY <1>1, <1>2, <2>2 DEF Dated
  <2>6. QED
    BY <1>2, <2>1, <2>2, <2>4, <2>5 DEF PipeTypes
<1>10. CASE QueueDone
  <2>1. run' = Save("write") /\ UNCHANGED <<disk, mem, pending, queue>>
    BY <1>10 DEF QueueDone
  <2>2. run' \in RunRecord /\ run'.pc = "flush" /\ run'.after = "write"
    BY <1>1, <2>1, RunTypes DEF Save, RunRecord
  <2>3. Dated(disk)' /\ Dated(mem)'
    BY <1>1, <1>2, <2>1 DEF Dated
  <2>4. QED
    BY <1>2, <2>1, <2>2, <2>3 DEF PipeTypes
<1>11. QED
  BY <1>4, <1>5, <1>6, <1>7, <1>8, <1>9, <1>10 DEF RunStep

(* A run ends.                                                             *)
LEMMA PipeEnds ==
    ASSUME PipeTypes, run.pc # "off", UNCHANGED disk,
           NEW how \in {"done", "stopped", "killed", "torn"}, RunEnds(how),
           out' \in Outs
    PROVE  PipeTypes'
<1>1. /\ run' = NoRunYet /\ mem' = Empty /\ pending' = {}
      /\ ends' = [ends EXCEPT ![attempt] = how] /\ UNCHANGED <<attempt, queue>>
  BY DEF RunEnds
<1>2. /\ run' \in RunRecord /\ run'.pc = "off" /\ mem' \in Store
  BY <1>1, EntryTypes DEF NoRunYet
<1>3. Dated(disk)' /\ Dated(mem)'
  <2>1. attempt \in Nat
    BY EntryTypes DEF PipeTypes
  <2>2. QED
    BY <1>1, <2>1, EntryTypes DEF PipeTypes, Dated, Absent
<1>4. ends' \in [1..MaxAttempts ->
                    {"none", "done", "stopped", "killed", "torn"}]
  BY <1>1 DEF PipeTypes
<1>5. \A n \in 1..MaxAttempts : n > attempt => ends'[n] = "none"
  <2>1. attempt \in Nat /\ MaxAttempts \in Nat
    BY EntryTypes DEF PipeTypes
  <2>2. QED
    BY <1>1, <2>1 DEF PipeTypes
<1>6. QED
  BY <1>1, <1>2, <1>3, <1>4, <1>5 DEF PipeTypes

(* Every step keeps the types and the dates.                                *)
LEMMA PipeStep ==
    ASSUME PipeTypes, PipelineNext
    PROVE  PipeTypes'
<1>1. CASE \E resume \in BOOLEAN, selected \in SUBSET StageIds,
              rekey \in SUBSET Keys : Start(resume, selected, rekey)
  BY <1>1, PipeStart
<1>2. CASE RunStep
  BY <1>2, PipeRunStep
<1>3. CASE RunStops
  <2>1. /\ run.pc # "off" /\ UNCHANGED <<disk, out>> /\ RunEnds("stopped")
        /\ out' \in Outs
    BY <1>3 DEF RunStops, PipeTypes
  <2>2. QED
    BY <2>1, PipeEnds
<1>4. CASE RunWrites
  <2>1. run.pc # "off" /\ UNCHANGED disk /\ RunEnds("done")
    BY <1>4 DEF RunWrites
  <2>2. out' \in Outs
    <3>1. /\ KeysOf(7) \in SUBSET Keys
          /\ {k \in KeysOf(7) : Mixed(k)} \in SUBSET Keys
          /\ {k \in KeysOf(7) : Partial(k)} \in SUBSET Keys
      BY KeyTypes
    <3>2. (run.selected = StageIds) \in BOOLEAN /\ attempt \in 0..MaxAttempts
      BY DEF PipeTypes
    <3>3. out' = [by |-> attempt, full |-> run.selected = StageIds,
                  rows |-> KeysOf(7), mixed |-> {k \in KeysOf(7) : Mixed(k)},
                  partial |-> {k \in KeysOf(7) : Partial(k)}]
      BY <1>4 DEF RunWrites
    <3>4. QED
      BY <3>1, <3>2, <3>3 DEF Outs
  <2>3. QED
    BY <2>1, <2>2, PipeEnds
<1>5. CASE RunKilled
  <2>1. /\ run.pc # "off" /\ UNCHANGED <<disk, out>>
        /\ RunEnds("torn") \/ RunEnds("killed")
        /\ out' \in Outs
    BY <1>5 DEF RunKilled, PipeTypes
  <2>2. QED
    BY <2>1, PipeEnds
<1>6. CASE UNCHANGED runVars
  BY <1>6 DEF runVars, PipeTypes, Dated
<1>7. QED
  BY <1>1, <1>2, <1>3, <1>4, <1>5, <1>6 DEF PipelineNext

(* They hold in every state.                                                *)
LEMMA PipeAlways == Spec => []PipeTypes
<1>1. PipeTypes /\ [Next]_vars => PipeTypes'
  BY PipelineSteps, PipeStep
<1>2. QED
  BY <1>1, PipeInitial, PTL DEF Spec

-----------------------------------------------------------------------------
(* No row mixes generations                                                *)

(* Whatever a result was computed from is what is upstream of it.          *)
Consistent(states) ==
    \A s \in StageIds, k \in Keys :
        /\ Upstream[s] # "none" /\ states[s][k] # Absent /\ states[s][k].up # 0
        => states[s][k].up = states[Upstream[s]][k].v

Torn == \E n \in 1..MaxAttempts : ends[n] = "torn"

(* Unless a run was killed between two files of one write, memory is       *)
(* consistent, and the files are whenever a kill would not tear them.      *)
MixInv ==
    \/ Torn
    \/ /\ Consistent(mem)
       /\ \/ Consistent(disk)
          \/ run.pc = "flush" /\ run.wrote /\ Unsaved # {}
       /\ out.mixed = {}

(* What is evicted takes all with it that was computed from it.            *)
LEMMA EvictedClosed ==
    ASSUME NEW selected \in SUBSET StageIds, NEW t \in StageIds,
           Upstream[t] \in Evicted(selected)
    PROVE  t \in Evicted(selected)
<1>1. CASE t = "sense_judge"
  <2>1. "anchor_rank" \in Evicted(selected)
    BY <1>1, Chain
  <2>2. "anchor_rank" \in selected
    BY <2>1, Chain2, Chain3, StageSet DEF Evicted
  <2>3. QED
    BY <1>1, <2>2, Chain2 DEF Evicted
<1>2. CASE t = "topic_vectors" \/ t = "enrich"
  <2>1. "sense_judge" \in Evicted(selected)
    BY <1>2, Chain
  <2>2. "sense_judge" \in selected \/ "anchor_rank" \in selected
    BY <2>1, Chain2, Chain3, StageSet DEF Evicted
  <2>3. QED
    BY <1>2, <2>2, Chain2 DEF Evicted
<1>3. CASE t = "topic_label"
  <2>1. "topic_vectors" \in Evicted(selected)
    BY <1>3, Chain
  <2>2. "topic_vectors" \in selected \/ "sense_judge" \in selected
        \/ "anchor_rank" \in selected
    BY <2>1, Chain2, Chain3, StageSet DEF Evicted
  <2>3. QED
    BY <1>3, <2>2, Chain2 DEF Evicted
<1>4. CASE t \in {"preprocess", "inflection_review", "anchor_rank"}
  <2>1. "none" \in Evicted(selected)
    BY <1>4, Chain
  <2>2. "none" \notin Evicted(selected)
    BY Chain2, Chain3, StageSet DEF Evicted
  <2>3. QED
    BY <2>1, <2>2
<1>5. QED
  BY <1>1, <1>2, <1>3, <1>4, StageSet

(* Results are made from what is upstream now, and for items that have none *)
(* yet, so that nothing was made from these; routes change no date.         *)
LEMMA StaysConsistent ==
    ASSUME PipeTypes, Consistent(mem),
           \/ \E s, done : Extends(s, done)
           \/ Routes
    PROVE  Consistent(mem)'
<1> SUFFICES ASSUME NEW t \in StageIds, NEW k \in Keys,
                    Upstream[t] # "none", mem'[t][k] # Absent, mem'[t][k].up # 0
             PROVE  mem'[t][k].up = mem'[Upstream[t]][k].v
  BY DEF Consistent
<1> DEFINE u == Upstream[t]
<1>1. u \in StageIds /\ u # t
  BY UpstreamType
<1>2. mem[t][k] # Absent /\ mem[t][k].up # 0 => mem[t][k].up = mem[u][k].v
  BY DEF Consistent
<1> HIDE DEF u
<1>3. ASSUME NEW s, NEW done, Extends(s, done)
      PROVE  mem'[t][k].up = mem'[u][k].v
  <2>1. CASE t = s /\ k \in done
    BY <1>1, <1>3, <2>1 DEF Extends, u
  <2>2. CASE ~(t = s /\ k \in done)
    <3>1. mem'[t][k] = mem[t][k]
      BY <1>3, <2>2 DEF Extends
    <3>2. mem[t][k].up = mem[u][k].v /\ mem[u][k].v # 0
      BY <1>2, <3>1
    <3>3. ~(u = s /\ k \in done)
      BY <1>3, <3>2 DEF Extends, Absent
    <3>4. mem'[u][k] = mem[u][k]
      BY <1>1, <1>3, <3>3 DEF Extends
    <3>5. QED
      BY <3>1, <3>2, <3>4
  <2>3. QED
    BY <2>1, <2>2
<1>4. ASSUME Routes
      PROVE  mem'[t][k].up = mem'[u][k].v
  <2>1. /\ mem'[t][k].up = mem[t][k].up
        /\ mem'[t][k] # Absent => mem[t][k] # Absent
        /\ mem'[u][k].v = mem[u][k].v
    BY <1>1, <1>4 DEF Routes
  <2>2. QED
    BY <1>2, <2>1
<1>5. QED
  BY <1>3, <1>4 DEF u

(* What is loaded is consistent, less whole chains of results.              *)
LEMMA LoadsConsistent ==
    ASSUME PipeTypes, Consistent(disk), NEW resume \in BOOLEAN,
           NEW selected \in SUBSET StageIds, NEW rekey,
           Start(resume, selected, rekey)
    PROVE  Consistent(mem)'
<1> SUFFICES ASSUME NEW t \in StageIds, NEW k \in Keys,
                    Upstream[t] # "none", mem'[t][k] # Absent, mem'[t][k].up # 0
             PROVE  mem'[t][k].up = mem'[Upstream[t]][k].v
  BY DEF Consistent
<1>1. Upstream[t] \in StageIds
  BY UpstreamType
<1>2. ASSUME Taken(selected, rekey, t, k) PROVE FALSE
  BY <1>2, TakenOut
<1>3. mem'[t][k] = IF resume THEN disk[t][k] ELSE Absent
  BY <1>2, NotTaken
<1>4. mem'[t][k] = disk[t][k] /\ resume
  BY <1>3
<1>5. ASSUME Taken(selected, rekey, Upstream[t], k) PROVE FALSE
  BY <1>2, <1>5, EvictedClosed DEF Taken
<1>6. mem'[Upstream[t]][k] = disk[Upstream[t]][k]
  <2>1. mem'[Upstream[t]][k] = IF resume THEN disk[Upstream[t]][k] ELSE Absent
    BY <1>1, <1>5, NotTaken
  <2>2. QED
    BY <1>4, <2>1
<1>7. QED
  BY <1>4, <1>6 DEF Consistent

(* A torn write is not forgotten.                                           *)
LEMMA TornStays ==
    ASSUME PipeTypes, PipelineNext, Torn
    PROVE  Torn'
<1>1. CASE UNCHANGED ends
  BY <1>1 DEF Torn
<1>2. CASE /\ run.pc # "off"
           /\ \E how \in {"stopped", "done", "torn", "killed"} : RunEnds(how)
  <2>1. PICK n \in 1..MaxAttempts : ends[n] = "torn"
    BY DEF Torn
  <2>2. n # attempt
    BY <1>2, <2>1 DEF PipeTypes
  <2>3. ends'[n] = ends[n]
    BY <1>2, <2>1, <2>2 DEF RunEnds, PipeTypes
  <2>4. QED
    BY <2>1, <2>3 DEF Torn
<1>3. QED
  <2>1. CASE RunStops \/ RunWrites \/ RunKilled
    BY <1>2, <2>1 DEF RunStops, RunWrites, RunKilled
  <2>2. CASE ~(RunStops \/ RunWrites \/ RunKilled)
    BY <1>1, <2>2 DEF PipelineNext, Start, RunStep, Work, Stop, StageEnds,
       FlushFile, FlushDone, QueueRow, QueueDone, runVars
  <2>3. QED
    BY <2>1, <2>2

(* Every step keeps memory and files consistent, unless it tears a write.   *)
LEMMA MixStep ==
    ASSUME PipeTypes, PipeTypes', MixInv, PipelineNext
    PROVE  MixInv'
<1> SUFFICES ASSUME ~Torn PROVE MixInv'
  BY TornStays DEF MixInv
<1>1. /\ Consistent(mem) /\ out.mixed = {}
      /\ \/ Consistent(disk)
         \/ run.pc = "flush" /\ run.wrote /\ Unsaved # {}
  BY DEF MixInv
<1>2. CASE \E resume \in BOOLEAN, selected \in SUBSET StageIds,
              rekey \in SUBSET Keys : Start(resume, selected, rekey)
  <2>1. PICK resume \in BOOLEAN, selected \in SUBSET StageIds,
             rekey \in SUBSET Keys : Start(resume, selected, rekey)
    BY <1>2
  <2>2. run.pc = "off" /\ UNCHANGED <<disk, out>>
    BY <2>1, Loads
  <2>3. Consistent(disk)
    BY <1>1, <2>2
  <2>4. Consistent(mem)'
    BY <2>1, <2>3, LoadsConsistent
  <2>5. Consistent(disk)'
    BY <2>2, <2>3 DEF Consistent
  <2>6. QED
    BY <1>1, <2>2, <2>4, <2>5 DEF MixInv
<1>3. CASE Work \/ Stop \/ StageEnds
  <2>1. (\E s, done : Extends(s, done)) \/ Routes
    BY <1>3, WorkExtends, StopExtends, StageEndsCases
  <2>2. Consistent(mem)'
    BY <1>1, <2>1, StaysConsistent
  <2>3. run.pc = "work" /\ UNCHANGED <<disk, out>>
    BY <1>3 DEF Work, Stop, StageEnds
  <2>4. Consistent(disk)
    BY <1>1, <2>3
  <2>5. Consistent(disk)'
    BY <2>3, <2>4 DEF Consistent
  <2>6. QED
    BY <1>1, <2>2, <2>3, <2>5 DEF MixInv
<1>4. CASE FlushFile
  <2>1. /\ UNCHANGED <<mem, out>> /\ run'.pc = "flush" /\ run'.wrote
    BY <1>4, OneSaved DEF PipeTypes, RunRecord
  <2>2. Consistent(mem)'
    BY <1>1, <2>1 DEF Consistent
  <2>3. CASE Unsaved' = {}
    <3>1. \A s \in StageIds : disk'[s] = mem'[s]
      BY <2>3 DEF Unsaved, StageIds, ToSet
    <3>2. Consistent(disk)'
      BY <2>2, <3>1, UpstreamType DEF Consistent
    <3>3. QED
      BY <1>1, <2>1, <2>2, <3>2 DEF MixInv
  <2>4. CASE Unsaved' # {}
    BY <1>1, <2>1, <2>2, <2>4 DEF MixInv
  <2>5. QED
    BY <2>3, <2>4
<1>5. CASE FlushDone
  <2>1. disk = mem /\ UNCHANGED <<mem, disk, out>>
    BY <1>5, FlushDoneCases, AllSaved
  <2>2. Consistent(mem)' /\ Consistent(disk)'
    BY <1>1, <2>1 DEF Consistent
  <2>3. QED
    BY <1>1, <2>1, <2>2 DEF MixInv
<1>6. CASE QueueRow \/ QueueDone
  <2>1. run.pc = "queue" /\ UNCHANGED <<mem, disk, out>>
    BY <1>6 DEF QueueRow, QueueDone
  <2>2. Consistent(disk)
    BY <1>1, <2>1
  <2>3. Consistent(mem)' /\ Consistent(disk)'
    BY <1>1, <2>1, <2>2 DEF Consistent
  <2>4. QED
    BY <1>1, <2>1, <2>3 DEF MixInv
<1>7. ASSUME NEW how, RunEnds(how), UNCHANGED disk, Consistent(disk),
             out'.mixed = {}
      PROVE  MixInv'
  <2>1. Consistent(mem)'
    <3>1. \A s \in StageIds, k \in Keys : mem'[s][k] = Absent
      BY <1>7, EntryTypes DEF RunEnds
    <3>2. QED
      BY <3>1 DEF Consistent
  <2>2. Consistent(disk)'
    BY <1>7 DEF Consistent
  <2>3. QED
    BY <1>7, <2>1, <2>2 DEF MixInv
<1>8. CASE RunStops
  <2>1. disk = mem /\ UNCHANGED <<disk, out>> /\ RunEnds("stopped")
    BY <1>8, AllSaved DEF RunStops
  <2>2. QED
    BY <1>1, <1>7, <2>1
<1>9. CASE RunWrites
  <2>1. disk = mem /\ UNCHANGED disk /\ RunEnds("done")
    BY <1>9, AllSaved DEF RunWrites
  <2>2. out'.mixed = {k \in KeysOf(7) : Mixed(k)}
    BY <1>9 DEF RunWrites
  <2>3. \A k \in KeysOf(7) : ~Mixed(k)
    BY <1>1, KeyTypes DEF Mixed, Consistent, Done
  <2>4. QED
    BY <1>1, <1>7, <2>1, <2>2, <2>3
<1>10. CASE RunKilled
  <2>1. UNCHANGED <<disk, out>>
    BY <1>10 DEF RunKilled
  <2>2. CASE run.pc = "flush" /\ run.wrote /\ Unsaved # {}
    <3>1. RunEnds("torn") /\ attempt \in 1..MaxAttempts
      BY <1>10, <2>2 DEF RunKilled, PipeTypes
    <3>2. ends'[attempt] = "torn"
      BY <3>1 DEF RunEnds, PipeTypes
    <3>3. Torn'
      BY <3>1, <3>2 DEF Torn
    <3>4. QED
      BY <3>3 DEF MixInv
  <2>3. CASE ~(run.pc = "flush" /\ run.wrote /\ Unsaved # {})
    BY <1>1, <1>7, <1>10, <2>1, <2>3 DEF RunKilled
  <2>4. QED
    BY <2>2, <2>3
<1>11. CASE UNCHANGED runVars
  <2>1. UNCHANGED <<disk, mem, run, out>>
    BY <1>11 DEF runVars
  <2>2. Consistent(mem)' /\ (Consistent(disk) => Consistent(disk)')
    BY <1>1, <2>1 DEF Consistent
  <2>3. Unsaved' = Unsaved
    BY <2>1 DEF Unsaved
  <2>4. QED
    BY <1>1, <2>1, <2>2, <2>3 DEF MixInv
<1>12. QED
  BY <1>2, <1>3, <1>4, <1>5, <1>6, <1>8, <1>9, <1>10, <1>11
     DEF PipelineNext, RunStep

(* Rows are never assembled from results of different generations, for     *)
(* any sample, batch width, selection of stages and set of rekeyed items,  *)
(* stopped or killed at any point: a forced redo evicts what is downstream *)
(* of it (_DOWNSTREAM).  The exception is a kill between two files of one  *)
(* write (_flush).                                                         *)
THEOREM NoRowIsMixed == Spec => []NoStaleMix
<1>1. Init => MixInv
  <2> SUFFICES ASSUME Init PROVE MixInv
    OBVIOUS
  <2>1. disk = Empty /\ mem = Empty /\ out.mixed = {}
    BY DEF Init, RunInit, NoOut
  <2>2. \A s \in StageIds, k \in Keys :
           mem[s][k] = Absent /\ disk[s][k] = Absent
    BY <2>1, EntryTypes
  <2>3. Consistent(mem) /\ Consistent(disk)
    BY <2>2 DEF Consistent
  <2>4. QED
    BY <2>1, <2>3 DEF MixInv
<1>2. PipeTypes /\ PipeTypes' /\ MixInv /\ [Next]_vars => MixInv'
  BY PipelineSteps, MixStep
<1>3. PipeTypes /\ MixInv => NoStaleMix
  BY DEF PipeTypes, MixInv, Torn, NoStaleMix
<1>4. QED
  BY <1>1, <1>2, <1>3, PipeAlways, PTL DEF Spec

-----------------------------------------------------------------------------
(* What a kill costs                                                       *)

(* The items of a stage, and their batches, follow from what the stages    *)
(* before it have made of them.                                            *)
LEMMA ItemsStand ==
    ASSUME NEW n \in 1..7,
           \A m \in 1..7 : m < n => mem'[Stages[m]] = mem[Stages[m]]
    PROVE  /\ Items(n)' = Items(n) /\ KeysOf(n)' = KeysOf(n)
           /\ \A i : Key(n, i)' = Key(n, i)
           /\ \A i : Rank(n, i)' = Rank(n, i)
           /\ \A b : BatchKeys(n, b)' = BatchKeys(n, b)
<1>1. /\ n > 1 => mem'["preprocess"] = mem["preprocess"]
      /\ n > 2 => mem'["inflection_review"] = mem["inflection_review"]
      /\ n > 3 => mem'["anchor_rank"] = mem["anchor_rank"]
      /\ n > 4 => mem'["sense_judge"] = mem["sense_judge"]
  BY StageNames
<1>2. n > 2 => \A k : Cur(k)' = Cur(k)
  BY <1>1 DEF Cur
<1>3. \A i : Key(n, i)' = Key(n, i)
  BY <1>2 DEF Key
<1>4. Items(n)' = Items(n)
  <2>1. n > 1 => \A k : Dropped("preprocess", k)' = Dropped("preprocess", k)
    BY <1>1 DEF Dropped
  <2>2. n > 2 => \A k : Dropped("inflection_review", k)'
                        = Dropped("inflection_review", k)
    BY <1>1 DEF Dropped
  <2>3. n > 3 => \A k : Dropped("anchor_rank", Cur(k))'
                        = Dropped("anchor_rank", Cur(k))
    <3>1. n > 3 => n > 2
      OBVIOUS
    <3>2. QED
      BY <1>1, <1>2, <3>1 DEF Dropped
  <2>4. n > 4 => \A k : Dropped("sense_judge", Cur(k))'
                        = Dropped("sense_judge", Cur(k))
    <3>1. n > 4 => n > 2
      OBVIOUS
    <3>2. QED
      BY <1>1, <1>2, <3>1 DEF Dropped
  <2>5. QED
    BY <2>1, <2>2, <2>3, <2>4 DEF Items
<1>5. KeysOf(n)' = KeysOf(n)
  BY <1>3, <1>4 DEF KeysOf
<1>6. \A i : Rank(n, i)' = Rank(n, i)
  BY <1>4 DEF Rank
<1>7. \A b : BatchKeys(n, b)' = BatchKeys(n, b)
  BY <1>3, <1>4, <1>6 DEF BatchKeys, BatchItems
<1>8. QED
  BY <1>3, <1>4, <1>5, <1>6, <1>7

(* What is in memory and not in the files is of the batch being saved.     *)
OneBatchInv ==
    \A s \in StageIds, k \in Keys :
        Done(s, k) /\ disk[s][k].v # mem[s][k].v
            => /\ run.pc = "flush" /\ run.after \in {"batch", "stop"}
               /\ s = Stages[run.stage]
               /\ \A n \in 1..7, b \in Nat \ {0} :
                     n = run.stage /\ b = run.batch => k \in BatchKeys(n, b)

(* The batch is done, or as much of it as a stopped run has: its stage is  *)
(* the one that got results.                                               *)
LEMMA BatchUnsaved ==
    ASSUME PipeTypes, OneBatchInv, run.pc = "work", UNCHANGED disk,
           NEW done \in SUBSET Todo, Extends(Stages[run.stage], done),
           NEW after \in {"batch", "stop"}, run' = Save(after)
    PROVE  OneBatchInv'
<1>1. PICK n \in 1..7 : n = run.stage
  BY DEF PipeTypes, RunRecord
<1>2. PICK b \in Nat \ {0} : b = run.batch
  BY DEF PipeTypes, RunRecord
<1>3. /\ run'.pc = "flush" /\ run'.after = after
      /\ run'.stage = n /\ run'.batch = b
  BY <1>1, <1>2 DEF Save, PipeTypes, RunRecord
<1>4. BatchKeys(n, b)' = BatchKeys(n, b)
  <2>1. \A m \in 1..7 : m < n => mem'[Stages[m]] = mem[Stages[m]]
    <3>1. \A m \in 1..7 :
             m < n => Stages[m] \in StageIds /\ Stages[m] # Stages[n]
      BY StageIdOf, StagesDiffer
    <3>2. QED
      BY <1>1, <3>1 DEF Extends
  <2>2. QED
    BY <2>1, ItemsStand
<1>5. Todo \subseteq BatchKeys(n, b)
  BY <1>1, <1>2 DEF Todo
<1> SUFFICES ASSUME NEW s \in StageIds, NEW k \in Keys,
                    mem'[s][k] # Absent, disk'[s][k].v # mem'[s][k].v
             PROVE  s = Stages[n] /\ k \in done
  <2>1. \A s \in StageIds, k \in Keys :
           mem'[s][k] # Absent /\ disk'[s][k].v # mem'[s][k].v
              => s = Stages[n] /\ k \in BatchKeys(n, b)'
    BY <1>4, <1>5
  <2>2. QED
    BY <1>3, <2>1 DEF OneBatchInv, Done
<1>6. CASE ~(s = Stages[n] /\ k \in done)
  <2>1. mem'[s][k] = mem[s][k] /\ disk'[s][k] = disk[s][k]
    BY <1>1, <1>6 DEF Extends
  <2>2. QED
    BY <2>1 DEF OneBatchInv, Done
<1>7. QED
  BY <1>6

(* Every step but the work on a batch saves or drops what is unsaved.       *)
LEMMA OneBatchStep ==
    ASSUME PipeTypes, PipeTypes', OneBatchInv, PipelineNext
    PROVE  OneBatchInv'
<1>1. CASE \E resume \in BOOLEAN, selected \in SUBSET StageIds,
              rekey \in SUBSET Keys : Start(resume, selected, rekey)
  <2>1. PICK resume \in BOOLEAN, selected \in SUBSET StageIds,
             rekey \in SUBSET Keys : Start(resume, selected, rekey)
    BY <1>1
  <2>2. /\ disk' = disk
        /\ \A s \in StageIds, k \in Keys :
              mem'[s][k] = Absent \/ mem'[s][k] = disk[s][k]
    BY <2>1, Loads
  <2>3. QED
    BY <2>2 DEF OneBatchInv, Done
<1>2. CASE Work
  <2>1. /\ run.pc = "work" /\ UNCHANGED disk /\ run' = Save("batch")
        /\ Todo \in SUBSET Todo
    BY <1>2 DEF Work
  <2>2. QED
    BY <1>2, <2>1, WorkExtends, BatchUnsaved
<1>3. CASE Stop
  <2>1. run.pc = "work" /\ UNCHANGED disk /\ run' = Save("stop")
    BY <1>3 DEF Stop
  <2>2. PICK done \in SUBSET Todo : Extends(Stages[run.stage], done)
    BY <1>3, StopExtends
  <2>3. QED
    BY <2>1, <2>2, BatchUnsaved
<1>4. CASE StageEnds
  <2>1. Routes /\ run.pc = "work" /\ UNCHANGED disk
    BY <1>4, StageEndsCases DEF StageEnds
  <2>2. \A s \in StageIds, k \in Keys :
           /\ mem'[s][k].v = mem[s][k].v
           /\ mem'[s][k] # Absent => mem[s][k] # Absent
    BY <2>1 DEF Routes
  <2>3. QED
    BY <2>1, <2>2 DEF OneBatchInv, Done
<1>5. CASE FlushFile
  <2>1. /\ \A t \in StageIds : disk'[t] = disk[t] \/ disk'[t] = mem[t]
        /\ UNCHANGED mem /\ run' = [run EXCEPT !.wrote = TRUE]
    BY <1>5, OneSaved
  <2>2. /\ run'.pc = run.pc /\ run'.after = run.after
        /\ run'.stage = run.stage /\ run'.batch = run.batch
    BY <2>1 DEF PipeTypes, RunRecord
  <2>3. \A n \in 1..7, b \in Nat \ {0} : BatchKeys(n, b)' = BatchKeys(n, b)
    <3>1. \A m \in 1..7 : mem'[Stages[m]] = mem[Stages[m]]
      BY <2>1
    <3>2. QED
      BY <3>1, ItemsStand
  <2>4. QED
    <3> SUFFICES ASSUME NEW s \in StageIds, NEW k \in Keys,
                        mem'[s][k] # Absent, disk'[s][k].v # mem'[s][k].v
                 PROVE  /\ run'.pc = "flush" /\ run'.after \in {"batch", "stop"}
                        /\ s = Stages[run'.stage]
                        /\ \A n \in 1..7, b \in Nat \ {0} :
                              n = run'.stage /\ b = run'.batch
                                 => k \in BatchKeys(n, b)'
      BY DEF OneBatchInv, Done
    <3>1. mem[s][k] # Absent /\ disk[s][k].v # mem[s][k].v
      BY <2>1
    <3>2. /\ run.pc = "flush" /\ run.after \in {"batch", "stop"}
          /\ s = Stages[run.stage]
          /\ \A n \in 1..7, b \in Nat \ {0} :
                n = run.stage /\ b = run.batch => k \in BatchKeys(n, b)
      BY <3>1 DEF OneBatchInv, Done
    <3>3. QED
      BY <2>2, <2>3, <3>2
<1>6. CASE FlushDone
  <2>1. disk = mem /\ UNCHANGED <<mem, disk>>
    BY <1>6, FlushDoneCases, AllSaved
  <2>2. QED
    BY <2>1 DEF OneBatchInv
<1>7. CASE QueueRow \/ QueueDone
  <2>1. run.pc = "queue" /\ UNCHANGED <<mem, disk>>
    BY <1>7 DEF QueueRow, QueueDone
  <2>2. QED
    BY <2>1 DEF OneBatchInv, Done
<1>8. CASE RunStops \/ RunWrites \/ RunKilled
  <2>1. mem' = Empty
    BY <1>8 DEF RunStops, RunWrites, RunKilled, RunEnds
  <2>2. QED
    BY <2>1, EntryTypes DEF OneBatchInv, Done
<1>9. CASE UNCHANGED runVars
  <2>1. UNCHANGED <<disk, mem, run>>
    BY <1>9 DEF runVars
  <2>2. \A n \in 1..7, b \in Nat \ {0} : BatchKeys(n, b)' = BatchKeys(n, b)
    <3>1. \A m \in 1..7 : mem'[Stages[m]] = mem[Stages[m]]
      BY <2>1
    <3>2. QED
      BY <3>1, ItemsStand
  <2>3. QED
    BY <2>1, <2>2 DEF OneBatchInv, Done
<1>10. QED
  BY <1>1, <1>2, <1>3, <1>4, <1>5, <1>6, <1>7, <1>8, <1>9
     DEF PipelineNext, RunStep

(* A kill costs the calls of one batch, for any batch width and sample:    *)
(* the files are written after every batch (_flush in each stage's loop),  *)
(* and before the run exits at a limit.                                    *)
THEOREM KillCostsOneBatch == Spec => []UnsavedIsOneBatch
<1>1. Init => OneBatchInv
  <2> SUFFICES ASSUME Init PROVE OneBatchInv
    OBVIOUS
  <2>1. mem = Empty
    BY DEF Init, RunInit
  <2>2. QED
    BY <2>1, EntryTypes DEF OneBatchInv, Done
<1>2. PipeTypes /\ PipeTypes' /\ OneBatchInv /\ [Next]_vars => OneBatchInv'
  BY PipelineSteps, OneBatchStep
<1>3. PipeTypes /\ OneBatchInv => UnsavedIsOneBatch
  <2> SUFFICES ASSUME PipeTypes, OneBatchInv PROVE UnsavedIsOneBatch
    OBVIOUS
  <2>1. run.stage \in 1..7 /\ run.batch \in Nat \ {0}
    BY DEF PipeTypes, RunRecord
  <2>2. QED
    BY <2>1 DEF OneBatchInv, UnsavedIsOneBatch
<1>4. QED
  BY <1>1, <1>2, <1>3, PipeAlways, PTL DEF Spec

-----------------------------------------------------------------------------
(* The human queue                                                         *)

(* The run is past its stages.                                             *)
Closing == run.pc = "queue" \/ (run.pc = "flush" /\ run.after = "write")

(* A row is queued at most once: by the run that enriched it, past its     *)
(* stages, and no longer pending then.                                     *)
OnceInv ==
    /\ IsInjective(queue)
    /\ \A i \in DOMAIN queue :
          /\ queue[i][2] <= attempt
          /\ run.pc # "off" /\ queue[i][2] = attempt
                => Closing /\ queue[i][1] \notin pending
    /\ run.pc = "flush" /\ run.after = "write" => pending = {}

(* Vetoed results of runs that reached their end are queued.               *)
Queued(states) ==
    \A k \in Vetoed :
        LET v == states["enrich"][k].v
        IN  v \in 1..MaxAttempts /\ ends[v] = "done"
               => Contains(queue, <<k, v>>)

(* ... and those of the run in progress are, or are pending.               *)
QueuedInv ==
    /\ Queued(disk) /\ Queued(mem)
    /\ run.pc # "off" =>
          \A k \in Vetoed :
              mem["enrich"][k].v = attempt
                 => k \in pending \/ Contains(queue, <<k, attempt>>)

(* What one more row does to the queue.                                    *)
LEMMA QueueGrows ==
    ASSUME PipeTypes, NEW k \in Keys, NEW v \in 1..MaxAttempts,
           queue' = Append(queue, <<k, v>>)
    PROVE  /\ Len(queue) \in Nat /\ DOMAIN queue = 1..Len(queue)
           /\ DOMAIN queue' = 1..(Len(queue) + 1)
           /\ queue'[Len(queue) + 1] = <<k, v>>
           /\ \A i \in 1..Len(queue) : queue'[i] = queue[i]
           /\ Contains(queue', <<k, v>>)
           /\ \A e : Contains(queue, e) => Contains(queue', e)
<1> DEFINE size == Len(queue)
<1>1. /\ queue \in Seq(Keys \X (1..MaxAttempts))
      /\ <<k, v>> \in Keys \X (1..MaxAttempts)
  BY DEF PipeTypes
<1>2. size \in Nat /\ DOMAIN queue = 1..size
  BY <1>1, LenProperties
<1>3. /\ queue' \in Seq(Keys \X (1..MaxAttempts)) /\ Len(queue') = size + 1
      /\ \A i \in 1..size : queue'[i] = queue[i]
      /\ queue'[size + 1] = <<k, v>>
  BY <1>1, AppendProperties
<1>4. DOMAIN queue' = 1..(size + 1)
  BY <1>3, LenProperties
<1>5. 1..size \subseteq 1..(size + 1) /\ size + 1 \in 1..(size + 1)
  BY <1>2
<1> HIDE DEF size
<1>6. Contains(queue', <<k, v>>)
  BY <1>3, <1>5 DEF Contains
<1>7. \A e : Contains(queue, e) => Contains(queue', e)
  <2> SUFFICES ASSUME NEW e, Contains(queue, e) PROVE Contains(queue', e)
    OBVIOUS
  <2>1. PICK i \in 1..size : queue[i] = e
    BY DEF Contains, size
  <2>2. queue'[i] = e /\ i \in 1..(size + 1)
    BY <1>3, <1>5, <2>1
  <2>3. QED
    BY <1>3, <2>2 DEF Contains
<1>8. QED
  BY <1>2, <1>3, <1>4, <1>6, <1>7 DEF size

(* Queued rows are keys with the run that enriched them.                    *)
LEMMA QueueEntries ==
    ASSUME PipeTypes
    PROVE  \A i \in DOMAIN queue :
              /\ queue[i] \in Keys \X (1..MaxAttempts)
              /\ queue[i][1] \in Keys /\ queue[i][2] \in Nat
              /\ queue[i] = <<queue[i][1], queue[i][2]>>
<1>1. \A i \in DOMAIN queue : queue[i] \in Keys \X (1..MaxAttempts)
  BY ElementOfSeq DEF PipeTypes
<1>2. QED
  BY <1>1

(* Every step keeps the queue free of duplicates.                           *)
LEMMA OnceStep ==
    ASSUME PipeTypes, PipeTypes', OnceInv, PipelineNext
    PROVE  OnceInv'
<1>1. attempt \in Nat
  BY EntryTypes DEF PipeTypes
<1>2. CASE \E resume \in BOOLEAN, selected \in SUBSET StageIds,
              rekey \in SUBSET Keys : Start(resume, selected, rekey)
  <2>1. PICK resume \in BOOLEAN, selected \in SUBSET StageIds,
             rekey \in SUBSET Keys : Start(resume, selected, rekey)
    BY <1>2
  <2>2. /\ UNCHANGED queue /\ attempt' = attempt + 1
        /\ run' = [NoRunYet EXCEPT !.pc = "work", !.selected = selected]
    BY <2>1, Loads
  <2>3. run'.pc = "work"
    BY <2>2 DEF NoRunYet
  <2>4. \A i \in DOMAIN queue :
           queue[i][2] <= attempt' /\ queue[i][2] # attempt'
    BY <1>1, <2>2, QueueEntries DEF OnceInv
  <2>5. QED
    BY <2>2, <2>3, <2>4 DEF OnceInv
<1>3. CASE Work \/ Stop \/ StageEnds
  <2>1. run.pc = "work" /\ UNCHANGED <<queue, attempt>>
    BY <1>3 DEF Work, Stop, StageEnds
  <2>2. \/ run'.pc \in {"work", "queue"}
        \/ run'.pc = "flush" /\ run'.after \in {"batch", "stop", "stage"}
    <3>1. \A a \in {"batch", "stop", "stage"} :
             run' = Save(a) => run'.pc = "flush" /\ run'.after = a
      BY DEF Save, PipeTypes, RunRecord
    <3>2. CASE Work \/ Stop
      BY <3>1, <3>2 DEF Work, Stop
    <3>3. CASE StageEnds
      BY <2>1, <3>1, <3>3, StageEndsCases DEF PipeTypes, RunRecord
    <3>4. QED
      BY <1>3, <3>2, <3>3
  <2>3. \A i \in DOMAIN queue : queue[i][2] <= attempt /\ queue[i][2] # attempt
    BY <2>1 DEF OnceInv, Closing
  <2>4. QED
    BY <2>1, <2>2, <2>3 DEF OnceInv
<1>4. CASE FlushFile
  <2>1. /\ UNCHANGED <<queue, attempt, pending>>
        /\ run' = [run EXCEPT !.wrote = TRUE]
    BY <1>4, OneSaved
  <2>2. run'.pc = run.pc /\ run'.after = run.after
    BY <2>1 DEF PipeTypes, RunRecord
  <2>3. QED
    BY <2>1, <2>2 DEF OnceInv, Closing
<1>5. CASE FlushDone
  <2>1. /\ UNCHANGED <<queue, attempt>>
        /\ run.pc = "flush" /\ run.after # "write"
        /\ run'.pc = "work"
    BY <1>5, FlushDoneCases DEF PipeTypes, RunRecord
  <2>2. \A i \in DOMAIN queue : queue[i][2] <= attempt /\ queue[i][2] # attempt
    BY <2>1 DEF OnceInv, Closing
  <2>3. QED
    BY <2>1, <2>2 DEF OnceInv
<1>6. CASE QueueRow
  <2>1. PICK k \in pending :
           /\ queue' = Append(queue, <<k, mem["enrich"][k].v>>)
           /\ pending' = pending \ {k}
    BY <1>6 DEF QueueRow
  <2>2. run.pc = "queue" /\ UNCHANGED <<run, attempt>>
    BY <1>6 DEF QueueRow
  <2>3. /\ mem["enrich"][k].v = attempt /\ k \in Keys
        /\ attempt \in 1..MaxAttempts
    BY <2>1, <2>2 DEF PipeTypes
  <2> DEFINE size == Len(queue)
  <2>4. /\ size \in Nat /\ DOMAIN queue = 1..size
        /\ DOMAIN queue' = 1..(size + 1)
        /\ queue'[size + 1] = <<k, attempt>>
        /\ \A i \in 1..size : queue'[i] = queue[i]
    BY <2>1, <2>3, QueueGrows
  <2> HIDE DEF size
  <2>5. \A i \in 1..size : queue[i] # <<k, attempt>>
    BY <2>1, <2>2, <2>4, QueueEntries DEF OnceInv
  <2>6. \A i \in 1..(size + 1) : i \in 1..size \/ i = size + 1
    BY <2>4
  <2>7. IsInjective(queue')
    <3>1. \A i, j \in 1..size : queue[i] = queue[j] => i = j
      BY <2>4 DEF OnceInv, IsInjective
    <3>2. QED
      BY <2>4, <2>5, <2>6, <3>1 DEF IsInjective
  <2>8. \A i \in DOMAIN queue' :
           /\ queue'[i][2] <= attempt
           /\ queue'[i][2] = attempt => queue'[i][1] \notin pending'
    <3> SUFFICES ASSUME NEW i \in 1..(size + 1)
                 PROVE  /\ queue'[i][2] <= attempt
                        /\ queue'[i][2] = attempt
                              => queue'[i][1] \notin pending'
      BY <2>4
    <3>1. CASE i = size + 1
      BY <1>1, <2>1, <2>4, <3>1
    <3>2. CASE i \in 1..size
      BY <2>1, <2>2, <2>4, <3>2 DEF OnceInv
    <3>3. QED
      BY <2>6, <3>1, <3>2
  <2>9. QED
    BY <2>2, <2>7, <2>8 DEF OnceInv, Closing
<1>7. CASE QueueDone
  <2>1. /\ run.pc = "queue" /\ pending = {} /\ run' = Save("write")
        /\ UNCHANGED <<queue, attempt, pending>>
    BY <1>7 DEF QueueDone
  <2>2. run'.pc = "flush" /\ run'.after = "write"
    BY <2>1 DEF Save, PipeTypes, RunRecord
  <2>3. QED
    BY <2>1, <2>2 DEF OnceInv, Closing
<1>8. CASE RunStops \/ RunWrites \/ RunKilled
  <2>1. UNCHANGED <<queue, attempt>> /\ run' = NoRunYet
    BY <1>8 DEF RunStops, RunWrites, RunKilled, RunEnds
  <2>2. run'.pc = "off"
    BY <2>1 DEF NoRunYet
  <2>3. QED
    BY <2>1, <2>2 DEF OnceInv
<1>9. CASE UNCHANGED runVars
  BY <1>9 DEF runVars, OnceInv, Closing
<1>10. QED
  BY <1>2, <1>3, <1>4, <1>5, <1>6, <1>7, <1>8, <1>9
     DEF PipelineNext, RunStep

(* Results that are not of the run in progress, and still there.           *)
LEMMA QueuedStays ==
    ASSUME Queued(mem), UNCHANGED <<queue, ends>>,
           \A k \in Vetoed : \/ mem'["enrich"][k].v = mem["enrich"][k].v
                             \/ /\ mem'["enrich"][k].v \in 1..MaxAttempts
                                /\ ends[mem'["enrich"][k].v] # "done"
    PROVE  Queued(mem)'
<1> SUFFICES ASSUME NEW k \in Vetoed, mem'["enrich"][k].v \in 1..MaxAttempts,
                    ends'[mem'["enrich"][k].v] = "done"
             PROVE  Contains(queue', <<k, mem'["enrich"][k].v>>)
  BY DEF Queued
<1>1. mem'["enrich"][k].v = mem["enrich"][k].v
  OBVIOUS
<1>2. QED
  BY <1>1 DEF Queued

(* Work of the run in progress: vetoed results it makes are pending.        *)
LEMMA QueuedWork ==
    ASSUME PipeTypes, QueuedInv, Work \/ Stop \/ StageEnds
    PROVE  QueuedInv'
<1>1. /\ run.pc = "work" /\ UNCHANGED <<disk, queue, attempt, ends>>
      /\ pending \subseteq pending'
      /\ attempt \in 1..MaxAttempts /\ ends[attempt] = "none"
  BY DEF Work, Stop, StageEnds, PipeTypes
<1>2. Queued(disk)'
  BY <1>1 DEF QueuedInv, Queued
<1>3. \A k \in Vetoed :
         \/ mem'["enrich"][k].v = mem["enrich"][k].v
         \/ mem'["enrich"][k].v = attempt /\ k \in pending'
  <2> SUFFICES ASSUME NEW k \in Vetoed
               PROVE  \/ mem'["enrich"][k].v = mem["enrich"][k].v
                      \/ mem'["enrich"][k].v = attempt /\ k \in pending'
    OBVIOUS
  <2>1. k \in Keys /\ "enrich" \in StageIds
    BY PrecardAssumption, StageSet
  <2>2. CASE Work
    <3>1. Extends(Stages[run.stage], Todo)
      BY <2>2, WorkExtends
    <3>2. CASE k \in Todo /\ Stages[run.stage] = "enrich"
      <4>1. mem'["enrich"][k].v = attempt
        BY <3>1, <3>2 DEF Extends
      <4>2. k \in pending'
        BY <2>2, <3>2 DEF Work
      <4>3. QED
        BY <4>1, <4>2
    <3>3. CASE ~(k \in Todo /\ Stages[run.stage] = "enrich")
      <4>1. mem'["enrich"][k] = mem["enrich"][k]
        BY <2>1, <3>1, <3>3 DEF Extends
      <4>2. QED
        BY <4>1
    <3>4. QED
      BY <3>2, <3>3
  <2>3. CASE Stop
    <3>1. PICK done \in SUBSET Todo :
             /\ Extends(Stages[run.stage], done)
             /\ Stages[run.stage] = "enrich" => done = {}
      BY <2>3, StopExtends
    <3>2. mem'["enrich"][k] = mem["enrich"][k]
      BY <2>1, <3>1 DEF Extends
    <3>3. QED
      BY <3>2
  <2>4. CASE StageEnds
    <3>1. Routes
      BY <2>4, StageEndsCases
    <3>2. mem'["enrich"] = mem["enrich"]
      BY <2>1, <3>1 DEF Routes
    <3>3. QED
      BY <3>2
  <2>5. QED
    BY <2>2, <2>3, <2>4
<1>4. Queued(mem)'
  BY <1>1, <1>3, QueuedStays DEF QueuedInv
<1>5. \A k \in Vetoed :
         mem'["enrich"][k].v = attempt
            => k \in pending' \/ Contains(queue, <<k, attempt>>)
  BY <1>1, <1>3 DEF QueuedInv
<1>6. QED
  BY <1>1, <1>2, <1>4, <1>5 DEF QueuedInv

(* A run that ends: what it enriched counts only if it is done.            *)
LEMMA QueuedEnds ==
    ASSUME PipeTypes, QueuedInv, run.pc # "off", UNCHANGED disk,
           NEW how \in {"done", "stopped", "killed", "torn"}, RunEnds(how),
           how = "done" => disk = mem /\ pending = {}
    PROVE  QueuedInv'
<1>1. /\ UNCHANGED <<attempt, queue, disk>> /\ attempt \in 1..MaxAttempts
      /\ ends' = [ends EXCEPT ![attempt] = how] /\ mem' = Empty
      /\ run'.pc = "off"
  BY DEF RunEnds, PipeTypes, NoRunYet
<1>2. \A v \in 1..MaxAttempts :
         /\ v # attempt => ends'[v] = ends[v]
         /\ v = attempt => ends'[v] = how
  BY <1>1 DEF PipeTypes
<1>3. "enrich" \in StageIds /\ Vetoed \subseteq Keys
  BY StageSet, PrecardAssumption
<1>4. Queued(disk)'
  <2> SUFFICES ASSUME NEW k \in Vetoed, disk["enrich"][k].v \in 1..MaxAttempts,
                      ends'[disk["enrich"][k].v] = "done"
               PROVE  Contains(queue, <<k, disk["enrich"][k].v>>)
    BY <1>1 DEF Queued
  <2>1. CASE disk["enrich"][k].v # attempt
    BY <1>2, <2>1 DEF QueuedInv, Queued
  <2>2. CASE disk["enrich"][k].v = attempt
    <3>1. disk = mem /\ pending = {}
      BY <1>1, <1>2, <2>2
    <3>2. mem["enrich"][k].v = attempt
      BY <2>2, <3>1
    <3>3. Contains(queue, <<k, attempt>>)
      BY <3>1, <3>2 DEF QueuedInv
    <3>4. QED
      BY <2>2, <3>3
  <2>3. QED
    BY <2>1, <2>2
<1>5. Queued(mem)'
  <2>1. \A k \in Vetoed : mem'["enrich"][k] = Absent
    BY <1>1, <1>3, EntryTypes
  <2>2. Absent.v \notin 1..MaxAttempts
    BY DEF Absent
  <2>3. QED
    BY <2>1, <2>2 DEF Queued
<1>6. QED
  BY <1>1, <1>4, <1>5 DEF QueuedInv

(* Every step keeps vetoed results queued or pending.                       *)
LEMMA QueuedStep ==
    ASSUME PipeTypes, OnceInv, QueuedInv, PipelineNext
    PROVE  QueuedInv'
<1>1. "enrich" \in StageIds /\ Vetoed \subseteq Keys
  BY StageSet, PrecardAssumption
<1>2. CASE \E resume \in BOOLEAN, selected \in SUBSET StageIds,
              rekey \in SUBSET Keys : Start(resume, selected, rekey)
  <2>1. PICK resume \in BOOLEAN, selected \in SUBSET StageIds,
             rekey \in SUBSET Keys : Start(resume, selected, rekey)
    BY <1>2
  <2>2. UNCHANGED <<disk, queue, ends, pending>> /\ attempt' = attempt + 1
    BY <2>1, Loads
  <2>3. \A s \in StageIds, k \in Keys :
           mem'[s][k] = Absent \/ mem'[s][k] = disk[s][k]
    BY <2>1, Loads
  <2>4. Queued(disk)'
    BY <2>2 DEF QueuedInv, Queued
  <2>5. Queued(mem)'
    <3>1. \A k \in Vetoed : \/ mem'["enrich"][k].v \notin 1..MaxAttempts
                            \/ mem'["enrich"][k].v = disk["enrich"][k].v
      BY <1>1, <2>3 DEF Absent
    <3>2. QED
      BY <2>2, <3>1 DEF QueuedInv, Queued
  <2>6. \A k \in Vetoed : mem'["enrich"][k].v # attempt'
    <3> SUFFICES ASSUME NEW k \in Vetoed PROVE mem'["enrich"][k].v # attempt'
      OBVIOUS
    <3>1. attempt \in Nat
      BY EntryTypes DEF PipeTypes
    <3>2. mem'["enrich"][k] = Absent \/ mem'["enrich"][k] = disk["enrich"][k]
      BY <1>1, <2>3
    <3>3. disk["enrich"][k].v \in Nat /\ disk["enrich"][k].v <= attempt
      <4>1. disk["enrich"][k] \in Entry
        BY <1>1 DEF PipeTypes, Store
      <4>2. QED
        BY <1>1, <4>1, EntryTypes DEF PipeTypes, Dated
    <3>4. CASE mem'["enrich"][k] = Absent
      BY <2>2, <3>1, <3>4 DEF Absent
    <3>5. CASE mem'["enrich"][k] = disk["enrich"][k]
      BY <2>2, <3>1, <3>3, <3>5
    <3>6. QED
      BY <3>2, <3>4, <3>5
  <2>7. QED
    BY <2>4, <2>5, <2>6 DEF QueuedInv
<1>3. CASE Work \/ Stop \/ StageEnds
  BY <1>3, QueuedWork
<1>4. CASE FlushFile
  <2>1. /\ UNCHANGED <<mem, queue, attempt, pending, ends>>
        /\ \A t \in StageIds : disk'[t] = disk[t] \/ disk'[t] = mem[t]
        /\ run.pc # "off"
    BY <1>4, OneSaved
  <2>2. disk'["enrich"] = disk["enrich"] \/ disk'["enrich"] = mem["enrich"]
    BY <1>1, <2>1
  <2>3. Queued(disk)' /\ Queued(mem)'
    BY <2>1, <2>2 DEF QueuedInv, Queued
  <2>4. QED
    BY <2>1, <2>3 DEF QueuedInv
<1>5. CASE FlushDone \/ QueueDone
  <2>1. /\ UNCHANGED <<disk, mem, queue, attempt, pending, ends>>
        /\ run.pc # "off"
    BY <1>5 DEF FlushDone, QueueDone
  <2>2. Queued(disk)' /\ Queued(mem)'
    BY <2>1 DEF QueuedInv, Queued
  <2>3. QED
    BY <2>1, <2>2 DEF QueuedInv
<1>6. CASE QueueRow
  <2>1. PICK k \in pending :
           /\ queue' = Append(queue, <<k, mem["enrich"][k].v>>)
           /\ pending' = pending \ {k}
    BY <1>6 DEF QueueRow
  <2>2. run.pc = "queue" /\ UNCHANGED <<disk, mem, attempt, ends>>
    BY <1>6 DEF QueueRow
  <2>3. /\ mem["enrich"][k].v = attempt /\ k \in Keys
        /\ attempt \in 1..MaxAttempts
    BY <2>1, <2>2 DEF PipeTypes
  <2>4. /\ Contains(queue', <<k, attempt>>)
        /\ \A e : Contains(queue, e) => Contains(queue', e)
    BY <2>1, <2>3, QueueGrows
  <2>5. Queued(disk)' /\ Queued(mem)'
    BY <2>2, <2>4 DEF QueuedInv, Queued
  <2>6. \A c \in Vetoed : mem["enrich"][c].v = attempt
           => c \in pending' \/ Contains(queue', <<c, attempt>>)
    BY <2>1, <2>2, <2>4 DEF QueuedInv
  <2>7. QED
    BY <2>2, <2>5, <2>6 DEF QueuedInv
<1>7. CASE RunStops
  <2>1. run.pc # "off" /\ UNCHANGED disk /\ RunEnds("stopped")
    BY <1>7 DEF RunStops
  <2>2. QED
    BY <2>1, QueuedEnds
<1>8. CASE RunWrites
  <2>1. run.pc # "off" /\ UNCHANGED disk /\ RunEnds("done") /\ Unsaved = {}
    BY <1>8 DEF RunWrites
  <2>2. disk = mem /\ pending = {}
    BY <1>8, <2>1, AllSaved DEF OnceInv, RunWrites
  <2>3. QED
    BY <2>1, <2>2, QueuedEnds
<1>9. CASE RunKilled
  <2>1. /\ run.pc # "off" /\ UNCHANGED disk
        /\ RunEnds("torn") \/ RunEnds("killed")
    BY <1>9 DEF RunKilled
  <2>2. QED
    BY <2>1, QueuedEnds
<1>10. CASE UNCHANGED runVars
  <2>1. UNCHANGED <<disk, mem, run, queue, attempt, pending, ends>>
    BY <1>10 DEF runVars
  <2>2. Queued(disk)' /\ Queued(mem)'
    BY <2>1 DEF QueuedInv, Queued
  <2>3. QED
    BY <2>1, <2>2 DEF QueuedInv
<1>11. QED
  BY <1>2, <1>3, <1>4, <1>5, <1>6, <1>7, <1>8, <1>9, <1>10
     DEF PipelineNext, RunStep

(* Vetoed rows reach the operator, and once, for any number of runs over   *)
(* the files: a run queues what it has enriched itself (hq_pending), after *)
(* its last stage, and one that reaches its end leaves nothing out.        *)
THEOREM VetoedRowsAreQueued == Spec => []VetoesQueued
<1>1. Init => OnceInv /\ QueuedInv
  <2> SUFFICES ASSUME Init PROVE OnceInv /\ QueuedInv
    OBVIOUS
  <2>1. /\ disk = Empty /\ mem = Empty /\ queue = <<>> /\ run.pc = "off"
    BY DEF Init, RunInit, NoRunYet
  <2>2. OnceInv
    <3>1. DOMAIN queue = {}
      BY <2>1
    <3>2. QED
      BY <2>1, <3>1 DEF OnceInv, IsInjective
  <2>3. \A k \in Vetoed :
           mem["enrich"][k] = Absent /\ disk["enrich"][k] = Absent
    BY <2>1, StageSet, PrecardAssumption, EntryTypes
  <2>4. Absent.v \notin 1..MaxAttempts
    BY DEF Absent
  <2>5. Queued(disk) /\ Queued(mem)
    BY <2>3, <2>4 DEF Queued
  <2>6. QED
    BY <2>1, <2>2, <2>5 DEF QueuedInv
<1>2. PipeTypes /\ PipeTypes' /\ OnceInv /\ QueuedInv /\ [Next]_vars
         => OnceInv' /\ QueuedInv'
  BY PipelineSteps, OnceStep, QueuedStep
<1>3. PipeTypes /\ OnceInv /\ QueuedInv => VetoesQueued
  <2> SUFFICES ASSUME PipeTypes, OnceInv, QueuedInv PROVE VetoesQueued
    OBVIOUS
  <2>1. \A k \in Vetoed : disk["enrich"][k].v \in 0..MaxAttempts
    <3>1. \A k \in Vetoed : disk["enrich"][k] \in Entry
      BY StageSet, PrecardAssumption DEF PipeTypes, Store
    <3>2. QED
      BY <3>1, EntryTypes
  <2>2. \A v \in 0..MaxAttempts : v # 0 => v \in 1..MaxAttempts
    BY EntryTypes
  <2>3. QED
    BY <2>1, <2>2 DEF OnceInv, QueuedInv, Queued, VetoesQueued
<1>4. QED
  BY <1>1, <1>2, <1>3, PipeAlways, PTL DEF Spec

-----------------------------------------------------------------------------
(* No gap in the rows                                                      *)

(* More than the number of batches leaves no item out: the quotient is     *)
(* rounded up.                                                             *)
LEMMA DivBound ==
    ASSUME NEW C \in Nat, NEW W \in Nat \ {0}, NEW b \in Nat \ {0},
           b > (C + W - 1) \div W
    PROVE  C <= (b - 1) * W
<1> DEFINE x == C + W - 1
           q == x \div W
<1>1. x \in Nat /\ q \in Int
  OBVIOUS
<1>2. x < W * q + W
  OBVIOUS
<1>3. q <= b - 1
  OBVIOUS
<1> HIDE DEF q
<1>4. W * q <= W * (b - 1)
  BY <1>1, <1>3
<1>5. W * q \in Int /\ W * (b - 1) \in Int /\ (b - 1) * W = W * (b - 1)
  BY <1>1
<1> DEFINE p == W * (b - 1)
           r == W * q
<1> HIDE DEF p, r
<1>6. x < r + W /\ r <= p /\ r \in Int /\ p \in Int /\ p = (b - 1) * W
  BY <1>2, <1>4, <1>5 DEF p, r
<1>7. QED
  BY <1>6

(* Items are ranked from one to their number.                              *)
LEMMA PlacesRanked ==
    ASSUME NEW S \in SUBSET DOMAIN Sample, NEW i \in S
    PROVE  /\ Cardinality({j \in S : j <= i}) \in Nat /\ Cardinality(S) \in Nat
           /\ Cardinality({j \in S : j <= i}) >= 1
           /\ Cardinality({j \in S : j <= i}) <= Cardinality(S)
<1> DEFINE before == {j \in S : j <= i}
<1>1. DOMAIN Sample = 1..Len(Sample) /\ Len(Sample) \in Nat
  BY PrecardAssumption, LenProperties
<1>2. IsFiniteSet(S) /\ i \in Nat
  <2>1. IsFiniteSet(1..Len(Sample))
    BY <1>1, FS_Interval
  <2>2. QED
    BY <1>1, <2>1, FS_Subset
<1>3. before \in SUBSET S /\ i \in before
  BY <1>2
<1> HIDE DEF before
<1>4. IsFiniteSet(before) /\ Cardinality(before) <= Cardinality(S)
  BY <1>2, <1>3, FS_Subset
<1>5. Cardinality(before) \in Nat /\ Cardinality(S) \in Nat
  BY <1>2, <1>4, FS_CardinalityType
<1>6. Cardinality(before) # 0
  BY <1>3, <1>4, FS_EmptySet
<1>7. Cardinality(before) >= 1
  BY <1>5, <1>6
<1>8. QED
  BY <1>4, <1>5, <1>7 DEF before

(* ... at each stage.                                                       *)
LEMMA RankBounds ==
    ASSUME NEW n, NEW i \in Items(n)
    PROVE  /\ Rank(n, i) \in Nat /\ Cardinality(Items(n)) \in Nat
           /\ Rank(n, i) >= 1 /\ Rank(n, i) <= Cardinality(Items(n))
<1>1. Items(n) \in SUBSET DOMAIN Sample
  BY DEF Items
<1>2. QED
  BY <1>1, PlacesRanked DEF Rank

(* All items of the stage have a result; those of its first c batches.     *)
Filled(n) == \A k \in KeysOf(n) : Done(Stages[n], k)
FilledTo(n, c) ==
    \A i \in Items(n) : Rank(n, i) <= c * Width => Done(Stages[n], Key(n, i))

(* The stages that the run is past, and the batches of the one it is at.   *)
Passed(n) == \/ n < run.stage
             \/ Closing
             \/ run.pc = "flush" /\ run.after = "stage" /\ n = 4
Batched(n, c) == \/ run.pc = "work" /\ n = run.stage /\ c = run.batch - 1
                 \/ /\ run.pc = "flush" /\ run.after = "batch"
                    /\ n = run.stage /\ c = run.batch

(* In a run of all stages, what it is past is filled.                      *)
FilledInv ==
    run.pc # "off" /\ run.selected = StageIds =>
        /\ \A n \in 1..7 : Passed(n) => Filled(n)
        /\ \A n \in 1..7, c \in Nat : Batched(n, c) => FilledTo(n, c)

(* Results made or routed at a stage leave the stages up to it filled.     *)
LEMMA FilledStays ==
    ASSUME PipeTypes, NEW n \in 1..7,
           \A m \in 1..7 : m < n => mem'[Stages[m]] = mem[Stages[m]],
           \A k \in Keys : Done(Stages[n], k) => Done(Stages[n], k)'
    PROVE  /\ Filled(n) => Filled(n)'
           /\ \A c : FilledTo(n, c) => FilledTo(n, c)'
<1>1. /\ Items(n)' = Items(n) /\ KeysOf(n)' = KeysOf(n)
      /\ \A i : Key(n, i)' = Key(n, i)
      /\ \A i : Rank(n, i)' = Rank(n, i)
  BY ItemsStand
<1>2. KeysOf(n) \subseteq Keys /\ \A i \in Items(n) : Key(n, i) \in Keys
  BY KeyTypes DEF Items
<1>3. Filled(n) => Filled(n)'
  BY <1>1, <1>2 DEF Filled
<1>4. \A c : FilledTo(n, c) => FilledTo(n, c)'
  BY <1>1, <1>2 DEF FilledTo
<1>5. QED
  BY <1>3, <1>4

(* A step that leaves memory alone, or works on stage n only.              *)
OnlyAt(n) ==
    /\ \A m \in 1..7 : m < n => mem'[Stages[m]] = mem[Stages[m]]
    /\ \A s \in StageIds, k \in Keys : Done(s, k) => Done(s, k)'

(* Such a step leaves the stages up to n filled.                            *)
LEMMA FilledBelow ==
    ASSUME PipeTypes, NEW n \in 1..7, OnlyAt(n), NEW m \in 1..7, m <= n
    PROVE  /\ Filled(m) => Filled(m)'
           /\ \A c : FilledTo(m, c) => FilledTo(m, c)'
<1>1. \A j \in 1..7 : j < m => mem'[Stages[j]] = mem[Stages[j]]
  BY DEF OnlyAt
<1>2. \A k \in Keys : Done(Stages[m], k) => Done(Stages[m], k)'
  BY StageIdOf DEF OnlyAt
<1>3. QED
  BY <1>1, <1>2, FilledStays

(* Work, a stop and the end of a stage are such steps.                      *)
LEMMA OnlyAtStage ==
    ASSUME PipeTypes, NEW n \in 1..7,
           \/ \E done : Extends(Stages[n], done)
           \/ Routes /\ n = 4
           \/ mem' = mem
    PROVE  OnlyAt(n)
<1>1. \A m \in 1..7 : m < n => Stages[m] \in StageIds /\ Stages[m] # Stages[n]
  BY StageIdOf, StagesDiffer
<1>2. CASE mem' = mem
  BY <1>2 DEF OnlyAt, Done
<1>3. CASE Routes /\ n = 4
  <2>1. \A m \in 1..7 : m < n => mem'[Stages[m]] = mem[Stages[m]]
    BY <1>1, <1>3, StageNames DEF Routes
  <2>2. \A s \in StageIds, k \in Keys : Done(s, k) => Done(s, k)'
    BY <1>3 DEF Routes, Done
  <2>3. QED
    BY <2>1, <2>2 DEF OnlyAt
<1>4. ASSUME NEW done, Extends(Stages[n], done)
      PROVE  OnlyAt(n)
  <2>1. \A m \in 1..7 : m < n => mem'[Stages[m]] = mem[Stages[m]]
    BY <1>1, <1>4 DEF Extends
  <2>2. \A s \in StageIds, k \in Keys : Done(s, k) => Done(s, k)'
    BY <1>4 DEF Extends, Done
  <2>3. QED
    BY <2>1, <2>2 DEF OnlyAt
<1>5. QED
  BY <1>2, <1>3, <1>4

(* No item has rank zero, before a step and after it.                      *)
LEMMA NoneYet ==
    ASSUME NEW n
    PROVE  FilledTo(n, 0) /\ FilledTo(n, 0)'
<1>1. 0 * Width = 0
  BY PrecardAssumption
<1>2. Items(n) \in SUBSET DOMAIN Sample /\ Items(n)' \in SUBSET DOMAIN Sample
  BY DEF Items
<1>3. \A i \in Items(n) : ~(Rank(n, i) <= 0)
  BY <1>2, PlacesRanked DEF Rank
<1>4. \A i \in Items(n)' : ~(Rank(n, i)' <= 0)
  BY <1>2, PlacesRanked DEF Rank
<1>5. FilledTo(n, 0)
  BY <1>1, <1>3 DEF FilledTo
<1>6. FilledTo(n, 0)'
  BY <1>1, <1>4 DEF FilledTo
<1>7. QED
  BY <1>5, <1>6

(* No item is past the last batch.                                         *)
LEMMA AllBatches ==
    ASSUME PipeTypes, NEW n \in 1..7, n = run.stage, run.selected = StageIds,
           run.batch > Batches, FilledTo(n, run.batch - 1)
    PROVE  Filled(n)
<1> DEFINE size == Cardinality(Items(n))
           b == run.batch
<1>1. b \in Nat \ {0} /\ Width \in Nat \ {0}
  BY PrecardAssumption DEF PipeTypes, RunRecord
<1>2. Batches = (size + Width - 1) \div Width
  BY StageIdOf DEF Batches
<1> SUFFICES ASSUME NEW i \in Items(n) PROVE Done(Stages[n], Key(n, i))
  BY DEF Filled, KeysOf
<1>3. Rank(n, i) \in Nat /\ size \in Nat /\ Rank(n, i) <= size
  BY RankBounds
<1>4. b > (size + Width - 1) \div Width
  BY <1>2
<1>5. FilledTo(n, b - 1)
  OBVIOUS
<1> HIDE DEF size, b
<1>6. size <= (b - 1) * Width
  BY <1>1, <1>3, <1>4, DivBound
<1>7. (b - 1) * Width \in Int
  BY <1>1
<1>8. Rank(n, i) <= (b - 1) * Width
  BY <1>3, <1>6, <1>7
<1>9. QED
  BY <1>5, <1>8 DEF FilledTo

(* A batch is done: so are the items of its stage up to its last one.      *)
LEMMA BatchFills ==
    ASSUME PipeTypes, Work, NEW n \in 1..7, n = run.stage,
           NEW b \in Nat \ {0}, b = run.batch, FilledTo(n, b - 1)
    PROVE  FilledTo(n, b)'
<1>1. Extends(Stages[n], Todo)
  BY WorkExtends
<1>2. OnlyAt(n)
  BY <1>1, OnlyAtStage
<1>3. FilledTo(n, b - 1)'
  <2>1. n <= n
    OBVIOUS
  <2>2. QED
    BY <1>2, <2>1, FilledBelow
<1>4. /\ Items(n)' = Items(n) /\ \A i : Key(n, i)' = Key(n, i)
      /\ \A i : Rank(n, i)' = Rank(n, i)
  BY <1>2, ItemsStand DEF OnlyAt
<1> SUFFICES ASSUME NEW i \in Items(n), Rank(n, i) <= b * Width
             PROVE  Done(Stages[n], Key(n, i))'
  BY <1>4 DEF FilledTo
<1>5. CASE Rank(n, i) <= (b - 1) * Width
  BY <1>3, <1>4, <1>5 DEF FilledTo
<1>6. CASE ~(Rank(n, i) <= (b - 1) * Width)
  <2>1. Rank(n, i) \in Nat /\ (b - 1) * Width \in Int
    <3>1. Width \in Nat /\ b - 1 \in Int
      BY PrecardAssumption
    <3>2. QED
      BY <3>1, RankBounds
  <2>2. (b - 1) * Width < Rank(n, i)
    BY <1>6, <2>1
  <2>3. Key(n, i) \in BatchKeys(n, b) /\ Key(n, i) \in Keys
    BY <2>2, KeyTypes DEF BatchKeys, BatchItems, Items
  <2>4. CASE Done(Stages[n], Key(n, i))
    BY <1>2, <1>4, <2>3, <2>4, StageIdOf DEF OnlyAt, Done
  <2>5. CASE ~Done(Stages[n], Key(n, i))
    <3>1. Key(n, i) \in Todo
      BY <2>3, <2>5 DEF Todo
    <3>2. QED
      BY <1>1, <1>4, <3>1 DEF Extends, Done
  <2>6. QED
    BY <2>4, <2>5
<1>7. QED
  BY <1>5, <1>6

(* Batches and stages end: what the run is past is filled.                  *)
LEMMA FilledWork ==
    ASSUME PipeTypes, FilledInv, Work \/ Stop \/ StageEnds
    PROVE  FilledInv'
<1>1. PICK n \in 1..7 : n = run.stage
  BY DEF PipeTypes, RunRecord
<1>2. PICK b \in Nat \ {0} : b = run.batch
  BY DEF PipeTypes, RunRecord
<1>3. /\ run \in RunRecord /\ run.pc = "work"
      /\ Work \/ Stop => run.batch <= Batches
      /\ StageEnds => run.batch > Batches
  BY DEF PipeTypes, Work, Stop, StageEnds
<1> SUFFICES ASSUME run'.selected = StageIds
             PROVE  /\ \A m \in 1..7 : Passed(m)' => Filled(m)'
                    /\ \A m \in 1..7, c \in Nat :
                          Batched(m, c)' => FilledTo(m, c)'
  BY DEF FilledInv
<1>4. run' \in {Save("batch"), Save("stop"), Save("stage")}
         \/ run' = [run EXCEPT !.pc = "queue"]
         \/ run' = [run EXCEPT !.stage = run.stage + 1, !.batch = 1]
  BY StageEndsCases DEF Work, Stop
<1>5. run.selected = StageIds
  BY <1>3, <1>4 DEF Save, RunRecord
<1>6. /\ \A m \in 1..7 : m < n => Filled(m)
      /\ FilledTo(n, b - 1)
  <2>1. b - 1 \in Nat
    BY <1>2
  <2>2. QED
    BY <1>1, <1>2, <1>3, <1>5, <2>1 DEF FilledInv, Passed, Batched
<1>7. OnlyAt(n)
  <2>1. CASE Work
    BY <1>1, <2>1, WorkExtends, OnlyAtStage
  <2>2. CASE Stop
    <3>1. PICK done \in SUBSET Todo : Extends(Stages[n], done)
      BY <1>1, <2>2, StopExtends
    <3>2. QED
      BY <3>1, OnlyAtStage
  <2>3. CASE StageEnds
    <3>1. mem' = mem \/ (Routes /\ n = 4)
      BY <1>1, <2>3, StageEndsCases
    <3>2. QED
      BY <3>1, OnlyAtStage
  <2>4. QED
    BY <2>1, <2>2, <2>3
<1>8. \A m \in 1..7 : m < n => Filled(m)'
  <2> SUFFICES ASSUME NEW m \in 1..7, m < n PROVE Filled(m)'
    OBVIOUS
  <2>1. m <= n
    OBVIOUS
  <2>2. QED
    BY <1>6, <1>7, <2>1, FilledBelow
<1>9. CASE Work
  <2>1. /\ run'.pc = "flush" /\ run'.after = "batch"
        /\ run'.stage = n /\ run'.batch = b
    BY <1>1, <1>2, <1>3, <1>9 DEF Work, Save, RunRecord
  <2>2. FilledTo(n, b)'
    BY <1>1, <1>2, <1>6, <1>9, BatchFills
  <2>3. \A m \in 1..7 : Passed(m)' => m < n
    BY <2>1 DEF Passed, Closing
  <2>4. \A m \in 1..7, c \in Nat : Batched(m, c)' => m = n /\ c = b
    BY <2>1 DEF Batched
  <2>5. QED
    BY <1>8, <2>2, <2>3, <2>4
<1>10. CASE Stop
  <2>1. run'.pc = "flush" /\ run'.after = "stop" /\ run'.stage = n
    BY <1>1, <1>3, <1>10 DEF Stop, Save, RunRecord
  <2>2. \A m \in 1..7 : Passed(m)' => m < n
    BY <2>1 DEF Passed, Closing
  <2>3. \A m \in 1..7, c \in Nat : ~Batched(m, c)'
    BY <2>1 DEF Batched
  <2>4. QED
    BY <1>8, <2>2, <2>3
<1>11. CASE StageEnds
  <2>1. Filled(n)
    BY <1>1, <1>2, <1>3, <1>5, <1>6, <1>11, AllBatches
  <2>2. Filled(n)'
    <3>1. n <= n
      OBVIOUS
    <3>2. QED
      BY <1>7, <2>1, <3>1, FilledBelow
  <2>3. CASE run.stage = 7 /\ run' = [run EXCEPT !.pc = "queue"]
    <3>1. run'.pc = "queue" /\ n = 7
      BY <1>1, <1>3, <2>3 DEF RunRecord
    <3>2. \A m \in 1..7 : m < n \/ m = n
      BY <3>1
    <3>3. \A m \in 1..7, c \in Nat : ~Batched(m, c)'
      BY <3>1 DEF Batched
    <3>4. QED
      BY <1>8, <2>2, <3>2, <3>3
  <2>4. CASE run' = [run EXCEPT !.stage = run.stage + 1, !.batch = 1]
    <3>1. run'.pc = "work" /\ run'.stage = n + 1 /\ run'.batch = 1
      BY <1>1, <1>3, <2>4 DEF RunRecord
    <3>2. \A m \in 1..7 : Passed(m)' => m < n \/ m = n
      BY <3>1 DEF Passed, Closing
    <3>3. \A m \in 1..7, c \in Nat : Batched(m, c)' => c = 0
      BY <3>1 DEF Batched
    <3>4. \A m \in 1..7 : FilledTo(m, 0)'
      BY NoneYet
    <3>5. QED
      BY <1>8, <2>2, <3>2, <3>3, <3>4
  <2>5. CASE run' = Save("stage") /\ run.stage = 4
    <3>1. /\ run'.pc = "flush" /\ run'.after = "stage" /\ run'.stage = n
          /\ n = 4
      BY <1>1, <1>3, <2>5 DEF Save, RunRecord
    <3>2. \A m \in 1..7 : Passed(m)' => m < n \/ m = n
      BY <3>1 DEF Passed, Closing
    <3>3. \A m \in 1..7, c \in Nat : ~Batched(m, c)'
      BY <3>1 DEF Batched
    <3>4. QED
      BY <1>8, <2>2, <3>2, <3>3
  <2>6. QED
    BY <1>11, <2>3, <2>4, <2>5, StageEndsCases
<1>12. QED
  BY <1>9, <1>10, <1>11

(* Every step keeps it filled.                                              *)
LEMMA FilledStep ==
    ASSUME PipeTypes, FilledInv, PipelineNext
    PROVE  FilledInv'
<1>1. CASE \E resume \in BOOLEAN, selected \in SUBSET StageIds,
              rekey \in SUBSET Keys : Start(resume, selected, rekey)
  <2>1. PICK resume \in BOOLEAN, selected \in SUBSET StageIds,
             rekey \in SUBSET Keys : Start(resume, selected, rekey)
    BY <1>1
  <2>2. run' = [NoRunYet EXCEPT !.pc = "work", !.selected = selected]
    BY <2>1, Loads
  <2>3. run'.pc = "work" /\ run'.stage = 1 /\ run'.batch = 1
    BY <2>2 DEF NoRunYet
  <2>4. \A m \in 1..7 : ~Passed(m)'
    BY <2>3 DEF Passed, Closing
  <2>5. \A m \in 1..7, c \in Nat : Batched(m, c)' => c = 0
    BY <2>3 DEF Batched
  <2>6. \A m \in 1..7 : FilledTo(m, 0)'
    BY NoneYet
  <2>7. QED
    BY <2>4, <2>5, <2>6 DEF FilledInv
<1>2. CASE Work \/ Stop \/ StageEnds
  BY <1>2, FilledWork
<1>3. ASSUME mem' = mem
      PROVE  /\ \A m \in 1..7 : Filled(m) => Filled(m)'
             /\ \A m \in 1..7, c \in Nat : FilledTo(m, c) => FilledTo(m, c)'
  <2> SUFFICES ASSUME NEW m \in 1..7
               PROVE  /\ Filled(m) => Filled(m)'
                      /\ \A c \in Nat : FilledTo(m, c) => FilledTo(m, c)'
    OBVIOUS
  <2>1. \A j \in 1..7 : mem'[Stages[j]] = mem[Stages[j]]
    BY <1>3
  <2>2. \A k \in Keys : Done(Stages[m], k) => Done(Stages[m], k)'
    BY <1>3 DEF Done
  <2>3. QED
    BY <2>1, <2>2, FilledStays
<1>4. CASE FlushFile
  <2>1. UNCHANGED mem /\ run.pc # "off" /\ run' = [run EXCEPT !.wrote = TRUE]
    BY <1>4, OneSaved
  <2>2. /\ run'.pc = run.pc /\ run'.after = run.after /\ run'.stage = run.stage
        /\ run'.batch = run.batch /\ run'.selected = run.selected
    BY <2>1 DEF PipeTypes, RunRecord
  <2>3. /\ \A m \in 1..7 : Passed(m)' => Passed(m)
        /\ \A m \in 1..7, c \in Nat : Batched(m, c)' => Batched(m, c)
    BY <2>2 DEF Passed, Batched, Closing
  <2>4. QED
    BY <1>3, <2>1, <2>2, <2>3 DEF FilledInv
<1>5. CASE FlushDone
  <2>1. /\ run.pc = "flush" /\ UNCHANGED mem
        /\ \/ /\ run.after = "batch"
              /\ run' = [run EXCEPT !.pc = "work", !.batch = run.batch + 1]
           \/ /\ run.after = "stage" /\ run.stage = 4
              /\ run' = [run EXCEPT !.pc = "work", !.stage = 5, !.batch = 1]
    BY <1>5, FlushDoneCases
  <2>2. /\ run'.pc = "work" /\ run'.selected = run.selected
        /\ \/ /\ run.after = "batch" /\ run'.stage = run.stage
              /\ run'.batch = run.batch + 1
           \/ /\ run.after = "stage" /\ run.stage = 4
              /\ run'.stage = 5 /\ run'.batch = 1
    BY <2>1 DEF PipeTypes, RunRecord
  <2>3. run.batch \in Nat
    BY DEF PipeTypes, RunRecord
  <2>4. \A m \in 1..7 : Passed(m)' => Passed(m)
    BY <2>1, <2>2 DEF Passed, Closing
  <2>5. \A m \in 1..7, c \in Nat : Batched(m, c)' => Batched(m, c) \/ c = 0
    BY <2>1, <2>2, <2>3 DEF Batched
  <2>6. \A m \in 1..7 : FilledTo(m, 0)'
    BY NoneYet
  <2>7. QED
    BY <1>3, <2>1, <2>2, <2>4, <2>5, <2>6 DEF FilledInv
<1>6. CASE QueueRow
  <2>1. UNCHANGED <<mem, run>>
    BY <1>6 DEF QueueRow
  <2>2. /\ \A m \in 1..7 : Passed(m)' => Passed(m)
        /\ \A m \in 1..7, c \in Nat : Batched(m, c)' => Batched(m, c)
    BY <2>1 DEF Passed, Batched, Closing
  <2>3. QED
    BY <1>3, <2>1, <2>2 DEF FilledInv
<1>7. CASE QueueDone
  <2>1. UNCHANGED mem /\ run.pc = "queue" /\ run' = Save("write")
    BY <1>7 DEF QueueDone
  <2>2. /\ run'.pc = "flush" /\ run'.after = "write"
        /\ run'.selected = run.selected
    BY <2>1 DEF Save, PipeTypes, RunRecord
  <2>3. /\ \A m \in 1..7 : Passed(m)
        /\ \A m \in 1..7, c \in Nat : ~Batched(m, c)'
    BY <2>1, <2>2 DEF Passed, Batched, Closing
  <2>4. QED
    BY <1>3, <2>1, <2>2, <2>3 DEF FilledInv
<1>8. CASE RunStops \/ RunWrites \/ RunKilled
  <2>1. run'.pc = "off"
    BY <1>8 DEF RunStops, RunWrites, RunKilled, RunEnds, NoRunYet
  <2>2. QED
    BY <2>1 DEF FilledInv
<1>9. CASE UNCHANGED runVars
  <2>1. UNCHANGED <<mem, run>>
    BY <1>9 DEF runVars
  <2>2. /\ \A m \in 1..7 : Passed(m)' => Passed(m)
        /\ \A m \in 1..7, c \in Nat : Batched(m, c)' => Batched(m, c)
    BY <2>1 DEF Passed, Batched, Closing
  <2>3. QED
    BY <1>3, <2>1, <2>2 DEF FilledInv
<1>10. QED
  BY <1>1, <1>2, <1>4, <1>5, <1>6, <1>7, <1>8, <1>9
     DEF PipelineNext, RunStep

(* The keys of a row went through all stages from anchor_rank on.          *)
LEMMA RowsWereAtAll ==
    ASSUME NEW n \in 3..7
    PROVE  KeysOf(7) \subseteq KeysOf(n)
<1>1. Items(7) \subseteq Items(n)
  BY DEF Items
<1>2. \A i : Key(7, i) = Key(n, i)
  BY DEF Key
<1>3. QED
  BY <1>1, <1>2 DEF KeysOf

(* The rows that are written.                                              *)
LEMMA WritesAllParts ==
    ASSUME PipeTypes, FilledInv, RunWrites, out'.full
    PROVE  out'.partial = {}
<1>1. out' = [by |-> attempt, full |-> run.selected = StageIds,
              rows |-> KeysOf(7), mixed |-> {k \in KeysOf(7) : Mixed(k)},
              partial |-> {k \in KeysOf(7) : Partial(k)}]
  BY DEF RunWrites
<1>2. run.selected = StageIds /\ out'.partial = {k \in KeysOf(7) : Partial(k)}
  BY <1>1
<1>3. \A n \in 1..7 : Filled(n)
  BY <1>2 DEF RunWrites, FilledInv, Passed, Closing
<1>4. \A k \in KeysOf(7), n \in 3..7 : Done(Stages[n], k)
  <2>1. \A n \in 3..7 : n \in 1..7
    OBVIOUS
  <2>2. QED
    BY <1>3, <2>1, RowsWereAtAll DEF Filled
<1>5. QED
  BY <1>2, <1>4 DEF Partial

(* A run of all stages that exits with success leaves no gap in its rows,  *)
(* for any sample and batch width, whatever earlier runs had been stopped, *)
(* killed or limited to: batch by batch, every item of every stage has a   *)
(* result before the next stage begins.                                    *)
THEOREM FullRunsFillTheRows == Spec => []RowsComplete
<1>1. Init => FilledInv /\ RowsComplete
  BY DEF Init, RunInit, NoRunYet, NoOut, FilledInv, RowsComplete
<1>2. PipeTypes /\ FilledInv /\ RowsComplete /\ [Next]_vars
         => FilledInv' /\ RowsComplete'
  <2> SUFFICES ASSUME PipeTypes, FilledInv, RowsComplete, PipelineNext
               PROVE  FilledInv' /\ RowsComplete'
    BY PipelineSteps
  <2>1. FilledInv'
    BY FilledStep
  <2>2. CASE RunWrites
    BY <2>1, <2>2, WritesAllParts DEF RowsComplete
  <2>3. CASE ~RunWrites
    <3>1. out' = out
      BY <2>3 DEF PipelineNext, Start, RunStep, Work, Stop, StageEnds,
         FlushFile, FlushDone, QueueRow, QueueDone, RunStops, RunKilled, runVars
    <3>2. QED
      BY <2>1, <3>1 DEF RowsComplete
  <2>4. QED
    BY <2>2, <2>3
<1>3. QED
  BY <1>1, <1>2, PipeAlways, PTL DEF Spec

-----------------------------------------------------------------------------
(* Types of the whole console                                              *)

(* What the invariants so far leave open.                                  *)
WebRest ==
    /\ procs \in SUBSET Runs /\ termed \in SUBSET Runs
    /\ calls \in 0..MaxCalls /\ restarts \in 0..MaxRestarts

JobRest ==
    /\ store \in [run : Jobs \cup {NoJob}, status : Statuses]
    /\ manifest \in SUBSET Jobs /\ pump \in SUBSET Jobs
    /\ jobCalls \in 0..MaxJobCalls

(* Handles and signals are of runs, and the counters within bounds.         *)
LEMMA WebRestStep ==
    ASSUME WebInv, WebRest, [Next]_vars
    PROVE  WebRest'
<1>1. procs' \in SUBSET Runs
  <2>1. CASE \E q \in Requests : CreateHandle(q)
    <3>1. PICK q \in Requests : CreateHandle(q)
      BY <2>1
    <3>2. request[q].run \in Runs
      BY <3>1 DEF CreateHandle, At, WebInv, Knows
    <3>3. QED
      BY <3>1, <3>2 DEF CreateHandle, WebRest
  <2>2. CASE ~\E q \in Requests : CreateHandle(q)
    <3>1. procs' \subseteq procs
      BY <2>2 DEF Next, vars, webVars, ConsoleStart, CreateSpawn, ForcedKill,
         CancelKill, TerminalStart, PipelineEnds, PipelineKilled, ChildOf,
         ChildEnds, OtherChildEnds, PidGoesOn, PidReused, ConsoleRestart,
         WebRestart, WebServes, CreateRecord, ListLoad, ListSave, CancelTerm,
         CancelWait, CancelRecord, Get, CancelCheck
    <3>2. QED
      BY <3>1 DEF WebRest
  <2>3. QED
    BY <2>1, <2>2
<1>2. termed' \in SUBSET Runs
  <2>1. CASE \E q \in Requests : CancelTerm(q)
    <3>1. PICK q \in Requests : CancelTerm(q)
      BY <2>1
    <3>2. request[q].run \in Runs
      BY <3>1 DEF CancelTerm, At, WebInv, Knows
    <3>3. QED
      BY <3>1, <3>2 DEF CancelTerm, WebRest
  <2>2. CASE ~\E q \in Requests : CancelTerm(q)
    <3>1. termed' = termed
      BY <2>2 DEF Next, vars, webVars, ConsoleStart, CreateSpawn, ForcedKill,
         CancelKill, TerminalStart, PipelineEnds, PipelineKilled, ChildOf,
         ChildEnds, Exits, childVars, OtherChildEnds, PidGoesOn, PidReused,
         ConsoleRestart, WebRestart, WebServes, CreateHandle, CreateRecord,
         ListLoad, ListSave, CancelWait, CancelRecord, Get, CancelCheck
    <3>2. QED
      BY <3>1 DEF WebRest
  <2>3. QED
    BY <2>1, <2>2
<1>3. calls' \in 0..MaxCalls
  <2>1. calls' = calls \/ (calls < MaxCalls /\ calls' = calls + 1)
    BY DEF Next, vars, webVars, ConsoleStart, CreateSpawn, ForcedKill,
       CancelKill, TerminalStart, PipelineEnds, PipelineKilled, ChildOf,
       ChildEnds, OtherChildEnds, PidGoesOn, PidReused, ConsoleRestart,
       WebRestart, WebServes, CreateHandle, CreateRecord, ListLoad, ListSave,
       CancelTerm, CancelWait, CancelRecord, Get, CancelCheck, Call, At
  <2>2. MaxCalls \in Nat
    BY WebRunsAssumption
  <2>3. QED
    BY <2>1, <2>2 DEF WebRest
<1>4. restarts' \in 0..MaxRestarts
  <2>1. \/ restarts' = restarts
        \/ restarts < MaxRestarts /\ restarts' = restarts + 1
    BY DEF Next, vars, webVars, ConsoleStart, CreateSpawn, ForcedKill,
       CancelKill, TerminalStart, PipelineEnds, PipelineKilled, ChildOf,
       ChildEnds, OtherChildEnds, PidGoesOn, PidReused, ConsoleRestart,
       WebRestart, WebServes, CreateHandle, CreateRecord, ListLoad, ListSave,
       CancelTerm, CancelWait, CancelRecord, Get, CancelCheck
  <2>2. MaxRestarts \in Nat
    BY WebRunsAssumption
  <2>3. QED
    BY <2>1, <2>2 DEF WebRest
<1>5. QED
  BY <1>1, <1>2, <1>3, <1>4 DEF WebRest

(* The status file holds a job or none.                                     *)
LEMMA JobRestStep ==
    ASSUME JobInv, JobRest, [Next]_vars
    PROVE  JobRest'
<1>1. screening \in [run : Jobs \cup {NoJob}, status : Statuses]
      /\ MaxJobCalls \in Nat
  BY ScreeningAssumption DEF JobInv, JobShape
<1>2. CASE JobServes
  <2>1. CASE Status
    BY <1>1, <2>1 DEF Status, Verdict, Settle, JobRest, Statuses
  <2>2. CASE StatusFromStore
    BY <1>1, <2>2 DEF StatusFromStore, JobRest, Statuses
  <2>3. CASE AbortCheck
    BY <1>1, <2>3 DEF AbortCheck, JobCall, JobRest
  <2>4. ASSUME NEW j \in Jobs, RunScreening(j) PROVE JobRest'
    BY <1>1, <2>4 DEF RunScreening, JobCall, JobRest, Statuses
  <2>5. ASSUME NEW j \in Jobs, PumpSettles(j) PROVE JobRest'
    <3>1. store' \in [run : Jobs \cup {NoJob}, status : Statuses]
      BY <1>1, <2>5 DEF PumpSettles, Verdict, Settle, JobRest, Statuses
    <3>2. QED
      BY <2>5, <3>1 DEF PumpSettles, JobRest
  <2>6. ASSUME NEW j \in Jobs, AbortStop(j) \/ AbortRecord(j) PROVE JobRest'
    BY <1>1, <2>6 DEF AbortStop, AbortRecord, Settle, JobRest, Statuses
  <2>7. QED
    BY <1>2, <2>1, <2>2, <2>3, <2>4, <2>5, <2>6 DEF JobServes
<1>3. CASE \E j \in Jobs : ExportEnds(j)
  BY <1>3 DEF ExportEnds, JobRest
<1>4. CASE ConsoleRestart
  BY <1>4 DEF ConsoleRestart, JobRestart, JobRest
<1>5. CASE UNCHANGED jobVars
  BY <1>5 DEF jobVars, JobRest
<1>6. \/ JobServes \/ (\E j \in Jobs : ExportEnds(j)) \/ ConsoleRestart
      \/ UNCHANGED jobVars
  BY DEF Next, vars, ConsoleStart, ForcedKill, TerminalStart, PipelineEnds,
         PipelineKilled, ChildOf, OtherChildEnds, PidGoesOn
<1>7. QED
  BY <1>2, <1>3, <1>4, <1>5, <1>6

(* Type correctness of the console with its pipeline and its export, for   *)
(* any number of runs, requests, restarts and screening jobs.              *)
THEOREM ConsoleTypeCorrect == Spec => []TypeOK
<1>1. Init => WebRest /\ JobRest
  <2>1. MaxCalls \in Nat /\ MaxRestarts \in Nat /\ MaxJobCalls \in Nat
    BY WebRunsAssumption, ScreeningAssumption
  <2>2. QED
    BY <2>1 DEF Init, WebInit, JobInit, WebRest, JobRest, NoScreening, Statuses
<1>2. WebInv /\ WebRest /\ [Next]_vars => WebRest'
  BY WebRestStep
<1>3. JobInv /\ JobRest /\ [Next]_vars => JobRest'
  BY JobRestStep
<1>4. WebInv /\ MadeInv /\ [Next]_vars => MadeInv'
  BY MadeStep
<1>5. WebInv /\ WebRest => WebTypeOK
  BY DEF WebInv, WebShape, WebRest, WebTypeOK
<1>6. JobInv /\ JobRest => JobTypeOK
  BY DEF JobInv, JobShape, JobRest, JobTypeOK
<1>7. PipeTypes => RunTypeOK
  BY DEF PipeTypes, RunTypeOK, Store, RunRecord, Outs
<1>8. PipeTypes /\ MadeInv => made \in [PrecardRuns -> 0..MaxAttempts]
  <2> SUFFICES ASSUME PipeTypes, MadeInv
               PROVE  made \in [PrecardRuns -> 0..MaxAttempts]
    OBVIOUS
  <2>1. attempt \in 0..MaxAttempts /\ MaxAttempts \in Nat
    BY EntryTypes DEF PipeTypes
  <2>2. \A r \in PrecardRuns : made[r] \in 0..attempt
    BY DEF MadeInv, Made
  <2>3. \A r \in PrecardRuns : made[r] \in 0..MaxAttempts
    BY <2>1, <2>2
  <2>4. QED
    BY <2>3 DEF MadeInv
<1>9. WebInv /\ WebRest /\ JobInv /\ JobRest /\ PipeTypes /\ MadeInv => TypeOK
  BY <1>5, <1>6, <1>7, <1>8 DEF TypeOK
<1>10. QED
  BY <1>1, <1>2, <1>3, <1>4, <1>9, MadeInitial, WebAlways, JobAlways,
     PipeAlways, PTL DEF Spec
=============================================================================
