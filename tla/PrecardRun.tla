----------------------------- MODULE PrecardRun -----------------------------
(***************************************************************************)
(* The pre-card pipeline of the content factory (factory/precard): seven   *)
(* stages over the items of a sample, batch by batch.  The results of all  *)
(* stages are kept in memory and, after every batch, written to one file   *)
(* per stage; a later run resumes from the files and works only on items   *)
(* that have no result there.  Four stages pay for a model call per batch. *)
(* A run may stop at a rate or key limit, which writes the files first, or *)
(* be killed at any moment, between the files of one write included.       *)
(*                                                                         *)
(* A result is known by the run that produced it (v) and by the version of *)
(* the upstream result it was computed from (up).  Runs over one progress  *)
(* directory follow each other; two at a time are not modelled.            *)
(***************************************************************************)
EXTENDS Integers, Sequences, FiniteSets, SequencesExt

CONSTANTS
    Sample,      \* the sample: a sequence of item keys
    Base,        \* the key of the lemma that superlatives redirect to
    Width,       \* items per batch (BATCH, JUDGE_BATCH and LABEL_BATCH)
    Names,       \* items that preprocess drops
    Stubs,       \* items whose anchor is an inflection stub
    NoDefs,      \* keys that anchor_rank drops
    Propers,     \* keys that the proper-noun route after the judge drops
    Vetoed,      \* keys whose enriched row a gate vetoes
    Selections,  \* stage subsets a run from a terminal may select
    MaxAttempts  \* bound: runs over the progress directory

Stages == <<"preprocess", "inflection_review", "anchor_rank", "sense_judge",
            "topic_vectors", "topic_label", "enrich">>
StageIds == ToSet(Stages)
Keys == ToSet(Sample) \cup {Base}

ASSUME PrecardAssumption ==
    /\ Sample \in Seq(ToSet(Sample)) /\ Sample # <<>> /\ IsInjective(Sample)
    /\ Vetoed \subseteq Keys
    /\ Width \in Nat \ {0}
    /\ MaxAttempts \in Nat
    /\ Selections \subseteq SUBSET ToSet(Stages)

(* The upstream result that a result is computed from, or "none".          *)
Upstream == [s \in StageIds |->
    CASE s = "sense_judge" -> "anchor_rank"
      [] s = "topic_vectors" -> "sense_judge"
      [] s = "topic_label" -> "topic_vectors"
      [] s = "enrich" -> "sense_judge"
      [] OTHER -> "none"]

(* _DOWNSTREAM: what a forced redo of a stage invalidates.                 *)
Downstream == [s \in StageIds |->
    CASE s = "anchor_rank" -> {"sense_judge", "topic_vectors", "topic_label", "enrich"}
      [] s = "sense_judge" -> {"topic_vectors", "topic_label", "enrich"}
      [] s = "topic_vectors" -> {"topic_label", "enrich"}
      [] s = "topic_label" -> {"enrich"}
      [] OTHER -> {}]

(* _REQUIRES_UPSTREAM.                                                     *)
Requires == [s \in StageIds |->
    CASE s = "sense_judge" -> {"anchor_rank"}
      [] s = "topic_vectors" -> {"sense_judge"}
      [] s = "topic_label" -> {"sense_judge", "topic_vectors"}
      [] s = "enrich" -> {"sense_judge"}
      [] OTHER -> {}]

Entry  == [v : 0..MaxAttempts, up : 0..MaxAttempts,
           verdict : {"none", "keep", "drop", "redirect"}]
Absent == [v |-> 0, up |-> 0, verdict |-> "none"]
Empty  == [s \in StageIds |-> [k \in Keys |-> Absent]]

(* The run in progress: its step, the stage and batch it is at, the stages *)
(* it selected, where it goes on after its files are written, and whether  *)
(* the write in progress has replaced a file already.                      *)
NoRunYet == [pc |-> "off", stage |-> 1, batch |-> 1, selected |-> {},
             after |-> "none", wrote |-> FALSE]
RunPCs == {"off", "work", "flush", "queue"}
NoOut  == [by |-> 0, full |-> FALSE, rows |-> {}, mixed |-> {}, partial |-> {}]

VARIABLES
    disk,     \* the progress files
    mem,      \* states
    run,      \* the run in progress
    attempt,  \* runs so far
    pending,  \* hq_pending: vetoed keys enriched by this run
    queue,    \* human queue: the enriched results appended to it
    out,      \* precard.jsonl: the run that wrote it, its keys, and those
              \* whose row mixes results or lacks one
    ends      \* history: how each run ended

runVars == <<disk, mem, run, attempt, pending, queue, out, ends>>

RunTypeOK ==
    /\ disk \in [StageIds -> [Keys -> Entry]]
    /\ mem \in [StageIds -> [Keys -> Entry]]
    /\ run \in [pc : RunPCs, stage : 1..7, batch : Nat \ {0},
                selected : SUBSET StageIds,
                after : {"none", "batch", "stage", "stop", "write"},
                wrote : BOOLEAN]
    /\ attempt \in 0..MaxAttempts
    /\ pending \in SUBSET Keys
    /\ queue \in Seq(Keys \X (1..MaxAttempts))
    /\ out \in [by : 0..MaxAttempts, full : BOOLEAN, rows : SUBSET Keys,
                mixed : SUBSET Keys, partial : SUBSET Keys]
    /\ ends \in [1..MaxAttempts -> {"none", "done", "stopped", "killed", "torn"}]

RunInit ==
    /\ disk = Empty /\ mem = Empty
    /\ run = NoRunYet
    /\ attempt = 0
    /\ pending = {}
    /\ queue = <<>>
    /\ out = NoOut
    /\ ends = [n \in 1..MaxAttempts |-> "none"]

---------------------------------------------------------------------------
Done(s, k)    == mem[s][k] # Absent
Dropped(s, k) == mem[s][k].verdict = "drop"

(* The items a stage works on, by their places in the sample: earlier      *)
(* drops are filtered out, and from anchor_rank on a redirected item goes  *)
(* by the key of its base lemma.                                           *)
Cur(k)    == IF mem["inflection_review"][k].verdict = "redirect" THEN Base ELSE k
Key(n, i) == IF n > 2 THEN Cur(Sample[i]) ELSE Sample[i]
Items(n) ==
    {i \in DOMAIN Sample :
        /\ n > 1 => ~Dropped("preprocess", Sample[i])
        /\ n > 2 => ~Dropped("inflection_review", Sample[i])
        /\ n > 3 => ~Dropped("anchor_rank", Cur(Sample[i]))
        /\ n > 4 => ~Dropped("sense_judge", Cur(Sample[i]))}
KeysOf(n) == {Key(n, i) : i \in Items(n)}

(* Mutant: the last item of a stage is left out.                           *)
BatchesShort == IF Stages[run.stage] \in run.selected
                THEN (Cardinality(Items(run.stage)) + Width - 2) \div Width ELSE 0

(* _stage_range: the batches of a stage, none when it is not selected.     *)
Batches == IF Stages[run.stage] \in run.selected
           THEN (Cardinality(Items(run.stage)) + Width - 1) \div Width ELSE 0

(* The items of a batch are Width items in a row.                          *)
Rank(n, i) == Cardinality({j \in Items(n) : j <= i})
BatchItems(n, b) == {i \in Items(n) : (b - 1) * Width < Rank(n, i)
                                       /\ Rank(n, i) <= b * Width}
BatchKeys(n, b)  == {Key(n, i) : i \in BatchItems(n, b)}
Todo == {k \in BatchKeys(run.stage, run.batch) : ~Done(Stages[run.stage], k)}

---------------------------------------------------------------------------
(* Mutant: what is downstream is not evicted.                              *)
EvictedSelected(selected) == selected

(* A run starts: results are loaded unless it is told not to resume, those *)
(* of the rekeyed items are evicted from the selected stages and from what *)
(* is downstream of them - in memory - and a subset of stages with nothing *)
(* upstream is refused.                                                    *)
Evicted(selected) == selected \cup UNION {Downstream[s] : s \in selected}

Runnable(selected, states) ==
    \A s \in selected : \A u \in Requires[s] \ selected :
        \E k \in Keys : states[u][k] # Absent

Start(resume, selected, rekey) ==
    LET loaded == IF resume THEN disk ELSE Empty
        states == [s \in StageIds |-> [k \in Keys |->
                      IF s \in Evicted(selected) /\ k \in rekey
                      THEN Absent ELSE loaded[s][k]]]
    IN  /\ run.pc = "off"
        /\ attempt < MaxAttempts
        /\ selected # StageIds => Runnable(selected, states)
        /\ attempt' = attempt + 1
        /\ mem' = states
        /\ run' = [NoRunYet EXCEPT !.pc = "work", !.selected = selected]
        /\ UNCHANGED <<disk, pending, queue, out, ends>>

(* What a stage makes of an item.  A review of an inflection stub keeps    *)
(* it, drops it or redirects it to its base lemma.                         *)
Verdicts(s, k) ==
    CASE s = "preprocess" -> {IF k \in Names THEN "drop" ELSE "keep"}
      [] s = "inflection_review" /\ k \in Stubs -> {"keep", "drop", "redirect"}
      [] s = "anchor_rank" -> {IF k \in NoDefs THEN "drop" ELSE "keep"}
      [] s = "sense_judge" -> {"none"}
      [] OTHER -> {"keep"}

Result(s, k, verdict) ==
    [v |-> attempt, verdict |-> verdict,
     up |-> IF Upstream[s] = "none" THEN 0 ELSE mem[Upstream[s]][k].v]

Save(after) == [run EXCEPT !.pc = "flush", !.after = after, !.wrote = FALSE]

(* Mutant: files are written after the last batch only.                    *)
WorkUnflushed ==
    LET s == Stages[run.stage] IN
    /\ run.pc = "work" /\ run.batch <= Batches
    /\ \E verdict \in [Todo -> {"none", "keep", "drop", "redirect"}] :
          /\ \A k \in Todo : verdict[k] \in Verdicts(s, k)
          /\ mem' = [mem EXCEPT ![s] = [k \in Keys |->
                        IF k \in Todo THEN Result(s, k, verdict[k]) ELSE @[k]]]
    /\ pending' = IF s = "enrich" THEN pending \cup (Todo \cap Vetoed) ELSE pending
    /\ run' = IF run.batch = Batches THEN Save("batch")
              ELSE [run EXCEPT !.batch = @ + 1]
    /\ UNCHANGED <<disk, attempt, queue, out, ends>>

(* Mutant: items that are done already are queued again.                   *)
WorkQueuesSkipped ==
    LET s == Stages[run.stage] IN
    /\ run.pc = "work" /\ run.batch <= Batches
    /\ \E verdict \in [Todo -> {"none", "keep", "drop", "redirect"}] :
          /\ \A k \in Todo : verdict[k] \in Verdicts(s, k)
          /\ mem' = [mem EXCEPT ![s] = [k \in Keys |->
                        IF k \in Todo THEN Result(s, k, verdict[k]) ELSE @[k]]]
    /\ pending' = IF s = "enrich"
                  THEN pending \cup (BatchKeys(run.stage, run.batch) \cap Vetoed)
                  ELSE pending
    /\ run' = Save("batch")
    /\ UNCHANGED <<disk, attempt, queue, out, ends>>

(* One batch of a selected stage; its files are written next.              *)
Work ==
    LET s == Stages[run.stage] IN
    /\ run.pc = "work" /\ run.batch <= Batches
    /\ \E verdict \in [Todo -> {"none", "keep", "drop", "redirect"}] :
          /\ \A k \in Todo : verdict[k] \in Verdicts(s, k)
          /\ mem' = [mem EXCEPT ![s] = [k \in Keys |->
                        IF k \in Todo THEN Result(s, k, verdict[k]) ELSE @[k]]]
    /\ pending' = IF s = "enrich" THEN pending \cup (Todo \cap Vetoed) ELSE pending
    /\ run' = Save("batch")
    /\ UNCHANGED <<disk, attempt, queue, out, ends>>

(* The call of the batch finds every key at its limit or refused, or the   *)
(* operator interrupts: the files are written and the run exits.  Items    *)
(* that inflection_review need not ask about have their result by then.    *)
Stop ==
    LET s == Stages[run.stage]
        asked == s = "inflection_review" /\ Todo \cap Stubs # {}
    IN  /\ run.pc = "work" /\ run.batch <= Batches /\ Todo # {}
        /\ s # "preprocess"
        /\ mem' = [mem EXCEPT ![s] = [k \in Keys |->
                      IF asked /\ k \in Todo \ Stubs
                      THEN Result(s, k, "keep") ELSE @[k]]]
        /\ run' = Save("stop")
        /\ UNCHANGED <<disk, attempt, pending, queue, out, ends>>

(* Mutant: the run goes past its last stage.                               *)
StageEndsPastLast ==
    /\ run.pc = "work" /\ run.batch > Batches
    /\ run' = IF run.stage > Len(Stages)
              THEN [run EXCEPT !.pc = "queue"]
              ELSE [run EXCEPT !.stage = @ + 1, !.batch = 1]
    /\ UNCHANGED <<mem, disk, attempt, pending, queue, out, ends>>

(* A stage ends.  After the judge, whether selected or not, judged items   *)
(* that are not routed yet are routed, and proper nouns dropped.           *)
StageEnds ==
    LET unrouted == {k \in KeysOf(4) :
                        Done("sense_judge", k) /\ mem["sense_judge"][k].verdict = "none"}
    IN  /\ run.pc = "work" /\ run.batch > Batches
        /\ IF Stages[run.stage] = "sense_judge" /\ unrouted # {}
           THEN /\ mem' = [mem EXCEPT !["sense_judge"] = [k \in Keys |->
                              IF k \in unrouted
                              THEN [@[k] EXCEPT !.verdict =
                                       IF k \in Propers THEN "drop" ELSE "keep"]
                              ELSE @[k]]]
                /\ run' = Save("stage")
           ELSE /\ run' = IF run.stage = Len(Stages)
                          THEN [run EXCEPT !.pc = "queue"]
                          ELSE [run EXCEPT !.stage = @ + 1, !.batch = 1]
                /\ UNCHANGED mem
        /\ UNCHANGED <<disk, attempt, pending, queue, out, ends>>

---------------------------------------------------------------------------
(* _flush replaces the files in the order of the stages, each in one step; *)
(* only a file whose content changes makes a difference.                   *)
Unsaved == {n \in DOMAIN Stages : disk[Stages[n]] # mem[Stages[n]]}

FlushFile ==
    /\ run.pc = "flush" /\ Unsaved # {}
    /\ LET s == Stages[Min(Unsaved)]
       IN  disk' = [disk EXCEPT ![s] = mem[s]]
    /\ run' = [run EXCEPT !.wrote = TRUE]
    /\ UNCHANGED <<mem, attempt, pending, queue, out, ends>>

FlushDone ==
    /\ run.pc = "flush" /\ Unsaved = {}
    /\ run.after \in {"batch", "stage"}
    /\ run' = IF run.after = "batch"
              THEN [run EXCEPT !.pc = "work", !.batch = @ + 1]
              ELSE [run EXCEPT !.pc = "work", !.stage = @ + 1, !.batch = 1]
    /\ UNCHANGED <<disk, mem, attempt, pending, queue, out, ends>>

(* Vetoed rows enriched by this run are appended to the human queue one by *)
(* one; then the files are written once more (finally).                    *)
QueueRow ==
    /\ run.pc = "queue"
    /\ \E k \in pending :
          /\ queue' = Append(queue, <<k, mem["enrich"][k].v>>)
          /\ pending' = pending \ {k}
    /\ UNCHANGED <<disk, mem, run, attempt, out, ends>>

QueueDone ==
    /\ run.pc = "queue" /\ pending = {}
    /\ run' = Save("write")
    /\ UNCHANGED <<disk, mem, attempt, pending, queue, out, ends>>

---------------------------------------------------------------------------
(* A run ends: stopped, with its output written, or killed.                *)
RunEnds(how) ==
    /\ run' = NoRunYet
    /\ mem' = Empty
    /\ pending' = {}
    /\ ends' = [ends EXCEPT ![attempt] = how]
    /\ UNCHANGED <<attempt, queue>>

RunStops ==
    /\ run.pc = "flush" /\ Unsaved = {} /\ run.after = "stop"
    /\ RunEnds("stopped")
    /\ UNCHANGED <<disk, out>>

(* A row takes its parts from four stages; it is mixed if a part was       *)
(* computed from an upstream result that is no longer the one it has.      *)
Mixed(k) ==
    \E s \in StageIds :
        /\ Upstream[s] # "none" /\ Done(s, k) /\ mem[s][k].up # 0
        /\ mem[s][k].up # mem[Upstream[s]][k].v
Partial(k) == \E n \in 3..7 : ~Done(Stages[n], k)

RunWrites ==
    /\ run.pc = "flush" /\ Unsaved = {} /\ run.after = "write"
    /\ LET rows == KeysOf(7)
       IN  out' = [by |-> attempt, full |-> run.selected = StageIds, rows |-> rows,
                   mixed |-> {k \in rows : Mixed(k)},
                   partial |-> {k \in rows : Partial(k)}]
    /\ RunEnds("done")
    /\ UNCHANGED disk

(* SIGTERM and SIGKILL take the process without its finally clause.        *)
RunKilled ==
    /\ run.pc # "off"
    /\ RunEnds(IF run.pc = "flush" /\ run.wrote /\ Unsaved # {}
               THEN "torn" ELSE "killed")
    /\ UNCHANGED <<disk, out>>

RunStep == Work \/ Stop \/ StageEnds \/ FlushFile \/ FlushDone \/ QueueRow \/ QueueDone

---------------------------------------------------------------------------
(* "Otherwise assembly mixes new anchors with stale enrichment": whatever  *)
(* was rekeyed, in whatever subset of stages, stopped or killed, no row is *)
(* assembled from results of different generations - unless a run was      *)
(* killed between two files of one write.                                  *)
NoStaleMix ==
    out.mixed # {} => \E n \in DOMAIN ends : ends[n] = "torn"

(* A kill costs the calls of one batch: what is in memory only is always   *)
(* work of the stage and batch in progress.                                *)
UnsavedIsOneBatch ==
    \A s \in StageIds, k \in Keys :
        Done(s, k) /\ disk[s][k].v # mem[s][k].v
            => /\ s = Stages[run.stage]
               /\ k \in BatchKeys(run.stage, run.batch)

(* "No resume dupes": an enriched result is queued for the operator at     *)
(* most once, and those of a run that reached its end all are.             *)
VetoesQueued ==
    /\ IsInjective(queue)
    /\ \A k \in Vetoed :
          LET v == disk["enrich"][k].v
          IN  v # 0 /\ ends[v] = "done" => Contains(queue, <<k, v>>)

(* A run of all stages that exits with success leaves no gap in its rows,  *)
(* whatever earlier runs had been stopped, killed or limited to.           *)
RowsComplete == out.full => out.partial = {}
=============================================================================
