--------------------------- MODULE FactoryConsole ---------------------------
(***************************************************************************)
(* The factory as its operator sees it: the console (WebRuns) starts the   *)
(* pre-card pipeline (PrecardRun) and other steps as child processes and   *)
(* cancels them, runs one screening export at a time (ScreeningJob), and   *)
(* dies and restarts as a whole, while the children go on.  The pipeline   *)
(* may also be started from a terminal, with the options that the console  *)
(* does not offer.                                                         *)
(*                                                                         *)
(* What the parts share: the exit code of a pipeline child is the one its  *)
(* run ends with, a signal that ends the child ends the run where it is,   *)
(* and a restart takes handles, requests, pumps and aborts at once.        *)
(***************************************************************************)
EXTENDS WebRuns, ScreeningJob, PrecardRun

CONSTANTS
    PrecardRuns, \* console runs whose child is the pipeline
    Rekeys,      \* item sets a run from a terminal may rekey
    Cost(_),     \* bound: what that many runs of the pipeline cost,
    Budget       \* beside one for each request and restart

ASSUME ConsoleAssumption == 
    /\ PrecardRuns \subseteq Runs
    /\ Rekeys \subseteq SUBSET ToSet(Sample)
    /\ Budget \in Nat

VARIABLE
    made         \* the run of the pipeline that each console run made, 0 for none

vars == <<webVars, jobVars, runVars, made>>

TypeOK ==
    /\ WebTypeOK /\ JobTypeOK /\ RunTypeOK
    /\ made \in [PrecardRuns -> 0..MaxAttempts]

Init == WebInit /\ JobInit /\ RunInit /\ made = [r \in PrecardRuns |-> 0]

(* The console run whose child is the run in progress, if there is one.    *)
Runner == {r \in PrecardRuns : run.pc # "off" /\ made[r] = attempt}

(* The bounds.  The screening export and the pipeline, which share nothing *)
(* but the restart of the console, do not both run in one behaviour.       *)
WithinBudget ==
    /\ calls' + jobCalls' + restarts' + Cost(attempt') <= Budget
    /\ jobCalls' = 0 \/ attempt' = 0

---------------------------------------------------------------------------
(* POST /api/runs: a pipeline run has all stages and resumes or does not.  *)
ConsoleStart(q, r) ==
    /\ CreateSpawn(q, r)
    /\ IF r \in PrecardRuns
       THEN /\ \E resume \in BOOLEAN : Start(resume, StageIds, {})
            /\ made' = [made EXCEPT ![r] = attempt + 1]
       ELSE UNCHANGED <<runVars, made>>
    /\ UNCHANGED jobVars

(* python -m factory.precard.pipeline, with --no-resume, --only, --stages  *)
(* or --rekey.                                                             *)
TerminalStart ==
    /\ \E resume \in BOOLEAN, selected \in Selections, rekey \in Rekeys :
          Start(resume, selected, rekey)
    /\ UNCHANGED <<webVars, jobVars, made>>

(* The child of a console run ends with the run.                           *)
ChildOf(c) ==
    /\ IF Runner = {} THEN UNCHANGED webVars ELSE \E r \in Runner : ChildEnds(r, c)
    /\ UNCHANGED <<jobVars, made>>

(* Mutant: a stopped run exits with success.                               *)
PipelineEndsQuietly ==
    \/ RunStops /\ ChildOf(0)
    \/ RunWrites /\ ChildOf(0)

(* SystemExit with a message is exit code 1.                               *)
PipelineEnds ==
    \/ RunStops /\ ChildOf(1)
    \/ RunWrites /\ ChildOf(0)

PipelineKilled ==
    /\ RunKilled
    /\ ChildOf(-15)

(* A cancel that has waited long enough kills the child.                   *)
ForcedKill(q) ==
    /\ CancelKill(q)
    /\ IF \E r \in Runner : child'[r] = "exited" THEN RunKilled ELSE UNCHANGED runVars
    /\ UNCHANGED <<jobVars, made>>

OtherChildEnds ==
    /\ \E r \in Runs \ PrecardRuns, c \in Codes : ChildEnds(r, c)
    /\ UNCHANGED <<jobVars, runVars, made>>

PidGoesOn ==
    /\ \E r \in Runs : PidReused(r)
    /\ UNCHANGED <<jobVars, runVars, made>>

ConsoleRestart ==
    /\ WebRestart
    /\ JobRestart
    /\ UNCHANGED <<runVars, made>>

---------------------------------------------------------------------------
Next ==
    /\ \/ \E q \in Requests : \E r \in Runs : ConsoleStart(q, r)
       \/ \E q \in Requests : ForcedKill(q)
       \/ TerminalStart
       \/ PipelineEnds \/ PipelineKilled
       \/ OtherChildEnds \/ PidGoesOn
       \/ ConsoleRestart
       \/ WebServes /\ UNCHANGED <<jobVars, runVars, made>>
       \/ JobServes /\ UNCHANGED <<webVars, runVars, made>>
       \/ (\E j \in Jobs : ExportEnds(j)) /\ UNCHANGED <<webVars, runVars, made>>
       \/ RunStep /\ UNCHANGED <<webVars, jobVars, made>>
    /\ WithinBudget

Spec == Init /\ [][Next]_vars

---------------------------------------------------------------------------
(* A console run of the pipeline that is shown as done has written its     *)
(* output: a run that stopped at a limit, was killed or cancelled half way *)
(* is never taken for one, by whichever request settles it.                *)
DoneHasOutput ==
    \A r \in PrecardRuns :
        registry[r].status = "done" => made[r] # 0 /\ ends[made[r]] = "done"
=============================================================================
