---------------------------- MODULE ScreeningJob ----------------------------
(***************************************************************************)
(* The screening export of the factory console (factory/webui/server.py,   *)
(* factory/webui/run_status.py): one job at a time, kept in the memory of  *)
(* the server (_SCREENING) under a lock, with a pump thread per child that *)
(* settles the job when its child ends, an abort that waits for the child  *)
(* outside the lock, and a status file from which a restarted server tells *)
(* what became of the job that its predecessor started.                    *)
(***************************************************************************)
EXTENDS Integers, FiniteSets

CONSTANTS
    Jobs,          \* screening runs, numbered as they are started
    NoJob,         \* no run
    MaxJobCalls    \* bound: requests that start or abort a run

ASSUME ScreeningAssumption ==
    /\ IsFiniteSet(Jobs) /\ Jobs \subseteq Nat
    /\ NoJob \notin Jobs
    /\ MaxJobCalls \in Nat

Statuses == {"idle", "running", "completed", "failed"}

VARIABLES
    screening, \* _SCREENING: the run and its status
    store,     \* screening_run_status.json: the latest run and its status
    export,    \* the child of each run: none, alive, ok or bad (exit code)
    manifest,  \* runs whose output directory holds a manifest
    pump,      \* pump threads: none, or waiting for the run's child
    abort,     \* abort requests: none, stopping the child, child gone
    own,       \* runs started by the server process that is running
    jobCalls   \* requests so far

jobVars == <<screening, store, export, manifest, pump, abort, own, jobCalls>>

NoScreening == [run |-> NoJob, status |-> "idle"]
Alive(j) == export[j] = "alive"

(* Mutant: a start asks the status.                                        *)
BusyByStatus == screening.run # NoJob /\ screening.status = "running"

(* A child of this server runs.                                            *)
Busy == screening.run # NoJob /\ Alive(screening.run)

JobTypeOK ==
    /\ screening \in [run : Jobs \cup {NoJob}, status : Statuses]
    /\ store \in [run : Jobs \cup {NoJob}, status : Statuses]
    /\ export \in [Jobs -> {"none", "alive", "ok", "bad"}]
    /\ manifest \in SUBSET Jobs
    /\ pump \in SUBSET Jobs
    /\ abort \in [Jobs -> {"none", "term", "gone"}]
    /\ own \in SUBSET Jobs
    /\ jobCalls \in 0..MaxJobCalls

JobInit ==
    /\ screening = NoScreening
    /\ store = NoScreening
    /\ export = [j \in Jobs |-> "none"]
    /\ manifest = {}
    /\ pump = {}
    /\ abort = [j \in Jobs |-> "none"]
    /\ own = {}
    /\ jobCalls = 0

---------------------------------------------------------------------------
JobCall == jobCalls < MaxJobCalls /\ jobCalls' = jobCalls + 1

(* A settled status goes to memory and to the status file in one section.  *)
Settle(status) ==
    /\ screening' = [screening EXCEPT !.status = status]
    /\ store' = [run |-> screening.run, status |-> status]

Verdict(j) == IF export[j] = "ok" THEN "completed" ELSE "failed"

(* POST /api/screening/run; refused while a child is alive.  The output    *)
(* directory may be one that already holds a manifest ("overwrite").       *)
RunScreening(j) ==
    /\ JobCall
    /\ ~Busy
    /\ export[j] = "none" /\ \A i \in Jobs : i < j => export[i] # "none"
    /\ export' = [export EXCEPT ![j] = "alive"]
    /\ own' = own \cup {j}
    /\ pump' = pump \cup {j}
    /\ screening' = [run |-> j, status |-> "running"]
    /\ store' = [run |-> j, status |-> "running"]
    /\ manifest' \in {manifest, manifest \cup {j}}
    /\ UNCHANGED abort

(* GET /api/screening/status of a server that has run a job: an exited     *)
(* child settles it.                                                       *)
Status ==
    /\ screening.run # NoJob
    /\ screening.status = "running" /\ ~Alive(screening.run)
    /\ Settle(Verdict(screening.run))
    /\ UNCHANGED <<export, manifest, pump, abort, own, jobCalls>>

(* The same of a restarted server: the file is asked, and a run whose pid  *)
(* is gone is settled by its manifest.  A pid that names another process   *)
(* by now delays this.                                                     *)
StatusFromStore ==
    /\ screening.run = NoJob
    /\ store.run # NoJob /\ store.status = "running" /\ ~Alive(store.run)
    /\ store' = [store EXCEPT !.status =
                    IF store.run \in manifest THEN "completed" ELSE "failed"]
    /\ UNCHANGED <<screening, export, manifest, pump, abort, own, jobCalls>>

(* The pump of a run whose child has ended settles the job that is running *)
(* then, with the exit code of its own child.                              *)
PumpSettles(j) ==
    /\ j \in pump /\ ~Alive(j)
    /\ pump' = pump \ {j}
    /\ IF screening.status = "running"
       THEN Settle(Verdict(j))
       ELSE UNCHANGED <<screening, store>>
    /\ UNCHANGED <<export, manifest, abort, own, jobCalls>>

(* POST /api/screening/abort: the child is taken from the job under the    *)
(* lock, stopped outside it, and the job then marked as failed.            *)
AbortCheck ==
    /\ JobCall
    /\ Busy
    /\ abort[screening.run] = "none"
    /\ abort' = [abort EXCEPT ![screening.run] = "term"]
    /\ UNCHANGED <<screening, store, export, manifest, pump, own>>

(* Mutant: the child is not waited for.                                    *)
AbortStopGivesUp(j) ==
    /\ abort[j] = "term"
    /\ abort' = [abort EXCEPT ![j] = "gone"]
    /\ UNCHANGED <<export, screening, store, manifest, pump, own, jobCalls>>

AbortStop(j) ==
    /\ abort[j] = "term"
    /\ export' = IF Alive(j) THEN [export EXCEPT ![j] = "bad"] ELSE export
    /\ abort' = [abort EXCEPT ![j] = "gone"]
    /\ UNCHANGED <<screening, store, manifest, pump, own, jobCalls>>

AbortRecord(j) ==
    /\ abort[j] = "gone"
    /\ Settle("failed")
    /\ abort' = [abort EXCEPT ![j] = "none"]
    /\ UNCHANGED <<export, manifest, pump, own, jobCalls>>

---------------------------------------------------------------------------
(* The child ends; a successful one has written its manifest.              *)
ExportEnds(j) ==
    /\ Alive(j)
    /\ \E how \in {"ok", "bad"} :
          /\ export' = [export EXCEPT ![j] = how]
          /\ manifest' = IF how = "ok" THEN manifest \cup {j} ELSE manifest
    /\ UNCHANGED <<screening, store, pump, abort, own, jobCalls>>

(* The server process dies and is started again.                           *)
JobRestart ==
    /\ screening' = NoScreening
    /\ pump' = {}
    /\ abort' = [j \in Jobs |-> "none"]
    /\ own' = {}
    /\ UNCHANGED <<store, export, manifest, jobCalls>>

JobServes ==
    \/ Status \/ StatusFromStore \/ AbortCheck
    \/ \E j \in Jobs : \/ RunScreening(j) \/ PumpSettles(j)
                       \/ AbortStop(j) \/ AbortRecord(j)

---------------------------------------------------------------------------
(* A server never has two screening children at once, whatever old pumps   *)
(* and aborts make of the status in the meantime: a start asks the child,  *)
(* not the status.                                                         *)
OneScreening == Cardinality({j \in own : Alive(j)}) <= 1

(* What a restart finds in the file is what the console showed before it:  *)
(* every start and every settlement, by whichever thread, wrote it.        *)
StoreFollows == screening.run # NoJob => store = screening

(* A job whose child still runs is declared ended only by what an earlier  *)
(* run left behind - its pump, which settles whichever job is running, or  *)
(* its abort, which asks for no run at all; the job's own pump, abort and  *)
(* polls wait for the child.                                               *)
Misjudged ==
    /\ screening.status = "running" /\ Alive(screening.run)
    /\ screening'.run = screening.run /\ screening'.status # "running"
Leftover ==
    \E j \in Jobs \ {screening.run} :
        j \in pump \ pump' \/ (abort[j] = "gone" /\ abort'[j] = "none")
OnlyLeftoversMisjudge == [][Misjudged => Leftover]_jobVars
=============================================================================
