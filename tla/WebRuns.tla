------------------------------ MODULE WebRuns ------------------------------
(***************************************************************************)
(* The runs of the factory console (factory/webui/server.py): a threaded   *)
(* HTTP server starts child processes, keeps their handles in memory       *)
(* (_procs) and their records in a registry file that every request loads  *)
(* and saves whole, settles a record when it polls an exited child, and    *)
(* cancels a run by its handle or, after a restart of the server, by its   *)
(* recorded pid if the process behind it is still the child.               *)
(*                                                                         *)
(* A section of the code that holds the lock is one step.  The listing     *)
(* request loads the registry before it takes the lock, and a cancel waits *)
(* for the child outside it, so other requests run in between.  A pid is   *)
(* free as soon as its process exits, and any other process may get it.    *)
(***************************************************************************)
EXTENDS Integers, FiniteSets

CONSTANTS
    Runs,        \* run ids
    NoRun,       \* no run
    Requests,    \* server threads that serve the requests told apart
    MaxCalls,    \* bound: requests of the operator
    MaxRestarts  \* bound: deaths of the server process

ASSUME WebRunsAssumption ==
    /\ IsFiniteSet(Runs)
    /\ NoRun \notin Runs
    /\ MaxCalls \in Nat
    /\ MaxRestarts \in Nat

(* Exit codes: success, failure, SIGTERM, SIGKILL; NoCode is None.         *)
Codes  == {0, 1, -15, -9}
NoCode == 99

(* A record: its status and exit code, and whether cancel wrote its stop   *)
(* marker (stop_reason) into it.                                           *)
Record   == [status : {"absent", "running", "done", "failed"},
             code : Codes \cup {NoCode}, stopped : BOOLEAN]
NoRecord == [status |-> "absent", code |-> NoCode, stopped |-> FALSE]
Running  == [status |-> "running", code |-> NoCode, stopped |-> FALSE]

(* A request: where it is, its run, the records it loaded, whether it has  *)
(* the child's handle, and what stopping the child returned.               *)
Idle == [pc |-> "idle", run |-> NoRun, records |-> [r \in Runs |-> NoRecord],
         handle |-> FALSE, code |-> NoCode, finished |-> FALSE]
RequestPCs == {"idle", "c_handle", "c_record", "l_save",
               "k_term", "k_wait", "k_kill", "k_record"}

VARIABLES
    registry,  \* runs.json
    procs,     \* _procs: runs whose Popen handle the server holds
    child,     \* the child of each run: none, alive or exited
    code,      \* its exit code
    pid,       \* who has its pid: the child, nobody or another process
    termed,    \* runs whose child was sent SIGTERM
    request,   \* the requests in progress
    calls,     \* requests so far
    restarts,  \* deaths of the server so far
    foreign    \* history: a signal reached a process that is no child

webVars == <<registry, procs, child, code, pid, termed, request, calls,
             restarts, foreign>>
childVars == <<child, code, pid, termed>>

WebTypeOK ==
    /\ registry \in [Runs -> Record]
    /\ procs \in SUBSET Runs
    /\ child \in [Runs -> {"none", "alive", "exited"}]
    /\ code \in [Runs -> Codes \cup {NoCode}]
    /\ pid \in [Runs -> {"child", "free", "other"}]
    /\ termed \in SUBSET Runs
    /\ request \in [Requests ->
          [pc : RequestPCs, run : Runs \cup {NoRun},
           records : [Runs -> Record], handle : BOOLEAN,
           code : Codes \cup {NoCode}, finished : BOOLEAN]]
    /\ calls \in 0..MaxCalls
    /\ restarts \in 0..MaxRestarts
    /\ foreign \in BOOLEAN

WebInit ==
    /\ registry = [r \in Runs |-> NoRecord]
    /\ procs = {}
    /\ child = [r \in Runs |-> "none"]
    /\ code = [r \in Runs |-> NoCode]
    /\ pid = [r \in Runs |-> "free"]
    /\ termed = {}
    /\ request = [q \in Requests |-> Idle]
    /\ calls = 0
    /\ restarts = 0
    /\ foreign = FALSE

---------------------------------------------------------------------------
(* A request arrives at an idle thread; a step of the one being served.    *)
Call(q) ==
    /\ request[q].pc = "idle"
    /\ calls < MaxCalls
    /\ calls' = calls + 1
At(q, p) == request[q].pc = p /\ UNCHANGED calls
Goto(q, p) == request' = [request EXCEPT ![q].pc = p]
Answer(q)  == request' = [request EXCEPT ![q] = Idle]

(* Popen.poll of a handle the server holds; _poll_proc drops it.           *)
Polled(r)  == r \in procs /\ child[r] = "exited"

(* Mutant: a child ended by a signal counts as done.                       *)
SettledByPositiveCode(r) == [status |-> IF code[r] <= 0 THEN "done" ELSE "failed",
                             code |-> code[r], stopped |-> FALSE]

(* The record of a run whose child has been polled.                        *)
Settled(r) == [status |-> IF code[r] = 0 THEN "done" ELSE "failed",
               code |-> code[r], stopped |-> FALSE]

(* The child is gone and its pid with it.                                  *)
Exits(r, c) ==
    /\ child' = [child EXCEPT ![r] = "exited"]
    /\ code' = [code EXCEPT ![r] = c]
    /\ pid' = [pid EXCEPT ![r] = "free"]
    /\ UNCHANGED termed

---------------------------------------------------------------------------
(* POST /api/runs: the child is spawned, then its handle is kept, then its *)
(* record is appended.  A refused request has no effect.                   *)
CreateSpawn(q, r) ==
    /\ Call(q)
    /\ child[r] = "none"
    /\ child' = [child EXCEPT ![r] = "alive"]
    /\ pid' = [pid EXCEPT ![r] = "child"]
    /\ request' = [request EXCEPT ![q] = [Idle EXCEPT !.pc = "c_handle",
                                                      !.run = r]]
    /\ UNCHANGED <<registry, procs, code, termed, restarts, foreign>>

CreateHandle(q) ==
    /\ At(q, "c_handle")
    /\ procs' = procs \cup {request[q].run}
    /\ Goto(q, "c_record")
    /\ UNCHANGED <<registry, childVars, restarts, foreign>>

CreateRecord(q) ==
    /\ At(q, "c_record")
    /\ registry' = [registry EXCEPT ![request[q].run] = Running]
    /\ Answer(q)
    /\ UNCHANGED <<procs, childVars, restarts, foreign>>

(* GET /api/runs: the records are loaded without the lock, then settled    *)
(* and saved under it.                                                     *)
ListLoad(q) ==
    /\ Call(q)
    /\ request' = [request EXCEPT ![q] = [Idle EXCEPT !.pc = "l_save",
                                                      !.records = registry]]
    /\ UNCHANGED <<registry, procs, childVars, restarts, foreign>>

ListSave(q) ==
    LET loaded == request[q].records
        polled == {r \in Runs : loaded[r].status # "absent" /\ Polled(r)}
        settled == [r \in Runs |->
                       IF r \in polled /\ loaded[r].status = "running"
                       THEN Settled(r) ELSE loaded[r]]
    IN  /\ At(q, "l_save")
        /\ procs' = procs \ polled
        /\ registry' = IF \E r \in Runs : settled[r].status \in {"done", "failed"}
                       THEN settled ELSE registry
        /\ Answer(q)
        /\ UNCHANGED <<childVars, restarts, foreign>>

(* GET /api/runs/<id> and /events, all of it under the lock.               *)
Get(q, r) ==
    /\ Call(q)
    /\ registry[r].status # "absent"
    /\ Polled(r)
    /\ procs' = procs \ {r}
    /\ registry' = [registry EXCEPT ![r] =
                       IF @.status = "running" THEN Settled(r) ELSE @]
    /\ UNCHANGED <<request, childVars, restarts, foreign>>

---------------------------------------------------------------------------
(* Mutant: any process with the pid is taken for the child.                *)
VerifiedAlive(r) == pid[r] # "free"

(* POST /api/runs/<id>/cancel.  Without a handle the recorded pid is only  *)
(* signalled while the fingerprint stored at the spawn (start time and     *)
(* command line) matches the process behind it; a record without one is    *)
(* refused.  Reading the fingerprint and sending the signal is one step.   *)
Verified(r) == pid[r] = "child"

CancelCheck(q, r) ==
    /\ Call(q)
    /\ registry[r].status = "running"
    /\ r \in procs \/ Verified(r)
    /\ request' = [request EXCEPT ![q] = [Idle EXCEPT !.pc = "k_term",
                       !.run = r, !.handle = r \in procs]]
    /\ UNCHANGED <<registry, procs, childVars, restarts, foreign>>

(* _terminate_child.  A handle whose child has exited is not signalled.    *)
CancelTerm(q) ==
    LET r == request[q].run IN
    /\ At(q, "k_term")
    /\ \/ /\ request[q].handle /\ child[r] = "exited"
          /\ request' = [request EXCEPT ![q].pc = "k_record",
                 ![q].code = code[r], ![q].finished = TRUE]
          /\ UNCHANGED <<termed, foreign>>
       \/ /\ IF request[q].handle THEN child[r] = "alive" ELSE Verified(r)
          /\ termed' = termed \cup {r}
          /\ foreign' = (foreign \/ pid[r] = "other")
          /\ Goto(q, "k_wait")
       \/ /\ ~request[q].handle /\ ~Verified(r)
          /\ Answer(q)
          /\ UNCHANGED <<termed, foreign>>
    /\ UNCHANGED <<registry, procs, child, code, pid, restarts>>

(* The child exits within the grace period, or the period runs out; with   *)
(* no handle any process that has the pid counts as alive (_pid_alive).    *)
CancelWait(q) ==
    LET r == request[q].run
        gone == IF request[q].handle THEN child[r] = "exited"
                                     ELSE pid[r] = "free"
    IN  /\ At(q, "k_wait")
        /\ request' = [request EXCEPT
               ![q].pc = IF gone THEN "k_record" ELSE "k_kill",
               ![q].code = IF gone /\ request[q].handle THEN code[r] ELSE NoCode]
        /\ UNCHANGED <<registry, procs, childVars, restarts, foreign>>

CancelKill(q) ==
    LET r == request[q].run IN
    /\ At(q, "k_kill")
    /\ \/ /\ IF request[q].handle THEN TRUE ELSE Verified(r)
          /\ foreign' = (foreign \/ (~request[q].handle /\ pid[r] = "other"))
          /\ IF child[r] = "alive" THEN Exits(r, -9) ELSE UNCHANGED childVars
          /\ request' = [request EXCEPT ![q].pc = "k_record",
                 ![q].code = IF request[q].handle THEN code'[r] ELSE NoCode]
       \/ /\ ~request[q].handle /\ ~Verified(r)
          /\ Answer(q)
          /\ UNCHANGED <<childVars, foreign>>
    /\ UNCHANGED <<registry, procs, restarts>>

(* Mutant: the status is not looked at again.                              *)
CancelRecordUnasked(q) ==
    LET r == request[q].run
        final == IF Polled(r) THEN code[r] ELSE request[q].code
        itself == request[q].finished \/ final = 0
    IN  /\ At(q, "k_record")
        /\ procs' = IF Polled(r) THEN procs \ {r} ELSE procs
        /\ registry' = [registry EXCEPT ![r] =
              [status |-> IF final = 0 THEN "done" ELSE "failed",
               code |-> final, stopped |-> ~itself]]
        /\ Answer(q)
        /\ UNCHANGED <<childVars, restarts, foreign>>

(* The verdict: a child that ended by itself is recorded as finished, any  *)
(* other as stopped by the operator.                                       *)
CancelRecord(q) ==
    LET r == request[q].run
        final == IF Polled(r) THEN code[r] ELSE request[q].code
        itself == request[q].finished \/ final = 0
    IN  /\ At(q, "k_record")
        /\ IF registry[r].status # "running"
           THEN UNCHANGED <<registry, procs>>
           ELSE /\ procs' = IF Polled(r) THEN procs \ {r} ELSE procs
                /\ registry' = [registry EXCEPT ![r] =
                      [status |-> IF final = 0 THEN "done" ELSE "failed",
                       code |-> final, stopped |-> ~itself]]
        /\ Answer(q)
        /\ UNCHANGED <<childVars, restarts, foreign>>

---------------------------------------------------------------------------
(* The child ends by itself, or SIGTERM ends it; a free pid is given to    *)
(* another process.                                                        *)
ChildEnds(r, c) ==
    /\ child[r] = "alive"
    /\ c \in {0, 1} \cup (IF r \in termed THEN {-15} ELSE {})
    /\ Exits(r, c)
    /\ UNCHANGED <<registry, procs, request, calls, restarts, foreign>>

PidReused(r) ==
    /\ child[r] = "exited" /\ pid[r] = "free"
    /\ pid' = [pid EXCEPT ![r] = "other"]
    /\ UNCHANGED <<registry, procs, child, code, termed, request, calls,
                   restarts, foreign>>

(* The server process dies and is started again: handles and requests are  *)
(* gone, the registry and the children stay.                               *)
WebRestart ==
    /\ restarts < MaxRestarts
    /\ restarts' = restarts + 1
    /\ procs' = {}
    /\ request' = [q \in Requests |-> Idle]
    /\ UNCHANGED <<registry, childVars, calls, foreign>>

WebServes ==
    \E q \in Requests :
        \/ CreateHandle(q) \/ CreateRecord(q)
        \/ ListLoad(q) \/ ListSave(q)
        \/ CancelTerm(q) \/ CancelWait(q) \/ CancelRecord(q)
        \/ \E r \in Runs : Get(q, r) \/ CancelCheck(q, r)

---------------------------------------------------------------------------
(* A run is shown as done only if its child exited with success: whoever   *)
(* settles it - a poll, a listing that loaded older records, a cancel that *)
(* found the child finished - goes by the exit code of that child.         *)
DoneIsTruth ==
    \A r \in Runs : registry[r].status = "done"
                        => child[r] = "exited" /\ code[r] = 0

(* No child goes on behind a record that says it ended: cancel writes its  *)
(* verdict only once the child is gone, forced if need be.                 *)
SettledIsDead ==
    \A r \in Runs : registry[r].status \in {"done", "failed"}
                        => child[r] = "exited"

(* "Never signals anything but the given child" (_terminate_child), after  *)
(* restarts and although pids are given to other processes.                *)
OwnChildOnly == ~foreign

(* Only a listing that answers from records it loaded earlier ever takes a *)
(* record away or sets a settled one back; every other request leaves what *)
(* was recorded, the "durable stop marker" of a cancel included.           *)
Forgets(r) ==
    /\ registry[r].status # "absent"
    /\ registry'[r] # registry[r]
    /\ registry[r].status = "running" => registry'[r].status = "absent"
StaleListing(r) ==
    \E q \in Requests :
        /\ request[q].pc = "l_save" /\ request'[q].pc = "idle"
        /\ request[q].records[r] # registry[r]
OnlyListingsForget == [][\A r \in Runs : Forgets(r) => StaleListing(r)]_webVars
=============================================================================
