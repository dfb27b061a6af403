---------------------------- MODULE DatabaseGate ----------------------------
(***************************************************************************)
(* The bot's database file: the shared/exclusive gate every connection     *)
(* passes (_MaintenanceGate, get_conn and transaction in services/db/      *)
(* schema.py), snapshots and restores (services/db/backup.py) and the      *)
(* owner's restore handler with its idempotency key (handlers/             *)
(* admin_backup.py).                                                       *)
(*                                                                         *)
(* A task is a thread while it is inside a database call: the handler of   *)
(* the current update (updates are handled one at a time), the auto-backup *)
(* job, and the workers, which are the other jobs and calls to threads.    *)
(* The gate is a condition variable: a step is what a task does between    *)
(* acquiring the condition's lock and releasing it or going to sleep.      *)
(* SQLite is external: a commit goes to the write-ahead log or, by a       *)
(* checkpoint, into the main file, and the last connection to close moves  *)
(* the log into the main file.                                             *)
(***************************************************************************)
EXTENDS Naturals, FiniteSets

CONSTANTS
    Handler,  \* the task of the update being handled
    Jobs,     \* tasks of auto_backup_job (at most one in the code)
    Workers,  \* tasks of other jobs and threads
    NoTask,   \* nobody has the gate to itself
    Rows,     \* what ordinary writes add to the database
    Files,    \* backup files
    NoFile,   \* no file was restored
    MaxTurns, \* bound: exports, and uploads of a file to restore
    MaxFaults \* bound: crashes, and failures of the write that stamps a restore

Tasks == {Handler} \cup Jobs \cup Workers

ASSUME ConstantsAssumption ==
    /\ IsFiniteSet(Tasks)
    /\ NoTask \notin Tasks
    /\ NoFile \notin Files
    /\ MaxTurns \in Nat /\ MaxFaults \in Nat

(* What a database holds: rows, the settings last_restore_sha256 and       *)
(* maintenance_mode.                                                       *)
Content == [rows : SUBSET Rows, last : Files \cup {NoFile}, maint : BOOLEAN]
Blank   == [rows |-> {}, last |-> NoFile, maint |-> FALSE]

(* The calls; those of the second set take the gate exclusively.           *)
Shared    == {"read", "write", "toggle", "get_last", "get_mode", "set_last",
              "set_mode"}
Exclusive == {"export", "import"}

PCs == {"idle",
        "s_ask", "s_sleep", "connect", "body", "release",
        "x_ask", "x_sleep", "x_woken",
        "export", "check", "copy", "replace", "unlink", "x_leave"}

VARIABLES
    readers, writer, waiting, \* the gate
    pc,       \* where each task is
    op,       \* the call of each task; once its body has run, the next one
    conn,     \* the connection of each task: to the file, or to a replaced one
    live,     \* the committed content of the database
    disk,     \* its main file alone; the log holds the difference
    backup,   \* the .pre_restore copy
    made,     \* backup files that exist
    image,    \* and what is in them
    upload,   \* locals of the restore handler: the file,
    was,      \*   was_maintenance,
    told,     \*   what it is about to report
    acked,    \* history: rows a database that lost nothing has
    applied,  \* history: the file restored last
    replaced, \* history: replacements of the file
    turns, faults \* counters

gate     == <<readers, writer, waiting>>
sqlite   == <<live, disk, conn, acked>>
exports  == <<made, image>>
restore  == <<upload, was, told>>
replaces == <<backup, applied, replaced>>
vars     == <<gate, pc, op, sqlite, exports, restore, replaces, turns, faults>>

-----------------------------------------------------------------------------
(* SQLite                                                                  *)

(* The commit of a task whose connection is to the file; that of one whose *)
(* file was replaced reaches no database anybody opens again.              *)
Commit(t, c) ==
    \/ conn[t] = "file" /\ live' = c /\ disk' \in {disk, c}
    \/ conn[t] = "old"  /\ UNCHANGED <<live, disk>>

(* Closing the last connection to the file checkpoints the log.            *)
Close(t) ==
    /\ conn' = [conn EXCEPT ![t] = "none"]
    /\ disk' = IF conn[t] = "file" /\ \A u \in Tasks \ {t} : conn[u] # "file"
               THEN live ELSE disk
    /\ UNCHANGED <<live, acked>>

-----------------------------------------------------------------------------
(* The gate                                                                *)

(* Mutant: a call goes ahead although a writer waits.                      *)
SharedBusyWriter == writer # NoTask

(* Mutant: a call only gives way to a writer that waits.                   *)
SharedBusyWaiting == waiting

(* Mutant: the connections that are open are forgotten.                    *)
ExclusiveBusyWriter == writer # NoTask

SharedBusy == writer # NoTask \/ waiting
ExclusiveBusy == writer # NoTask \/ readers > 0

Goto(t, l) == pc' = [pc EXCEPT ![t] = l]

(* Where a call starts.                                                    *)
Entry(o) == IF o \in Shared THEN "s_ask"
            ELSE IF o \in Exclusive THEN "x_ask" ELSE "idle"

(* The first step inside the exclusive hold.                               *)
Inner(o) == IF o = "export" THEN "export" ELSE "check"

Woken(l) == IF l = "s_sleep" THEN "s_ask"
            ELSE IF l = "x_sleep" THEN "x_woken" ELSE l

(* t goes on to its next call, and all sleepers wake if it notifies them.  *)
Leave(t, notify) ==
    pc' = [u \in Tasks |->
              IF u = t THEN Entry(op[t])
              ELSE IF notify THEN Woken(pc[u]) ELSE pc[u]]

SharedEnter(t) ==
    /\ pc[t] = "s_ask"
    /\ \/ SharedBusy /\ Goto(t, "s_sleep") /\ UNCHANGED readers
       \/ ~SharedBusy /\ Goto(t, "connect") /\ readers' = readers + 1
    /\ UNCHANGED <<writer, waiting, op, sqlite, exports, restore, replaces,
                   turns, faults>>

(* The flag is raised on arrival, and not again by a writer that wakes.    *)
ExclusiveEnter(t) ==
    /\ pc[t] \in {"x_ask", "x_woken"}
    /\ \/ /\ ExclusiveBusy
          /\ waiting' = (waiting \/ pc[t] = "x_ask")
          /\ Goto(t, "x_sleep")
          /\ UNCHANGED writer
       \/ /\ ~ExclusiveBusy
          /\ writer' = t
          /\ waiting' = FALSE
          /\ Goto(t, Inner(op[t]))
    /\ UNCHANGED <<readers, op, sqlite, exports, restore, replaces, turns,
                   faults>>

ExclusiveLeave(t) ==
    /\ pc[t] = "x_leave"
    /\ writer' = NoTask
    /\ Leave(t, TRUE)
    /\ UNCHANGED <<readers, waiting, op, sqlite, exports, restore, replaces,
                   turns, faults>>

Connect(t) ==
    /\ pc[t] = "connect"
    /\ conn' = [conn EXCEPT ![t] = "file"]
    /\ Goto(t, "body")
    /\ UNCHANGED <<gate, op, live, disk, acked, exports, restore, replaces,
                   turns, faults>>

(* conn.close, then the way out of the gate.                               *)
Release(t) ==
    /\ pc[t] = "release"
    /\ Close(t)
    /\ readers' = readers - 1
    /\ Leave(t, readers' = 0)
    /\ UNCHANGED <<writer, waiting, op, exports, restore, replaces, turns,
                   faults>>

-----------------------------------------------------------------------------
(* The bodies of shared calls                                              *)

(* A body ends; o is the call that follows.                                *)
Body(t, o, next) ==
    /\ pc[t] = "body"
    /\ op[t] = o
    /\ Goto(t, "release")
    /\ op' = [op EXCEPT ![t] = next]
    /\ UNCHANGED <<gate, conn, exports, replaces, turns>>

(* A read, or any body that raises: transaction rolls back, and the        *)
(* restore handler reports a failure.                                      *)
Rollback(t) ==
    /\ Body(t, op[t], "none")
    /\ IF op[t] = "set_last"
       THEN faults < MaxFaults /\ faults' = faults + 1
       ELSE UNCHANGED faults
    /\ UNCHANGED <<live, disk, acked, restore>>

Write(t) ==
    /\ Body(t, "write", "none")
    /\ \E r \in Rows \ live.rows :
          /\ Commit(t, [live EXCEPT !.rows = @ \cup {r}])
          /\ acked' = acked \cup {r}
    /\ UNCHANGED <<restore, faults>>

(* The owner switches maintenance mode in the panel.                       *)
Toggle(t) ==
    /\ Body(t, "toggle", "none")
    /\ Commit(t, [live EXCEPT !.maint = ~@])
    /\ UNCHANGED <<acked, restore, faults>>

-----------------------------------------------------------------------------
(* The restore handler                                                     *)

(* Is this the file that was applied last?                                 *)
GetLast(t) ==
    /\ \/ /\ live.last = upload
          /\ Body(t, "get_last", "none")
          /\ told' = "already"
       \/ /\ live.last # upload
          /\ Body(t, "get_last", "get_mode")
          /\ UNCHANGED told
    /\ UNCHANGED <<live, disk, acked, upload, was, faults>>

GetMode(t) ==
    /\ Body(t, "get_mode", "import")
    /\ was' = live.maint
    /\ UNCHANGED <<live, disk, acked, upload, told, faults>>

SetLast(t) ==
    /\ Body(t, "set_last", "set_mode")
    /\ Commit(t, [live EXCEPT !.last = upload])
    /\ UNCHANGED <<acked, restore, faults>>

(* Mutant: a restore ends with maintenance mode off.                       *)
SetModeOff(t) ==
    /\ Body(t, "set_mode", "none")
    /\ Commit(t, [live EXCEPT !.maint = FALSE])
    /\ told' = "restored"
    /\ UNCHANGED <<acked, upload, was, faults>>

SetMode(t) ==
    /\ Body(t, "set_mode", "none")
    /\ Commit(t, [live EXCEPT !.maint = was])
    /\ told' = "restored"
    /\ UNCHANGED <<acked, upload, was, faults>>

-----------------------------------------------------------------------------
(* The bodies of exclusive calls                                           *)

(* export_db_bytes; its own connection is the only one, so closing it      *)
(* checkpoints.  The file may be kept (in the archive chat, or on disk) or *)
(* not, when a step of it fails.                                           *)
Export(t) ==
    /\ pc[t] = "export"
    /\ \/ UNCHANGED exports
       \/ \E f \in Files \ made :
             /\ made' = made \cup {f}
             /\ image' = [image EXCEPT ![f] = live]
    /\ disk' = live
    /\ op' = [op EXCEPT ![t] = "none"]
    /\ Goto(t, "x_leave")
    /\ UNCHANGED <<gate, live, conn, acked, restore, replaces, turns, faults>>

(* A step of import_db_bytes that goes on to l, or raises: nothing is      *)
(* replaced and the handler reports a failure.                             *)
ImportStep(t, from, l) ==
    /\ pc[t] = from
    /\ \/ Goto(t, l) /\ UNCHANGED op
       \/ Goto(t, "x_leave") /\ op' = [op EXCEPT ![t] = "none"]
    /\ UNCHANGED <<gate, sqlite, exports, restore, applied, replaced, turns,
                   faults>>

(* The candidate is written beside the database, checked and migrated.     *)
ImportCheck(t) == ImportStep(t, "check", "copy") /\ UNCHANGED backup

(* Mutant: an older copy is kept.                                          *)
ImportCopyOnce(t) ==
    /\ ImportStep(t, "copy", "replace")
    /\ backup' = IF backup = Blank THEN disk ELSE backup

(* shutil.copy2 of the main file; if it fails the copy may be cut short.   *)
ImportCopy(t) ==
    /\ ImportStep(t, "copy", "replace")
    /\ IF op' = op THEN backup' = disk ELSE backup' \in {backup, Blank, disk}

(* os.replace; a log that is still there would be read with the new file.  *)
ImportReplace(t) ==
    /\ pc[t] = "replace"
    /\ disk' = image[upload]
    /\ live' = IF live = disk THEN image[upload] ELSE live
    /\ conn' = [u \in Tasks |-> IF conn[u] = "file" THEN "old" ELSE conn[u]]
    /\ acked' = image[upload].rows
    /\ applied' = upload
    /\ replaced' = replaced + 1
    /\ Goto(t, "unlink")
    /\ UNCHANGED <<gate, op, exports, restore, backup, turns, faults>>

ReplaceFails(t) ==
    /\ pc[t] = "replace"
    /\ Goto(t, "x_leave")
    /\ op' = [op EXCEPT ![t] = "none"]
    /\ UNCHANGED <<gate, sqlite, exports, restore, replaces, turns, faults>>

(* The old -wal and -shm files go; that they cannot be removed is logged.  *)
ImportUnlink(t) ==
    /\ pc[t] = "unlink"
    /\ live' \in {live, disk}
    /\ op' = [op EXCEPT ![t] = "set_last"]
    /\ Goto(t, "x_leave")
    /\ UNCHANGED <<gate, disk, conn, acked, exports, restore, replaces, turns,
                   faults>>

-----------------------------------------------------------------------------
(* Calls start, the process dies                                           *)

Begin(t, o) ==
    /\ pc[t] = "idle"
    /\ op' = [op EXCEPT ![t] = o]
    /\ Goto(t, Entry(o))
    /\ UNCHANGED <<gate, sqlite, exports, was, replaces, faults>>

(* Ordinary calls of workers and handlers; the handler also runs the       *)
(* maintenance switch.                                                     *)
Call(t) ==
    /\ \/ t \in Workers \cup {Handler} /\ \E o \in {"read", "write"} : Begin(t, o)
       \/ t = Handler /\ Begin(t, "toggle")
    /\ told' = IF t = Handler THEN "nothing" ELSE told
    /\ UNCHANGED <<upload, turns>>

(* auto_backup_job, or the owner's /backup.                                *)
Backup(t) ==
    /\ t \in Jobs \cup {Handler}
    /\ turns < MaxTurns
    /\ Begin(t, "export")
    /\ told' = IF t = Handler THEN "nothing" ELSE told
    /\ turns' = turns + 1
    /\ UNCHANGED upload

(* The owner uploads a backup file.                                        *)
Upload(f) ==
    /\ f \in made
    /\ turns < MaxTurns
    /\ Begin(Handler, "get_last")
    /\ upload' = f
    /\ told' = "nothing"
    /\ turns' = turns + 1

(* The process dies; at the next start init_db opens and closes the        *)
(* database, which takes the log into the main file.                       *)
Crash ==
    /\ faults < MaxFaults
    /\ faults' = faults + 1
    /\ readers' = 0 /\ writer' = NoTask /\ waiting' = FALSE
    /\ pc' = [t \in Tasks |-> "idle"]
    /\ op' = [t \in Tasks |-> "none"]
    /\ conn' = [t \in Tasks |-> "none"]
    /\ disk' = live
    /\ told' = "nothing"
    /\ UNCHANGED <<live, acked, exports, upload, was, replaces, turns>>

-----------------------------------------------------------------------------

Init ==
    /\ readers = 0 /\ writer = NoTask /\ waiting = FALSE
    /\ pc = [t \in Tasks |-> "idle"]
    /\ op = [t \in Tasks |-> "none"]
    /\ conn = [t \in Tasks |-> "none"]
    /\ live = Blank /\ disk = Blank /\ backup = Blank
    /\ made = {} /\ image = [f \in Files |-> Blank]
    /\ upload = NoFile /\ was = FALSE /\ told = "nothing"
    /\ acked = {} /\ applied = NoFile /\ replaced = 0
    /\ turns = 0 /\ faults = 0

(* What a task does inside a call.                                         *)
Step(t) ==
    \/ SharedEnter(t) \/ ExclusiveEnter(t) \/ ExclusiveLeave(t)
    \/ Connect(t) \/ Release(t)
    \/ Rollback(t) \/ Write(t) \/ Toggle(t)
    \/ GetLast(t) \/ GetMode(t) \/ SetLast(t) \/ SetMode(t)
    \/ Export(t)
    \/ ImportCheck(t) \/ ImportCopy(t) \/ ImportReplace(t) \/ ReplaceFails(t)
    \/ ImportUnlink(t)

Next ==
    \/ \E t \in Tasks : Step(t) \/ Call(t) \/ Backup(t)
    \/ \E f \in Files : Upload(f)
    \/ Crash

Spec == Init /\ [][Next]_vars

(* Threads are scheduled, statements end (by their busy time-out at the    *)
(* latest), and copies of files end; nobody has to make a call.            *)
FairSpec == Spec /\ \A t \in Tasks : WF_vars(Step(t))

-----------------------------------------------------------------------------
(* Properties                                                              *)

TypeOK ==
    /\ readers \in Nat
    /\ writer \in Tasks \cup {NoTask}
    /\ waiting \in BOOLEAN
    /\ pc \in [Tasks -> PCs]
    /\ op \in [Tasks -> Shared \cup Exclusive \cup {"none"}]
    /\ conn \in [Tasks -> {"none", "file", "old"}]
    /\ live \in Content /\ disk \in Content /\ backup \in Content
    /\ made \subseteq Files
    /\ image \in [Files -> Content]
    /\ upload \in Files \cup {NoFile}
    /\ was \in BOOLEAN
    /\ told \in {"nothing", "already", "restored"}
    /\ acked \subseteq Rows
    /\ applied \in Files \cup {NoFile}
    /\ replaced \in Nat /\ turns \in 0..MaxTurns /\ faults \in 0..MaxFaults

(* While a task has the gate to itself, nobody has a connection open.  The *)
(* gate counts holders and checks the count and the owner at four places   *)
(* (_MaintenanceGate.shared and exclusive).                                *)
GateExclusive == writer # NoTask => \A t \in Tasks : conn[t] = "none"

(* The database holds exactly what was committed to it since it was last   *)
(* replaced, and what the restored file held: no commit goes to a file     *)
(* that has been replaced, and no log is read with the wrong file          *)
(* (os.replace and the removal of the sidecars in import_db_bytes).        *)
NothingLost == live.rows = acked

(* Whenever the file is replaced, .pre_restore holds all that was          *)
(* committed, although copy2 copies the main file and not the log.         *)
ReplacedIsCopied == [][replaced' # replaced => backup = live]_vars

(* Without a crash, or a failed stamp, what the owner is told is so: a     *)
(* file that counts as applied is the last one applied, and a restore      *)
(* leaves maintenance mode as it was (_handle_restore_doc_locked).         *)
ReportsAreTrue ==
    faults = 0 =>
        /\ told = "already" => applied = upload
        /\ told = "restored" => live.last = upload /\ live.maint = was

WaitsShared(t)    == pc[t] \in {"s_ask", "s_sleep"}
WaitsExclusive(t) == pc[t] \in {"x_ask", "x_sleep", "x_woken"}

(* A backup or restore that waits for the gate gets it, however many calls *)
(* arrive meanwhile (_writer_waiting).                                     *)
ExclusiveGranted == \A t \in Tasks : WaitsExclusive(t) ~> ~WaitsExclusive(t)

(* Whoever waits for the gate gets it: no wake-up is lost, and the flag of *)
(* a waiting writer neither lets it starve nor stays up without one        *)
(* (_MaintenanceGate.shared and exclusive).                                *)
EverybodyEnters ==
    /\ ExclusiveGranted
    /\ \A t \in Tasks : WaitsShared(t) ~> ~WaitsShared(t)
=============================================================================
