--------------------------- MODULE MCDatabaseGate ---------------------------
(* Small instances of DatabaseGate for TLC.                                *)
EXTENDS DatabaseGate

CONSTANTS handler, job, w1, w2, r1, f1

NoTasks    == {}
OneJob     == {job}
OneWorker  == {w1}
TwoWorkers == {w1, w2}
NoRows     == {}
OneRow     == {r1}
OneFile    == {f1}
=============================================================================
