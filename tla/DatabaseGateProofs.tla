------------------------- MODULE DatabaseGateProofs -------------------------
(* The database gate is exclusive, and so a restore loses nothing but what *)
(* it means to replace and reports what it did, whatever the tasks, rows   *)
(* and files.                                                              *)
EXTENDS DatabaseGate, FiniteSetTheorems, TLAPS

(* The calls of the restore handler.                                       *)
Restoring == {"get_last", "get_mode", "import", "set_last", "set_mode"}

(* A task is at a place of the call it is in, and only the handler, with a *)
(* file at hand, restores.                                                 *)
OpsFit ==
    \A t \in Tasks :
        /\ pc[t] = "idle" => op[t] = "none"
        /\ pc[t] \in {"s_ask", "s_sleep", "connect", "body"} => op[t] \in Shared
        /\ pc[t] \in {"x_ask", "x_sleep", "x_woken"} => op[t] \in Exclusive
        /\ pc[t] = "export" => op[t] = "export"
        /\ pc[t] \in {"check", "copy", "replace", "unlink"} => op[t] = "import"
        /\ op[t] \in Restoring => t = Handler /\ upload \in Files

TypeInv == TypeOK /\ OpsFit

Holders == {t \in Tasks : pc[t] \in {"connect", "body", "release"}}
Held    == {"export", "check", "copy", "replace", "unlink", "x_leave"}

(* The counter counts the holders, the owner is the task in an exclusive   *)
(* hold, and there is nobody else; connections are open inside holds.      *)
GateInv ==
    /\ readers = Cardinality(Holders)
    /\ \A t \in Tasks : writer = t <=> pc[t] \in Held
    /\ writer # NoTask => Holders = {}
    /\ \A t \in Tasks :
          conn[t] = IF pc[t] \in {"body", "release"} THEN "file" ELSE "none"

(* Without open connections the main file is complete; a restore that is   *)
(* about to replace it has copied it; nothing is lost.                     *)
DataInv ==
    /\ (\A t \in Tasks : conn[t] = "none") => disk = live
    /\ \A t \in Tasks : pc[t] = "replace" => backup = disk
    /\ NothingLost

-----------------------------------------------------------------------------
(* Types                                                                   *)

LEMMA GotoMoves ==
    ASSUME TypeOK, NEW t \in Tasks, NEW l \in PCs, Goto(t, l)
    PROVE  /\ pc' \in [Tasks -> PCs]
           /\ \A u \in Tasks : pc'[u] = IF u = t THEN l ELSE pc[u]
BY DEF TypeOK, Goto

LEMMA CallsHavePlaces ==
    ASSUME NEW o \in Shared \cup Exclusive \cup {"none"}
    PROVE  /\ Entry(o) = IF o \in Shared THEN "s_ask"
                         ELSE IF o \in Exclusive THEN "x_ask" ELSE "idle"
           /\ Entry(o) \in {"s_ask", "x_ask", "idle"}
           /\ Entry(o) \in PCs
           /\ Inner(o) \in {"export", "check"} /\ Inner(o) \in PCs
           /\ o \in Exclusive /\ Inner(o) = "check" => o = "import"
           /\ Inner(o) = "export" => o = "export"
BY DEF Entry, Inner, Shared, Exclusive, PCs

LEMMA LeaveMoves ==
    ASSUME TypeOK, NEW t \in Tasks, NEW n \in BOOLEAN, Leave(t, n)
    PROVE  /\ pc' \in [Tasks -> PCs]
           /\ pc'[t] = Entry(op[t])
           /\ pc'[t] \in {"s_ask", "x_ask", "idle"}
           /\ \A u \in Tasks : u # t =>
                \/ pc'[u] = pc[u]
                \/ pc[u] = "s_sleep" /\ pc'[u] = "s_ask"
                \/ pc[u] = "x_sleep" /\ pc'[u] = "x_woken"
<1>1. op[t] \in Shared \cup Exclusive \cup {"none"}
  BY DEF TypeOK
<1>2. \A u \in Tasks : pc[u] \in PCs
  BY DEF TypeOK
<1>3. \A u \in Tasks :
        /\ Woken(pc[u]) \in PCs
        /\ \/ Woken(pc[u]) = pc[u]
           \/ pc[u] = "s_sleep" /\ Woken(pc[u]) = "s_ask"
           \/ pc[u] = "x_sleep" /\ Woken(pc[u]) = "x_woken"
  BY <1>2 DEF Woken, PCs
<1>4. QED
  BY <1>1, <1>2, <1>3, CallsHavePlaces DEF Leave

(* A step that only moves t along inside its call.                         *)
LEMMA MoveFits ==
    ASSUME TypeInv, NEW t \in Tasks, NEW l \in PCs, Goto(t, l),
           op' = op, upload' = upload,
           l \in {"s_ask", "s_sleep", "connect", "body"} => op[t] \in Shared,
           l \in {"x_ask", "x_sleep", "x_woken"} => op[t] \in Exclusive,
           l = "export" => op[t] = "export",
           l \in {"check", "copy", "replace", "unlink"} => op[t] = "import",
           l = "idle" => op[t] = "none"
    PROVE  OpsFit'
<1>1. \A u \in Tasks : pc'[u] = IF u = t THEN l ELSE pc[u]
  BY GotoMoves DEF TypeInv
<1>2. QED
  BY <1>1 DEF TypeInv, OpsFit

(* A step that ends a body and goes on to call o.                          *)
LEMMA EndFits ==
    ASSUME TypeInv, NEW t \in Tasks, NEW l \in {"release", "x_leave"}, Goto(t, l),
           NEW o \in Shared \cup Exclusive \cup {"none"},
           op' = [op EXCEPT ![t] = o], upload' = upload,
           o \in Restoring => t = Handler /\ upload \in Files
    PROVE  OpsFit' /\ pc' \in [Tasks -> PCs]
           /\ op' \in [Tasks -> Shared \cup Exclusive \cup {"none"}]
<1>1. /\ \A u \in Tasks : pc'[u] = IF u = t THEN l ELSE pc[u]
      /\ pc' \in [Tasks -> PCs]
  BY GotoMoves DEF TypeInv, PCs
<1>2. /\ \A u \in Tasks : op'[u] = IF u = t THEN o ELSE op[u]
      /\ op' \in [Tasks -> Shared \cup Exclusive \cup {"none"}]
  BY DEF TypeInv, TypeOK
<1>3. QED
  BY <1>1, <1>2 DEF TypeInv, OpsFit

(* A step on the way out of the gate.                                      *)
LEMMA LeaveFits ==
    ASSUME TypeInv, NEW t \in Tasks, NEW n \in BOOLEAN, Leave(t, n),
           op' = op, upload' = upload
    PROVE  OpsFit' /\ pc' \in [Tasks -> PCs]
<1>1. /\ pc' \in [Tasks -> PCs]
      /\ pc'[t] = Entry(op[t])
      /\ \A u \in Tasks : u # t =>
            \/ pc'[u] = pc[u]
            \/ pc[u] = "s_sleep" /\ pc'[u] = "s_ask"
            \/ pc[u] = "x_sleep" /\ pc'[u] = "x_woken"
  BY LeaveMoves DEF TypeInv
<1>2. op[t] \in Shared \cup Exclusive \cup {"none"}
  BY DEF TypeInv, TypeOK
<1>3. QED
  BY <1>1, <1>2, CallsHavePlaces DEF TypeInv, OpsFit

(* A step that ends a body has the type of a call.                         *)
LEMMA BodyFits ==
    ASSUME TypeInv, NEW t \in Tasks, NEW o, 
           NEW next \in Shared \cup Exclusive \cup {"none"},
           Body(t, o, next), upload' = upload,
           next \in Restoring => o \in Restoring
    PROVE  OpsFit' /\ pc' \in [Tasks -> PCs]
           /\ op' \in [Tasks -> Shared \cup Exclusive \cup {"none"}]
<1>1. next \in Restoring => t = Handler /\ upload \in Files
  BY DEF Body, TypeInv, OpsFit
<1>2. QED
  BY <1>1, EndFits DEF Body

LEMMA BeginFits ==
    ASSUME TypeInv, NEW t \in Tasks, NEW o \in Shared \cup Exclusive, Begin(t, o),
           \/ upload' = upload /\ o \notin Restoring
           \/ t = Handler /\ upload' \in Files
    PROVE  OpsFit' /\ pc' \in [Tasks -> PCs]
           /\ op' \in [Tasks -> Shared \cup Exclusive \cup {"none"}]
<1>1. /\ \A u \in Tasks : pc'[u] = IF u = t THEN Entry(o) ELSE pc[u]
      /\ pc' \in [Tasks -> PCs]
  BY GotoMoves, CallsHavePlaces DEF TypeInv, Begin
<1>2. /\ \A u \in Tasks : op'[u] = IF u = t THEN o ELSE op[u]
      /\ op' \in [Tasks -> Shared \cup Exclusive \cup {"none"}]
  BY DEF TypeInv, TypeOK, Begin
<1>3. o \in Shared \/ o \in Exclusive
  OBVIOUS
<1>4. /\ Entry(o) \in {"s_ask", "x_ask"}
      /\ Entry(o) = "s_ask" <=> o \in Shared
  BY CallsHavePlaces
<1>5. /\ \A u \in Tasks : op[u] \in Restoring => u = Handler
      /\ pc[t] = "idle" /\ op[t] = "none" /\ "none" \notin Restoring
  BY DEF TypeInv, OpsFit, Begin, Restoring
<1>6. \A u \in Tasks : op'[u] \in Restoring => u = Handler /\ upload' \in Files
  BY <1>2, <1>5 DEF TypeInv, OpsFit
<1>7. QED
  BY <1>1, <1>2, <1>3, <1>4, <1>6 DEF TypeInv, OpsFit

(* What a commit may do to the two contents.                               *)
LEMMA CommitFits ==
    ASSUME live \in Content, disk \in Content, NEW t, NEW c \in Content, Commit(t, c)
    PROVE  live' \in Content /\ disk' \in Content
BY DEF Commit

(* Every step keeps the types; that the counter stays a number is shown    *)
(* with the gate.                                                          *)
LEMMA TypeStep ==
    ASSUME ConstantsAssumption, TypeInv, [Next]_vars, readers' \in Nat
    PROVE  TypeInv'
<1>1. TypeInv
  OBVIOUS
<1> USE DEF gate, sqlite, exports, restore, replaces
<1>2. /\ TypeOK /\ OpsFit
      /\ Handler \in Tasks /\ NoTask \notin Tasks
      /\ live \in Content /\ disk \in Content /\ backup \in Content
      /\ Blank \in Content
  BY <1>1 DEF TypeInv, TypeOK, Tasks, Content, Blank
<1>3. ASSUME NEW t \in Tasks, SharedEnter(t) PROVE TypeInv'
  <2>1. op[t] \in Shared
    BY <1>2, <1>3 DEF OpsFit, SharedEnter
  <2>2. \E l \in {"s_sleep", "connect"} : Goto(t, l)
    BY <1>3 DEF SharedEnter
  <2>3. OpsFit' /\ pc' \in [Tasks -> PCs]
    BY <1>1, <1>2, <1>3, <2>1, <2>2, MoveFits, GotoMoves DEF SharedEnter, PCs
  <2>4. QED
    BY <1>2, <1>3, <2>3 DEF TypeInv, TypeOK, SharedEnter
<1>4. ASSUME NEW t \in Tasks, ExclusiveEnter(t) PROVE TypeInv'
  <2>1. op[t] \in Exclusive
    BY <1>2, <1>4 DEF OpsFit, ExclusiveEnter
  <2>2. \/ Goto(t, "x_sleep")
        \/ Goto(t, Inner(op[t]))
    BY <1>4 DEF ExclusiveEnter
  <2>3. OpsFit' /\ pc' \in [Tasks -> PCs]
    <3>1. CASE Goto(t, "x_sleep")
      BY <1>1, <1>2, <1>4, <2>1, <3>1, MoveFits, GotoMoves DEF ExclusiveEnter, PCs
    <3>2. CASE Goto(t, Inner(op[t]))
      BY <1>1, <1>2, <1>4, <2>1, <3>2, MoveFits, GotoMoves, CallsHavePlaces
         DEF ExclusiveEnter
    <3>3. QED
      BY <2>2, <3>1, <3>2
  <2>4. QED
    BY <1>2, <1>4, <2>3 DEF TypeInv, TypeOK, ExclusiveEnter
<1>5. ASSUME NEW t \in Tasks, ExclusiveLeave(t) PROVE TypeInv'
  <2>1. OpsFit' /\ pc' \in [Tasks -> PCs]
    BY <1>1, <1>5, LeaveFits DEF ExclusiveLeave
  <2>2. QED
    BY <1>2, <1>5, <2>1 DEF TypeInv, TypeOK, ExclusiveLeave
<1>6. ASSUME NEW t \in Tasks, Connect(t) PROVE TypeInv'
  <2>1. OpsFit' /\ pc' \in [Tasks -> PCs]
    BY <1>1, <1>2, <1>6, MoveFits, GotoMoves DEF OpsFit, Connect, PCs
  <2>2. QED
    BY <1>2, <1>6, <2>1 DEF TypeInv, TypeOK, Connect
<1>7. ASSUME NEW t \in Tasks, Release(t) PROVE TypeInv'
  <2>1. OpsFit' /\ pc' \in [Tasks -> PCs]
    <3>1. (readers' = 0) \in BOOLEAN
      OBVIOUS
    <3>2. QED
      BY <1>1, <1>7, <3>1, LeaveFits DEF Release
  <2>2. conn' \in [Tasks -> {"none", "file", "old"}] /\ disk' \in Content /\ live' = live
    BY <1>2, <1>7 DEF TypeOK, Release, Close
  <2>3. QED
    BY <1>2, <1>7, <2>1, <2>2 DEF TypeInv, TypeOK, Release, Close
<1>8. ASSUME NEW t \in Tasks, Rollback(t) PROVE TypeInv'
  <2>1. /\ OpsFit' /\ pc' \in [Tasks -> PCs]
        /\ op' \in [Tasks -> Shared \cup Exclusive \cup {"none"}]
    BY <1>1, <1>8, BodyFits DEF Rollback, Restoring
  <2>2. faults' \in 0..MaxFaults
    BY <1>2, <1>8 DEF TypeOK, Rollback, ConstantsAssumption
  <2>3. QED
    BY <1>2, <1>8, <2>1, <2>2 DEF TypeInv, TypeOK, Rollback, Body
<1>9. ASSUME NEW t \in Tasks, Write(t) PROVE TypeInv'
  <2>1. /\ OpsFit' /\ pc' \in [Tasks -> PCs]
        /\ op' \in [Tasks -> Shared \cup Exclusive \cup {"none"}]
    BY <1>1, <1>9, BodyFits DEF Write, Restoring
  <2>2. PICK r \in Rows : /\ Commit(t, [live EXCEPT !.rows = @ \cup {r}])
                          /\ acked' = acked \cup {r}
    BY <1>9 DEF Write
  <2>3. [live EXCEPT !.rows = @ \cup {r}] \in Content
    BY <1>2 DEF Content
  <2>4. live' \in Content /\ disk' \in Content
    BY <1>2, <2>2, <2>3, CommitFits
  <2>5. acked' \subseteq Rows
    BY <1>2, <2>2 DEF TypeOK
  <2>6. QED
    BY <1>2, <1>9, <2>1, <2>4, <2>5 DEF TypeInv, TypeOK, Write, Body
<1>10. ASSUME NEW t \in Tasks, Toggle(t) PROVE TypeInv'
  <2>1. /\ OpsFit' /\ pc' \in [Tasks -> PCs]
        /\ op' \in [Tasks -> Shared \cup Exclusive \cup {"none"}]
    BY <1>1, <1>10, BodyFits DEF Toggle, Restoring
  <2>2. [live EXCEPT !.maint = ~@] \in Content
    BY <1>2 DEF Content
  <2>3. live' \in Content /\ disk' \in Content
    BY <1>2, <1>10, <2>2, CommitFits DEF Toggle
  <2>4. QED
    BY <1>2, <1>10, <2>1, <2>3 DEF TypeInv, TypeOK, Toggle, Body
<1>11. ASSUME NEW t \in Tasks, GetLast(t) PROVE TypeInv'
  <2>1. /\ OpsFit' /\ pc' \in [Tasks -> PCs]
        /\ op' \in [Tasks -> Shared \cup Exclusive \cup {"none"}]
        /\ told' \in {"nothing", "already", "restored"}
    <3>1. PICK next \in {"none", "get_mode"} : Body(t, "get_last", next)
      BY <1>11 DEF GetLast
    <3>2. next \in Shared \cup Exclusive \cup {"none"} /\ "get_last" \in Restoring
      BY DEF Shared, Restoring
    <3>3. QED
      BY <1>1, <1>2, <1>11, <3>1, <3>2, BodyFits DEF GetLast, TypeOK
  <2>2. QED
    BY <1>2, <1>11, <2>1 DEF TypeInv, TypeOK, GetLast, Body
<1>12. ASSUME NEW t \in Tasks, GetMode(t) PROVE TypeInv'
  <2>1. /\ OpsFit' /\ pc' \in [Tasks -> PCs]
        /\ op' \in [Tasks -> Shared \cup Exclusive \cup {"none"}]
    <3>1. "import" \in Shared \cup Exclusive \cup {"none"} /\ "get_mode" \in Restoring
      BY DEF Exclusive, Restoring
    <3>2. QED
      BY <1>1, <1>12, <3>1, BodyFits DEF GetMode
  <2>2. live.maint \in BOOLEAN
    BY <1>2 DEF Content
  <2>3. QED
    BY <1>2, <1>12, <2>1, <2>2 DEF TypeInv, TypeOK, GetMode, Body
<1>13. ASSUME NEW t \in Tasks, SetLast(t) PROVE TypeInv'
  <2>1. /\ OpsFit' /\ pc' \in [Tasks -> PCs]
        /\ op' \in [Tasks -> Shared \cup Exclusive \cup {"none"}]
    <3>1. "set_mode" \in Shared \cup Exclusive \cup {"none"} /\ "set_last" \in Restoring
      BY DEF Shared, Restoring
    <3>2. QED
      BY <1>1, <1>13, <3>1, BodyFits DEF SetLast
  <2>2. [live EXCEPT !.last = upload] \in Content
    BY <1>2 DEF Content, TypeOK
  <2>3. live' \in Content /\ disk' \in Content
    BY <1>2, <1>13, <2>2, CommitFits DEF SetLast
  <2>4. QED
    BY <1>2, <1>13, <2>1, <2>3 DEF TypeInv, TypeOK, SetLast, Body
<1>14. ASSUME NEW t \in Tasks, SetMode(t) PROVE TypeInv'
  <2>1. /\ OpsFit' /\ pc' \in [Tasks -> PCs]
        /\ op' \in [Tasks -> Shared \cup Exclusive \cup {"none"}]
    BY <1>1, <1>14, BodyFits DEF SetMode, Restoring
  <2>2. [live EXCEPT !.maint = was] \in Content
    BY <1>2 DEF Content, TypeOK
  <2>3. live' \in Content /\ disk' \in Content
    BY <1>2, <1>14, <2>2, CommitFits DEF SetMode
  <2>4. QED
    BY <1>2, <1>14, <2>1, <2>3 DEF TypeInv, TypeOK, SetMode, Body
<1>15. ASSUME NEW t \in Tasks, Export(t) PROVE TypeInv'
  <2>1. /\ OpsFit' /\ pc' \in [Tasks -> PCs]
        /\ op' \in [Tasks -> Shared \cup Exclusive \cup {"none"}]
    BY <1>1, <1>15, EndFits DEF Export, Restoring
  <2>2. made' \subseteq Files /\ image' \in [Files -> Content]
    BY <1>2, <1>15 DEF TypeOK, Export
  <2>3. QED
    BY <1>2, <1>15, <2>1, <2>2 DEF TypeInv, TypeOK, Export
<1>16. ASSUME NEW t \in Tasks, NEW from \in {"check", "copy"},
              NEW l \in {"copy", "replace"},
              ImportStep(t, from, l), backup' \in Content
       PROVE TypeInv'
  <2>1. /\ OpsFit' /\ pc' \in [Tasks -> PCs]
        /\ op' \in [Tasks -> Shared \cup Exclusive \cup {"none"}]
    <3>1. CASE Goto(t, l) /\ UNCHANGED op
      BY <1>1, <1>2, <1>16, <3>1, MoveFits, GotoMoves DEF OpsFit, TypeOK, ImportStep, PCs
    <3>2. CASE Goto(t, "x_leave") /\ op' = [op EXCEPT ![t] = "none"]
      BY <1>1, <1>16, <3>2, EndFits DEF ImportStep, Restoring
    <3>3. QED
      BY <1>16, <3>1, <3>2 DEF ImportStep
  <2>2. QED
    BY <1>2, <1>16, <2>1 DEF TypeInv, TypeOK, ImportStep
<1>17. ASSUME NEW t \in Tasks, ImportReplace(t) PROVE TypeInv'
  <2>1. upload \in Files /\ op[t] = "import"
    BY <1>2, <1>17 DEF OpsFit, ImportReplace, Restoring
  <2>2. OpsFit' /\ pc' \in [Tasks -> PCs]
    BY <1>1, <1>2, <1>17, <2>1, MoveFits, GotoMoves DEF ImportReplace, PCs
  <2>3. image[upload] \in Content /\ image[upload].rows \subseteq Rows
    BY <1>2, <2>1 DEF TypeOK, Content
  <2>4. conn' \in [Tasks -> {"none", "file", "old"}]
    BY <1>2, <1>17 DEF TypeOK, ImportReplace
  <2>5. QED
    BY <1>2, <1>17, <2>1, <2>2, <2>3, <2>4 DEF TypeInv, TypeOK, ImportReplace
<1>18. ASSUME NEW t \in Tasks, ReplaceFails(t) PROVE TypeInv'
  <2>1. /\ OpsFit' /\ pc' \in [Tasks -> PCs]
        /\ op' \in [Tasks -> Shared \cup Exclusive \cup {"none"}]
    BY <1>1, <1>18, EndFits DEF ReplaceFails, Restoring
  <2>2. QED
    BY <1>2, <1>18, <2>1 DEF TypeInv, TypeOK, ReplaceFails
<1>19. ASSUME NEW t \in Tasks, ImportUnlink(t) PROVE TypeInv'
  <2>1. t = Handler /\ upload \in Files
    BY <1>2, <1>19 DEF OpsFit, ImportUnlink, Restoring
  <2>2. /\ OpsFit' /\ pc' \in [Tasks -> PCs]
        /\ op' \in [Tasks -> Shared \cup Exclusive \cup {"none"}]
    BY <1>1, <1>19, <2>1, EndFits DEF ImportUnlink, Shared
  <2>3. QED
    BY <1>2, <1>19, <2>2 DEF TypeInv, TypeOK, ImportUnlink
<1>20. ASSUME NEW t \in Tasks, Call(t) PROVE TypeInv'
  <2>1. PICK o \in {"read", "write", "toggle"} : Begin(t, o)
    BY <1>20 DEF Call
  <2>2. o \in Shared \cup Exclusive /\ o \notin Restoring
    BY DEF Shared, Restoring
  <2>3. /\ OpsFit' /\ pc' \in [Tasks -> PCs]
        /\ op' \in [Tasks -> Shared \cup Exclusive \cup {"none"}]
    BY <1>1, <1>20, <2>1, <2>2, BeginFits DEF Call
  <2>4. told' \in {"nothing", "already", "restored"}
    BY <1>2, <1>20 DEF Call, TypeOK
  <2>5. QED
    BY <1>2, <1>20, <2>1, <2>3, <2>4 DEF TypeInv, TypeOK, Call, Begin
<1>21. ASSUME NEW t \in Tasks, Backup(t) PROVE TypeInv'
  <2>1. "export" \in Shared \cup Exclusive /\ "export" \notin Restoring
    BY DEF Exclusive, Restoring
  <2>2. /\ OpsFit' /\ pc' \in [Tasks -> PCs]
        /\ op' \in [Tasks -> Shared \cup Exclusive \cup {"none"}]
    BY <1>1, <1>21, <2>1, BeginFits DEF Backup
  <2>3. told' \in {"nothing", "already", "restored"} /\ turns' \in 0..MaxTurns
    BY <1>2, <1>21 DEF Backup, TypeOK, ConstantsAssumption
  <2>4. QED
    BY <1>2, <1>21, <2>2, <2>3 DEF TypeInv, TypeOK, Backup, Begin
<1>22. ASSUME NEW f \in Files, Upload(f) PROVE TypeInv'
  <2>1. "get_last" \in Shared \cup Exclusive
    BY DEF Shared
  <2>2. /\ OpsFit' /\ pc' \in [Tasks -> PCs]
        /\ op' \in [Tasks -> Shared \cup Exclusive \cup {"none"}]
    BY <1>1, <1>2, <1>22, <2>1, BeginFits DEF Upload
  <2>3. turns' \in 0..MaxTurns
    BY <1>2, <1>22 DEF Upload, TypeOK, ConstantsAssumption
  <2>4. QED
    BY <1>2, <1>22, <2>2, <2>3 DEF TypeInv, TypeOK, Upload, Begin
<1>23. ASSUME Crash PROVE TypeInv'
  <2>1. OpsFit' /\ pc' \in [Tasks -> PCs]
    BY <1>23 DEF Crash, OpsFit, PCs, Restoring
  <2>2. faults' \in 0..MaxFaults
    BY <1>2, <1>23 DEF Crash, TypeOK, ConstantsAssumption
  <2>3. QED
    BY <1>2, <1>23, <2>1, <2>2 DEF TypeInv, TypeOK, Crash
<1>24. CASE UNCHANGED vars
  BY <1>1, <1>24 DEF vars, TypeInv, TypeOK, OpsFit
<1>25. ASSUME NEW t \in Tasks, ImportCheck(t) \/ ImportCopy(t) PROVE TypeInv'
  <2>1. CASE ImportCheck(t)
    BY <1>2, <1>16, <2>1 DEF ImportCheck
  <2>2. CASE ImportCopy(t)
    <3>1. ImportStep(t, "copy", "replace") /\ backup' \in Content
      BY <1>2, <2>2 DEF ImportCopy
    <3>2. QED
      BY <1>16, <3>1
  <2>3. QED
    BY <1>25, <2>1, <2>2
<1>26. ASSUME NEW t \in Tasks, Step(t) PROVE TypeInv'
  BY <1>3, <1>4, <1>5, <1>6, <1>7, <1>8, <1>9, <1>10, <1>11, <1>12, <1>13, <1>14,
     <1>15, <1>17, <1>18, <1>19, <1>25, <1>26 DEF Step
<1>27. QED
  BY <1>20, <1>21, <1>22, <1>23, <1>24, <1>26 DEF Next

-----------------------------------------------------------------------------
(* The gate                                                                *)

(* What an inductive step may assume of the gate.                          *)
LEMMA GateFacts ==
    ASSUME ConstantsAssumption, TypeInv, GateInv
    PROVE  /\ pc \in [Tasks -> PCs] /\ conn \in [Tasks -> {"none", "file", "old"}]
           /\ NoTask \notin Tasks /\ writer \in Tasks \cup {NoTask}
           /\ IsFiniteSet(Holders) /\ readers \in Nat
           /\ readers = 0 <=> Holders = {}
           /\ \A t \in Tasks : pc[t] \in Held <=> writer = t
           /\ \A t \in Tasks : pc[t] \in Held => Holders = {} /\ writer # NoTask
<1>1. IsFiniteSet(Holders)
  BY FS_Subset DEF Holders, ConstantsAssumption
<1>2. QED
  BY <1>1, FS_EmptySet, FS_CardinalityType
     DEF ConstantsAssumption, TypeInv, TypeOK, GateInv, Holders

(* A step in which t neither enters nor leaves the gate.                   *)
LEMMA GateKept ==
    ASSUME GateInv, NEW t \in Tasks, NEW l, 
           \A u \in Tasks : pc'[u] = IF u = t THEN l ELSE pc[u],
           l \in {"connect", "body", "release"} <=> t \in Holders,
           l \in {"body", "release"} <=> pc[t] \in {"body", "release"},
           l \in Held <=> pc[t] \in Held,
           readers' = readers, writer' = writer, conn' = conn
    PROVE  GateInv'
<1>1. Holders' = Holders
  BY DEF Holders
<1>2. QED
  BY <1>1 DEF GateInv

LEMMA GateStep ==
    ASSUME ConstantsAssumption, TypeInv, GateInv, [Next]_vars
    PROVE  GateInv' /\ readers' \in Nat
<1> USE DEF gate, sqlite, exports, restore, replaces
<1>1. /\ pc \in [Tasks -> PCs] /\ conn \in [Tasks -> {"none", "file", "old"}]
      /\ NoTask \notin Tasks /\ writer \in Tasks \cup {NoTask}
      /\ IsFiniteSet(Holders) /\ readers \in Nat
      /\ readers = 0 <=> Holders = {}
      /\ \A t \in Tasks : pc[t] \in Held <=> writer = t
      /\ \A t \in Tasks : pc[t] \in Held => Holders = {} /\ writer # NoTask
      /\ TypeOK /\ OpsFit /\ GateInv
  BY GateFacts DEF TypeInv
<1>2. ASSUME NEW t \in Tasks, SharedEnter(t) PROVE GateInv'
  <2>1. CASE Goto(t, "s_sleep") /\ UNCHANGED readers
    BY <1>1, <1>2, <2>1, GotoMoves, GateKept DEF SharedEnter, Holders, Held, PCs
  <2>2. CASE ~SharedBusy /\ Goto(t, "connect") /\ readers' = readers + 1
    <3>1. \A u \in Tasks : pc'[u] = IF u = t THEN "connect" ELSE pc[u]
      BY <1>1, <2>2, GotoMoves DEF PCs
    <3>2. Holders' = Holders \cup {t} /\ t \notin Holders
      BY <1>2, <3>1 DEF Holders, SharedEnter
    <3>3. Cardinality(Holders') = Cardinality(Holders) + 1
      BY <1>1, <3>2, FS_AddElement
    <3>4. writer = NoTask /\ writer' = writer /\ conn' = conn
      BY <1>2, <2>2 DEF SharedBusy, SharedEnter
    <3>5. QED
      BY <1>1, <1>2, <2>2, <3>1, <3>3, <3>4 DEF GateInv, Held, SharedEnter
  <2>3. QED
    BY <1>2, <2>1, <2>2 DEF SharedEnter
<1>3. ASSUME NEW t \in Tasks, ExclusiveEnter(t) PROVE GateInv'
  <2>1. CASE Goto(t, "x_sleep") /\ UNCHANGED writer
    BY <1>1, <1>3, <2>1, GotoMoves, GateKept DEF ExclusiveEnter, Holders, Held, PCs
  <2>2. CASE ~ExclusiveBusy /\ writer' = t /\ Goto(t, Inner(op[t]))
    <3>1. op[t] \in Shared \cup Exclusive \cup {"none"}
      BY <1>1 DEF TypeOK
    <3>2. /\ \A u \in Tasks : pc'[u] = IF u = t THEN Inner(op[t]) ELSE pc[u]
          /\ Inner(op[t]) \in {"export", "check"}
      BY <1>1, <2>2, <3>1, GotoMoves, CallsHavePlaces
    <3>3. Holders' = Holders
      BY <1>3, <3>2 DEF Holders, ExclusiveEnter
    <3>4. writer = NoTask /\ readers = 0 /\ readers' = readers /\ conn' = conn
      BY <1>1, <1>3, <2>2 DEF ExclusiveBusy, ExclusiveEnter
    <3>5. QED
      BY <1>1, <1>3, <2>2, <3>2, <3>3, <3>4 DEF GateInv, Held, ExclusiveEnter
  <2>3. QED
    BY <1>3, <2>1, <2>2 DEF ExclusiveEnter
<1>4. ASSUME NEW t \in Tasks, ExclusiveLeave(t) PROVE GateInv'
  <2>1. /\ pc'[t] \in {"s_ask", "x_ask", "idle"}
        /\ \A u \in Tasks : u # t =>
              \/ pc'[u] = pc[u]
              \/ pc[u] = "s_sleep" /\ pc'[u] = "s_ask"
              \/ pc[u] = "x_sleep" /\ pc'[u] = "x_woken"
    BY <1>1, <1>4, LeaveMoves DEF ExclusiveLeave
  <2>2. Holders' = Holders
    BY <1>4, <2>1 DEF Holders, ExclusiveLeave
  <2>3. writer = t /\ writer' = NoTask
    BY <1>1, <1>4 DEF ExclusiveLeave, Held
  <2>4. QED
    BY <1>1, <1>4, <2>1, <2>2, <2>3 DEF GateInv, Held, ExclusiveLeave
<1>5. ASSUME NEW t \in Tasks, Connect(t) PROVE GateInv'
  <2>1. \A u \in Tasks : pc'[u] = IF u = t THEN "body" ELSE pc[u]
    BY <1>1, <1>5, GotoMoves DEF Connect, PCs
  <2>2. Holders' = Holders
    BY <1>5, <2>1 DEF Holders, Connect
  <2>3. \A u \in Tasks : conn'[u] = IF u = t THEN "file" ELSE conn[u]
    BY <1>1, <1>5 DEF Connect
  <2>4. QED
    BY <1>1, <1>5, <2>1, <2>2, <2>3 DEF GateInv, Held, Connect
<1>6. ASSUME NEW t \in Tasks, Release(t) PROVE GateInv'
  <2>1. /\ pc'[t] \in {"s_ask", "x_ask", "idle"}
        /\ \A u \in Tasks : u # t =>
              \/ pc'[u] = pc[u]
              \/ pc[u] = "s_sleep" /\ pc'[u] = "s_ask"
              \/ pc[u] = "x_sleep" /\ pc'[u] = "x_woken"
    <3>1. (readers' = 0) \in BOOLEAN
      OBVIOUS
    <3>2. QED
      BY <1>1, <1>6, <3>1, LeaveMoves DEF Release
  <2>2. Holders' = Holders \ {t} /\ t \in Holders
    BY <1>6, <2>1 DEF Holders, Release
  <2>3. Cardinality(Holders') = Cardinality(Holders) - 1
    BY <1>1, <2>2, FS_RemoveElement
  <2>4. \A u \in Tasks : conn'[u] = IF u = t THEN "none" ELSE conn[u]
    BY <1>1, <1>6 DEF Release, Close
  <2>5. writer' = writer /\ readers' = readers - 1
    BY <1>6 DEF Release
  <2>6. QED
    BY <1>1, <1>6, <2>1, <2>2, <2>3, <2>4, <2>5 DEF GateInv, Held, Release
<1>7. ASSUME NEW t \in Tasks, NEW o, NEW next, Body(t, o, next) PROVE GateInv'
  BY <1>1, <1>7, GotoMoves, GateKept DEF Body, Holders, Held, PCs
<1>8. ASSUME NEW t \in Tasks, pc[t] \in Held, NEW l \in Held, Goto(t, l),
             UNCHANGED <<gate, conn>>
      PROVE  GateInv'
  BY <1>1, <1>8, GotoMoves, GateKept DEF Holders, Held, PCs
<1>9. ASSUME NEW t \in Tasks, NEW from \in {"check", "copy"},
             NEW l \in {"copy", "replace"}, ImportStep(t, from, l)
      PROVE  GateInv'
  BY <1>8, <1>9 DEF ImportStep, Held
<1>10. ASSUME NEW t \in Tasks, ImportReplace(t) PROVE GateInv'
  <2>1. pc[t] \in Held
    BY <1>10 DEF ImportReplace, Held
  <2>2. \A u \in Tasks : conn[u] = "none"
    BY <1>1, <2>1 DEF GateInv, Holders
  <2>3. conn' = conn
    BY <1>1, <1>10, <2>2 DEF ImportReplace
  <2>4. QED
    BY <1>8, <1>10, <2>1, <2>3 DEF ImportReplace, Held
<1>11. ASSUME NEW t \in Tasks, NEW o \in Shared \cup Exclusive, Begin(t, o)
       PROVE  GateInv'
  <2>1. Entry(o) \in {"s_ask", "x_ask", "idle"} /\ Entry(o) \in PCs
    BY CallsHavePlaces
  <2>2. \A u \in Tasks : pc'[u] = IF u = t THEN Entry(o) ELSE pc[u]
    BY <1>1, <1>11, <2>1, GotoMoves DEF Begin
  <2>3. QED
    BY <1>1, <1>11, <2>1, <2>2, GateKept DEF Begin, Holders, Held
<1>12. ASSUME NEW t \in Tasks, Step(t) PROVE GateInv'
  <2>1. CASE Rollback(t) \/ Write(t) \/ Toggle(t) \/ GetLast(t) \/ GetMode(t)
             \/ SetLast(t) \/ SetMode(t)
    BY <1>7, <2>1 DEF Rollback, Write, Toggle, GetLast, GetMode, SetLast, SetMode
  <2>2. CASE ImportCheck(t) \/ ImportCopy(t)
    BY <1>9, <2>2 DEF ImportCheck, ImportCopy
  <2>3. CASE Export(t) \/ ReplaceFails(t) \/ ImportUnlink(t)
    BY <1>8, <2>3 DEF Export, ReplaceFails, ImportUnlink, Held
  <2>4. QED
    BY <1>2, <1>3, <1>4, <1>5, <1>6, <1>10, <1>12, <2>1, <2>2, <2>3 DEF Step
<1>13. ASSUME NEW t \in Tasks, Call(t) \/ Backup(t) PROVE GateInv'
  <2>1. \E o \in Shared \cup Exclusive : Begin(t, o)
    BY <1>13 DEF Call, Backup, Shared, Exclusive
  <2>2. QED
    BY <1>11, <2>1
<1>14. ASSUME NEW f \in Files, Upload(f) PROVE GateInv'
  <2>1. Handler \in Tasks /\ "get_last" \in Shared \cup Exclusive
    BY DEF Tasks, Shared
  <2>2. QED
    BY <1>11, <1>14, <2>1 DEF Upload
<1>15. ASSUME Crash PROVE GateInv'
  <2>1. Holders' = {}
    BY <1>15 DEF Crash, Holders
  <2>2. QED
    BY <1>1, <1>15, <2>1, FS_EmptySet DEF Crash, GateInv, Held
<1>16. CASE UNCHANGED vars
  BY <1>1, <1>16 DEF vars, GateInv, Holders
<1>17. GateInv'
  BY <1>12, <1>13, <1>14, <1>15, <1>16 DEF Next
<1>18. readers' \in Nat
  <2>1. IsFiniteSet(Holders')
    BY FS_Subset DEF Holders, ConstantsAssumption
  <2>2. QED
    BY <1>17, <2>1, FS_CardinalityType DEF GateInv
<1>19. QED
  BY <1>17, <1>18

-----------------------------------------------------------------------------
(* What the database holds                                                 *)

LEMMA DataStep ==
    ASSUME ConstantsAssumption, TypeInv, GateInv, DataInv, [Next]_vars
    PROVE  DataInv' /\ (replaced' # replaced => backup = live)
<1> USE DEF gate, sqlite, exports, restore, replaces
<1>1. /\ pc \in [Tasks -> PCs] /\ conn \in [Tasks -> {"none", "file", "old"}]
      /\ \A t \in Tasks : pc[t] \in Held <=> writer = t
      /\ \A t \in Tasks : pc[t] \in Held => Holders = {} /\ writer # NoTask
      /\ \A t \in Tasks : conn[t] = IF pc[t] \in {"body", "release"} THEN "file" ELSE "none"
      /\ TypeOK /\ OpsFit /\ DataInv
      /\ live \in Content /\ disk \in Content
  BY GateFacts DEF TypeInv, TypeOK, GateInv
(* While a connection is open, nobody is about to replace the file.        *)
<1>2. ASSUME NEW t \in Tasks, pc[t] \in {"connect", "body", "release"}
      PROVE  \A u \in Tasks : pc[u] # "replace"
  BY <1>1, <1>2 DEF Holders, Held
<1>3. ASSUME NEW t \in Tasks, pc[t] \in Held
      PROVE  disk = live /\ \A u \in Tasks : conn[u] = "none" /\ (u # t => pc[u] # "replace")
  BY <1>1, <1>3 DEF Holders, Held, DataInv
<1>4. ASSUME NEW t \in Tasks, NEW l \in PCs \ {"replace"}, Goto(t, l),
             UNCHANGED <<conn, live, disk, acked, backup>>
      PROVE  DataInv'
  BY <1>1, <1>4, GotoMoves DEF DataInv, NothingLost
<1>5. ASSUME NEW t \in Tasks, NEW n \in BOOLEAN, Leave(t, n)
      PROVE  \A u \in Tasks : pc'[u] = "replace" => pc[u] = "replace"
  BY <1>1, <1>5, LeaveMoves
(* The body of a shared call.                                              *)
<1>6. ASSUME NEW t \in Tasks, NEW o, NEW next, Body(t, o, next),
             live'.rows = acked'
      PROVE  DataInv'
  <2>1. conn' = conn /\ conn[t] = "file" /\ backup' = backup
    BY <1>1, <1>6 DEF Body
  <2>2. \A u \in Tasks : pc'[u] # "replace"
    BY <1>1, <1>2, <1>6, GotoMoves DEF Body, PCs
  <2>3. QED
    BY <1>6, <2>1, <2>2 DEF DataInv, NothingLost
<1>7. ASSUME NEW t \in Tasks, pc[t] = "body", NEW c, Commit(t, c) PROVE live' = c
  BY <1>1, <1>7 DEF Commit
<1>8. live.rows = acked
  BY <1>1 DEF DataInv, NothingLost
<1>9. ASSUME NEW t \in Tasks, SharedEnter(t) PROVE DataInv'
  BY <1>4, <1>9 DEF SharedEnter, PCs
<1>10. ASSUME NEW t \in Tasks, ExclusiveEnter(t) PROVE DataInv'
  <2>1. op[t] \in Shared \cup Exclusive \cup {"none"}
    BY <1>1 DEF TypeOK
  <2>2. Inner(op[t]) \in PCs \ {"replace"} /\ "x_sleep" \in PCs \ {"replace"}
    BY <2>1, CallsHavePlaces DEF PCs
  <2>3. QED
    BY <1>4, <1>10, <2>2 DEF ExclusiveEnter
<1>11. ASSUME NEW t \in Tasks, ExclusiveLeave(t) PROVE DataInv'
  BY <1>1, <1>5, <1>11 DEF ExclusiveLeave, DataInv, NothingLost
<1>12. ASSUME NEW t \in Tasks, Connect(t) PROVE DataInv'
  <2>1. conn'[t] = "file" /\ UNCHANGED <<live, disk, acked, backup>>
    BY <1>1, <1>12 DEF Connect
  <2>2. \A u \in Tasks : pc'[u] # "replace"
    BY <1>1, <1>2, <1>12, GotoMoves DEF Connect, PCs
  <2>3. QED
    BY <1>8, <2>1, <2>2 DEF DataInv, NothingLost
<1>13. ASSUME NEW t \in Tasks, Release(t) PROVE DataInv'
  <2>1. \A u \in Tasks : pc'[u] # "replace"
    <3>1. (readers' = 0) \in BOOLEAN
      OBVIOUS
    <3>2. QED
      BY <1>2, <1>5, <1>13, <3>1 DEF Release
  <2>2. conn[t] = "file"
    BY <1>1, <1>13 DEF Release
  <2>3. (\A u \in Tasks : conn'[u] = "none") => disk' = live'
    BY <1>1, <1>13, <2>2 DEF Release, Close
  <2>4. live' = live /\ acked' = acked
    BY <1>13 DEF Release, Close
  <2>5. QED
    BY <1>8, <2>1, <2>3, <2>4 DEF DataInv, NothingLost
<1>14. ASSUME NEW t \in Tasks, Rollback(t) \/ GetLast(t) \/ GetMode(t) PROVE DataInv'
  BY <1>6, <1>8, <1>14 DEF Rollback, GetLast, GetMode
<1>15. ASSUME NEW t \in Tasks, Write(t) PROVE DataInv'
  <2>1. PICK r \in Rows : /\ Commit(t, [live EXCEPT !.rows = @ \cup {r}])
                          /\ acked' = acked \cup {r}
    BY <1>15 DEF Write
  <2>2. live'.rows = acked'
    BY <1>1, <1>7, <1>8, <1>15, <2>1 DEF Write, Body, Content
  <2>3. QED
    BY <1>6, <1>15, <2>2 DEF Write
<1>16. ASSUME NEW t \in Tasks, Toggle(t) \/ SetLast(t) \/ SetMode(t) PROVE DataInv'
  <2>1. pc[t] = "body" /\ acked' = acked
    BY <1>16 DEF Toggle, SetLast, SetMode, Body
  <2>2. \/ Commit(t, [live EXCEPT !.maint = ~@])
        \/ Commit(t, [live EXCEPT !.last = upload])
        \/ Commit(t, [live EXCEPT !.maint = was])
    BY <1>16 DEF Toggle, SetLast, SetMode
  <2>3. live'.rows = acked'
    BY <1>1, <1>7, <1>8, <2>1, <2>2 DEF Content
  <2>4. QED
    BY <1>6, <1>16, <2>3 DEF Toggle, SetLast, SetMode
<1>17. ASSUME NEW t \in Tasks, Export(t) PROVE DataInv'
  <2>1. disk' = disk
    BY <1>3, <1>17 DEF Export, Held
  <2>2. QED
    BY <1>4, <1>17, <2>1 DEF Export, PCs
<1>18. ASSUME NEW t \in Tasks, ImportCheck(t) \/ ReplaceFails(t) PROVE DataInv'
  BY <1>4, <1>18 DEF ImportCheck, ImportStep, ReplaceFails, PCs
<1>19. ASSUME NEW t \in Tasks, ImportCopy(t) PROVE DataInv'
  <2>1. pc[t] \in Held /\ UNCHANGED <<conn, live, disk, acked>>
    BY <1>19 DEF ImportCopy, ImportStep, Held
  <2>2. \A u \in Tasks : u # t => pc[u] # "replace"
    BY <1>3, <2>1
  <2>3. CASE Goto(t, "replace") /\ op' = op
    <3>1. \A u \in Tasks : pc'[u] = IF u = t THEN "replace" ELSE pc[u]
      BY <1>1, <2>3, GotoMoves DEF PCs
    <3>2. backup' = disk
      BY <1>19, <2>3 DEF ImportCopy
    <3>3. QED
      BY <1>1, <2>1, <2>2, <3>1, <3>2 DEF DataInv, NothingLost
  <2>4. CASE Goto(t, "x_leave")
    <3>1. \A u \in Tasks : pc'[u] # "replace"
      BY <1>1, <2>2, <2>4, GotoMoves DEF PCs
    <3>2. QED
      BY <1>1, <2>1, <3>1 DEF DataInv, NothingLost
  <2>5. QED
    BY <1>19, <2>3, <2>4 DEF ImportCopy, ImportStep
<1>20. ASSUME NEW t \in Tasks, ImportReplace(t) PROVE DataInv' /\ backup = live
  <2>1. disk = live /\ \A u \in Tasks : conn[u] = "none" /\ (u # t => pc[u] # "replace")
    BY <1>3, <1>20 DEF ImportReplace, Held
  <2>2. backup = disk
    BY <1>1, <1>20 DEF DataInv, ImportReplace
  <2>3. disk' = live' /\ live'.rows = acked'
    BY <1>20, <2>1 DEF ImportReplace
  <2>4. \A u \in Tasks : pc'[u] # "replace"
    BY <1>1, <1>20, <2>1, GotoMoves DEF ImportReplace, PCs
  <2>5. QED
    BY <2>1, <2>2, <2>3, <2>4 DEF DataInv, NothingLost
<1>21. ASSUME NEW t \in Tasks, ImportUnlink(t) PROVE DataInv'
  <2>1. live' = live
    BY <1>3, <1>21 DEF ImportUnlink, Held
  <2>2. QED
    BY <1>4, <1>21, <2>1 DEF ImportUnlink, PCs
<1>22. ASSUME NEW t \in Tasks, NEW o \in Shared \cup Exclusive, Begin(t, o)
       PROVE  DataInv'
  <2>1. Entry(o) \in PCs \ {"replace"}
    BY CallsHavePlaces
  <2>2. QED
    BY <1>4, <1>22, <2>1 DEF Begin
<1>23. ASSUME NEW t \in Tasks, Call(t) \/ Backup(t) PROVE DataInv'
  <2>1. \E o \in Shared \cup Exclusive : Begin(t, o)
    BY <1>23 DEF Call, Backup, Shared, Exclusive
  <2>2. QED
    BY <1>22, <2>1
<1>24. ASSUME NEW f \in Files, Upload(f) PROVE DataInv'
  <2>1. Handler \in Tasks /\ "get_last" \in Shared \cup Exclusive
    BY DEF Tasks, Shared
  <2>2. QED
    BY <1>22, <1>24, <2>1 DEF Upload
<1>25. ASSUME Crash PROVE DataInv'
  BY <1>8, <1>25 DEF Crash, DataInv, NothingLost
<1>26. CASE UNCHANGED vars
  BY <1>1, <1>26 DEF vars, DataInv, NothingLost
<1>27. DataInv'
  BY <1>9, <1>10, <1>11, <1>12, <1>13, <1>14, <1>15, <1>16, <1>17, <1>18, <1>19,
     <1>20, <1>21, <1>23, <1>24, <1>25, <1>26 DEF Next, Step
(* Only the replacement itself replaces.                                   *)
<1>28. ASSUME replaced' # replaced PROVE \E t \in Tasks : ImportReplace(t)
  <2>1. ASSUME NEW t \in Tasks, NEW o, NEW next, Body(t, o, next) PROVE FALSE
    BY <1>28, <2>1 DEF Body
  <2>2. ASSUME NEW t \in Tasks, NEW o, Begin(t, o) PROVE FALSE
    BY <1>28, <2>2 DEF Begin
  <2>3. ASSUME NEW t \in Tasks, Step(t) PROVE ImportReplace(t)
    <3>1. ~(Rollback(t) \/ Write(t) \/ Toggle(t) \/ GetLast(t) \/ GetMode(t)
            \/ SetLast(t) \/ SetMode(t))
      BY <2>1 DEF Rollback, Write, Toggle, GetLast, GetMode, SetLast, SetMode
    <3>2. ~(SharedEnter(t) \/ ExclusiveEnter(t) \/ ExclusiveLeave(t) \/ Connect(t)
            \/ Release(t))
      BY <1>28 DEF SharedEnter, ExclusiveEnter, ExclusiveLeave, Connect, Release
    <3>3. ~(Export(t) \/ ImportCheck(t) \/ ImportCopy(t) \/ ReplaceFails(t)
            \/ ImportUnlink(t))
      BY <1>28 DEF Export, ImportCheck, ImportCopy, ImportStep, ReplaceFails, ImportUnlink
    <3>4. QED
      BY <2>3, <3>1, <3>2, <3>3 DEF Step
  <2>4. \A t \in Tasks : ~Call(t) /\ ~Backup(t)
    BY <2>2 DEF Call, Backup
  <2>5. \A f \in Files : ~Upload(f)
    BY <2>2 DEF Upload, Tasks
  <2>6. ~Crash /\ vars' # vars
    BY <1>28 DEF Crash, vars
  <2>7. QED
    BY <2>3, <2>4, <2>5, <2>6 DEF Next
<1>29. QED
  BY <1>20, <1>27, <1>28

-----------------------------------------------------------------------------
(* What the owner is told                                                  *)

(* The file that was restored and is not yet stamped.                      *)
Unstamped == op[Handler] = "set_last" \/ pc[Handler] = "unlink"

(* Only the handler switches maintenance mode, and while it reports it is  *)
(* in no call.  Without faults the stamp is that of the file restored last *)
(* but between the replacement and the stamping.                           *)
ReportInv ==
    /\ \A t \in Tasks : op[t] = "toggle" => t = Handler
    /\ told # "nothing" => op[Handler] = "none"
    /\ faults = 0 =>
          /\ Unstamped \/ op[Handler] = "set_mode" => applied = upload
          /\ ~Unstamped => live.last = applied
    /\ ReportsAreTrue

(* A step of a task that changes nothing a report is about.                *)
LEMMA ReportKept ==
    ASSUME ReportInv, NEW t \in Tasks, NEW o,
           op' = [op EXCEPT ![t] = o], o \in {op[t], "none"},
           op[t] = "set_last" => o = op[t] \/ faults' # 0,
           Handler \in Tasks, op \in [Tasks -> Shared \cup Exclusive \cup {"none"}],
           pc'[Handler] = "unlink" <=> pc[Handler] = "unlink",
           live'.last = live.last, live'.maint = live.maint,
           faults' = 0 => faults = 0,
           UNCHANGED <<told, applied, upload, was>>
    PROVE  ReportInv'
BY DEF ReportInv, Unstamped, ReportsAreTrue

LEMMA ReportStep ==
    ASSUME ConstantsAssumption, TypeInv, GateInv, ReportInv, [Next]_vars
    PROVE  ReportInv'
<1> USE DEF gate, sqlite, exports, restore, replaces
<1>1. /\ pc \in [Tasks -> PCs] /\ Handler \in Tasks
      /\ op \in [Tasks -> Shared \cup Exclusive \cup {"none"}]
      /\ \A t \in Tasks : pc[t] \in {"body", "release"} => conn[t] = "file"
      /\ faults \in Nat /\ live \in Content
      /\ TypeOK /\ OpsFit /\ ReportInv
  BY DEF TypeInv, TypeOK, GateInv, Tasks, ConstantsAssumption
(* Only a step of the replacement comes to or from "unlink".               *)
<1>2. ASSUME NEW t \in Tasks, NEW l \in PCs \ {"unlink"}, Goto(t, l),
             pc[t] # "unlink"
      PROVE  pc'[Handler] = "unlink" <=> pc[Handler] = "unlink"
  BY <1>1, <1>2, GotoMoves
<1>3. ASSUME NEW t \in Tasks, NEW n \in BOOLEAN, Leave(t, n), pc[t] # "unlink"
      PROVE  pc'[Handler] = "unlink" <=> pc[Handler] = "unlink"
  BY <1>1, <1>3, LeaveMoves
<1>4. ASSUME NEW t \in Tasks, op' = op, live' = live, 
             pc'[Handler] = "unlink" <=> pc[Handler] = "unlink",
             UNCHANGED <<told, applied, upload, was, faults>>
      PROVE  ReportInv'
  BY <1>1, <1>4 DEF ReportInv, Unstamped, ReportsAreTrue
<1>5. ASSUME NEW t \in Tasks, NEW o, NEW next, Body(t, o, next)
      PROVE  /\ pc[t] = "body" /\ op[t] = o /\ applied' = applied
             /\ op' = [op EXCEPT ![t] = next] /\ conn[t] = "file"
             /\ pc'[Handler] = "unlink" <=> pc[Handler] = "unlink"
             /\ t = Handler => pc'[Handler] # "unlink" /\ pc[Handler] # "unlink"
  <2>1. pc'[t] = "release"
    BY <1>1, <1>5 DEF Body, Goto
  <2>2. QED
    BY <1>1, <1>2, <1>5, <2>1 DEF Body, PCs
<1>6. ASSUME NEW t \in Tasks, SharedEnter(t) \/ ExclusiveEnter(t)
      PROVE  ReportInv'
  <2>1. \E l \in PCs \ {"unlink"} : Goto(t, l)
    BY <1>1, <1>6, CallsHavePlaces DEF SharedEnter, ExclusiveEnter, PCs, TypeOK
  <2>2. QED
    BY <1>2, <1>4, <1>6, <2>1 DEF SharedEnter, ExclusiveEnter
<1>7. ASSUME NEW t \in Tasks, ExclusiveLeave(t) PROVE ReportInv'
  BY <1>3, <1>4, <1>7 DEF ExclusiveLeave
<1>8. ASSUME NEW t \in Tasks, Release(t) PROVE ReportInv'
  <2>1. (readers' = 0) \in BOOLEAN
    OBVIOUS
  <2>2. QED
    BY <1>3, <1>4, <1>8, <2>1 DEF Release, Close
<1>9. ASSUME NEW t \in Tasks, Connect(t) PROVE ReportInv'
  BY <1>2, <1>4, <1>9 DEF Connect, PCs
<1>10. ASSUME NEW t \in Tasks, Rollback(t) PROVE ReportInv'
  <2>1. /\ Body(t, op[t], "none") /\ live' = live
        /\ UNCHANGED <<told, upload, was>>
        /\ op[t] = "set_last" => faults' # 0
        /\ faults' = 0 => faults = 0
    BY <1>1, <1>10 DEF Rollback
  <2>2. QED
    BY <1>1, <1>5, <2>1, ReportKept
<1>11. ASSUME NEW t \in Tasks, Write(t) PROVE ReportInv'
  <2>1. /\ Body(t, "write", "none")
        /\ UNCHANGED <<told, upload, was, faults>>
    BY <1>11 DEF Write
  <2>2. PICK r \in Rows : Commit(t, [live EXCEPT !.rows = @ \cup {r}])
    BY <1>11 DEF Write
  <2>3. live'.last = live.last /\ live'.maint = live.maint
    BY <1>1, <1>5, <2>1, <2>2 DEF Commit, Content
  <2>4. QED
    BY <1>1, <1>5, <2>1, <2>3, ReportKept
<1>12. ASSUME NEW t \in Tasks, Toggle(t) PROVE ReportInv'
  <2>1. /\ Body(t, "toggle", "none") /\ t = Handler
        /\ UNCHANGED <<told, upload, was, faults>>
    BY <1>1, <1>5, <1>12 DEF Toggle, ReportInv
  <2>2. live'.last = live.last /\ told = "nothing"
    BY <1>1, <1>5, <1>12, <2>1 DEF Toggle, Commit, Content, ReportInv
  <2>3. QED
    BY <1>1, <1>5, <2>1, <2>2 DEF ReportInv, Unstamped, ReportsAreTrue
<1>13. ASSUME NEW t \in Tasks, NEW o \in Restoring, NEW next, Body(t, o, next)
       PROVE  t = Handler /\ told = "nothing"
  BY <1>1, <1>5, <1>13 DEF OpsFit, ReportInv, Restoring
<1>14. ASSUME NEW t \in Tasks, GetLast(t) PROVE ReportInv'
  <2>1. /\ t = Handler /\ told = "nothing" /\ op[t] = "get_last"
        /\ pc'[Handler] # "unlink" /\ pc[Handler] # "unlink"
        /\ applied' = applied /\ live' = live /\ upload' = upload /\ was' = was
        /\ faults' = faults
        /\ \/ /\ live.last = upload /\ told' = "already"
              /\ op' = [op EXCEPT ![t] = "none"]
           \/ op' = [op EXCEPT ![t] = "get_mode"] /\ told' = told
    BY <1>1, <1>5, <1>13, <1>14 DEF GetLast, Restoring
  <2>2. QED
    BY <1>1, <2>1 DEF ReportInv, Unstamped, ReportsAreTrue
<1>15. ASSUME NEW t \in Tasks, GetMode(t) PROVE ReportInv'
  <2>1. /\ t = Handler /\ told = "nothing" /\ op[t] = "get_mode"
        /\ pc'[Handler] # "unlink" /\ pc[Handler] # "unlink"
        /\ op' = [op EXCEPT ![t] = "import"]
        /\ UNCHANGED <<applied, live, upload, told, faults>>
    BY <1>1, <1>5, <1>13, <1>15 DEF GetMode, Restoring
  <2>2. QED
    BY <1>1, <2>1 DEF ReportInv, Unstamped, ReportsAreTrue
<1>16. ASSUME NEW t \in Tasks, SetLast(t) PROVE ReportInv'
  <2>1. /\ t = Handler /\ told = "nothing" /\ op[t] = "set_last"
        /\ pc'[Handler] # "unlink" /\ pc[Handler] # "unlink"
        /\ op' = [op EXCEPT ![t] = "set_mode"] /\ live'.last = upload
        /\ UNCHANGED <<applied, upload, told, was, faults>>
    BY <1>1, <1>5, <1>13, <1>16 DEF SetLast, Restoring, Commit, Content
  <2>2. QED
    BY <1>1, <2>1 DEF ReportInv, Unstamped, ReportsAreTrue
<1>17. ASSUME NEW t \in Tasks, SetMode(t) PROVE ReportInv'
  <2>1. /\ t = Handler /\ op[t] = "set_mode"
        /\ pc'[Handler] # "unlink" /\ pc[Handler] # "unlink"
        /\ op' = [op EXCEPT ![t] = "none"] /\ live'.last = live.last
        /\ live'.maint = was
        /\ UNCHANGED <<applied, upload, was, faults>>
    BY <1>1, <1>5, <1>13, <1>17 DEF SetMode, Restoring, Commit, Content
  <2>2. QED
    BY <1>1, <2>1 DEF ReportInv, Unstamped, ReportsAreTrue
<1>18. ASSUME NEW t \in Tasks, Export(t) PROVE ReportInv'
  <2>1. op[t] = "export"
    BY <1>1, <1>18 DEF Export, OpsFit
  <2>2. QED
    BY <1>1, <1>2, <1>18, <2>1, ReportKept DEF Export, PCs
<1>19. ASSUME NEW t \in Tasks, ImportCheck(t) \/ ImportCopy(t) \/ ReplaceFails(t)
       PROVE  ReportInv'
  <2>1. /\ pc[t] # "unlink" /\ op[t] = "import" /\ live' = live
        /\ UNCHANGED <<told, applied, upload, was, faults>>
        /\ \E l \in PCs \ {"unlink"} : Goto(t, l)
        /\ op' = op \/ op' = [op EXCEPT ![t] = "none"]
    BY <1>1, <1>19 DEF ImportCheck, ImportCopy, ImportStep, ReplaceFails, OpsFit, PCs
  <2>2. QED
    BY <1>1, <1>2, <1>4, <2>1, ReportKept
<1>20. ASSUME NEW t \in Tasks, ImportReplace(t) PROVE ReportInv'
  <2>1. t = Handler /\ op[t] = "import"
    BY <1>1, <1>20 DEF ImportReplace, OpsFit, Restoring
  <2>2. /\ told = "nothing" /\ pc'[Handler] = "unlink" /\ applied' = upload
        /\ UNCHANGED <<op, told, upload, was, faults>>
    BY <1>1, <1>20, <2>1 DEF ImportReplace, Goto, ReportInv
  <2>3. QED
    BY <1>1, <2>1, <2>2 DEF ReportInv, Unstamped, ReportsAreTrue
<1>21. ASSUME NEW t \in Tasks, ImportUnlink(t) PROVE ReportInv'
  <2>1. t = Handler /\ op[t] = "import" /\ pc[t] = "unlink"
    BY <1>1, <1>21 DEF ImportUnlink, OpsFit, Restoring
  <2>2. /\ told = "nothing" /\ op' = [op EXCEPT ![t] = "set_last"]
        /\ UNCHANGED <<applied, told, upload, was, faults>>
    BY <1>1, <1>21, <2>1 DEF ImportUnlink, ReportInv
  <2>3. QED
    BY <1>1, <2>1, <2>2 DEF ReportInv, Unstamped, ReportsAreTrue
<1>22. ASSUME NEW t \in Tasks,
              NEW o \in {"read", "write", "toggle", "export", "get_last"},
              Begin(t, o),
              o \in {"toggle", "get_last"} => t = Handler,
              told' = IF t = Handler THEN "nothing" ELSE told,
              t # Handler => upload' = upload
       PROVE  ReportInv'
  <2>1. /\ pc[t] = "idle" /\ op[t] = "none" /\ op' = [op EXCEPT ![t] = o]
        /\ UNCHANGED <<live, was, applied, faults>>
    BY <1>1, <1>22 DEF Begin, OpsFit
  <2>2. pc'[Handler] = "unlink" <=> pc[Handler] = "unlink"
    <3>1. Entry(o) \in PCs \ {"unlink"} /\ Goto(t, Entry(o))
      BY <1>22, CallsHavePlaces DEF Begin, Shared, Exclusive, PCs
    <3>2. QED
      BY <1>2, <2>1, <3>1
  <2>3. QED
    BY <1>1, <1>22, <2>1, <2>2 DEF ReportInv, Unstamped, ReportsAreTrue
<1>23. ASSUME NEW t \in Tasks, Call(t) \/ Backup(t) PROVE ReportInv'
  BY <1>22, <1>23 DEF Call, Backup
<1>24. ASSUME NEW f \in Files, Upload(f) PROVE ReportInv'
  BY <1>1, <1>22, <1>24 DEF Upload
<1>25. ASSUME Crash PROVE ReportInv'
  <2>1. /\ faults' # 0 /\ told' = "nothing"
        /\ \A t \in Tasks : op'[t] = "none"
    BY <1>1, <1>25 DEF Crash
  <2>2. QED
    BY <2>1 DEF ReportInv, ReportsAreTrue
<1>26. CASE UNCHANGED vars
  BY <1>1, <1>26 DEF vars, ReportInv, Unstamped, ReportsAreTrue
<1>27. QED
  BY <1>6, <1>7, <1>8, <1>9, <1>10, <1>11, <1>12, <1>14, <1>15, <1>16, <1>17,
     <1>18, <1>19, <1>20, <1>21, <1>23, <1>24, <1>25, <1>26 DEF Next, Step

-----------------------------------------------------------------------------
(* Theorems                                                                *)

Inv == TypeInv /\ GateInv /\ DataInv /\ ReportInv

LEMMA InvInit == ASSUME ConstantsAssumption, Init PROVE Inv
<1>1. Holders = {} /\ Handler \in Tasks
  BY DEF Init, Holders, Tasks
<1>2. TypeInv
  <2>1. Blank \in Content
    BY DEF Blank, Content
  <2>2. TypeOK
    <3>1. /\ pc \in [Tasks -> PCs]
          /\ op \in [Tasks -> Shared \cup Exclusive \cup {"none"}]
          /\ conn \in [Tasks -> {"none", "file", "old"}]
          /\ image \in [Files -> Content]
      BY <2>1 DEF Init, PCs
    <3>2. turns \in 0..MaxTurns /\ faults \in 0..MaxFaults
      BY DEF Init, ConstantsAssumption
    <3>3. QED
      BY <2>1, <3>1, <3>2 DEF Init, TypeOK
  <2>3. OpsFit
    BY DEF Init, OpsFit, Restoring
  <2>4. QED
    BY <2>2, <2>3 DEF TypeInv
<1>3. GateInv /\ DataInv
  BY <1>1, FS_EmptySet
     DEF Init, GateInv, DataInv, NothingLost, Held, Blank, ConstantsAssumption
<1>4. ReportInv
  BY <1>1 DEF Init, ReportInv, Unstamped, ReportsAreTrue, Blank
<1>5. QED
  BY <1>2, <1>3, <1>4 DEF Inv

(* The invariant the theorems rest on.                                     *)
THEOREM GateInvariant == Spec => []Inv
<1>1. Init => Inv
  BY InvInit, ConstantsAssumption
<1>2. Inv /\ [Next]_vars => Inv'
  BY TypeStep, GateStep, DataStep, ReportStep, ConstantsAssumption DEF Inv
<1>3. QED
  BY <1>1, <1>2, PTL DEF Spec

(* Values keep their types; the counter of holders never becomes negative  *)
(* (_readers of _MaintenanceGate).                                         *)
THEOREM TypeCorrectness == Spec => []TypeOK
<1>1. Inv => TypeOK
  BY DEF Inv, TypeInv
<1>2. QED
  BY <1>1, GateInvariant, PTL

(* Nobody has a connection open while a task has the gate to itself        *)
(* (_MaintenanceGate.shared and exclusive, get_conn).                      *)
THEOREM GateIsExclusive == Spec => []GateExclusive
<1>1. Inv => GateExclusive
  BY DEF Inv, GateInv, GateExclusive, Holders
<1>2. QED
  BY <1>1, GateInvariant, PTL

(* No commit is lost, through restores and crashes at any step             *)
(* (transaction, import_db_bytes).                                         *)
THEOREM NothingIsLost == Spec => []NothingLost
<1>1. Inv => NothingLost
  BY DEF Inv, DataInv
<1>2. QED
  BY <1>1, GateInvariant, PTL

(* .pre_restore has all that a restore replaces (copy2, os.replace).       *)
THEOREM ReplacedWasCopied == Spec => ReplacedIsCopied
<1>1. Inv /\ [Next]_vars => [replaced' # replaced => backup = live]_vars
  BY DataStep, ConstantsAssumption DEF Inv
<1>2. QED
  BY <1>1, GateInvariant, PTL DEF Spec, ReplacedIsCopied

(* Without a crash or a failed stamp the owner is told the truth: a file   *)
(* that counts as applied is the last one applied, and a restore leaves    *)
(* maintenance mode as it was (_handle_restore_doc_locked).                *)
THEOREM OwnerToldTruth == Spec => []ReportsAreTrue
<1>1. Inv => ReportsAreTrue
  BY DEF Inv, ReportInv
<1>2. QED
  BY <1>1, GateInvariant, PTL
=============================================================================
