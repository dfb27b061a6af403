------------------------ MODULE FactoryConsoleProofs ------------------------
(***************************************************************************)
(* Theorems about the factory console: what a record of a run says of its  *)
(* child, whom a cancel signals, and what the screening record and its     *)
(* store say of the export.  The runs, the export and the pipeline are     *)
(* treated in turn; a step of one leaves the others alone.                 *)
(***************************************************************************)
EXTENDS FactoryConsole, FiniteSetTheorems, TLAPS

-----------------------------------------------------------------------------
(* The runs of the console                                                 *)

WebShape ==
    /\ registry \in [Runs -> Record]
    /\ child \in [Runs -> {"none", "alive", "exited"}]
    /\ code \in [Runs -> Codes \cup {NoCode}]
    /\ pid \in [Runs -> {"child", "free", "other"}]
    /\ request \in [Requests ->
          [pc : RequestPCs, run : Runs \cup {NoRun},
           records : [Runs -> Record], handle : BOOLEAN,
           code : Codes \cup {NoCode}, finished : BOOLEAN]]
    /\ foreign \in BOOLEAN

(* A record says no more of a run than its child has done.                 *)
Says(record, r) ==
    /\ record.status # "absent" => child[r] # "none"
    /\ record.status \in {"done", "failed"} => child[r] = "exited"
    /\ record.status = "done" => code[r] = 0

(* What a request knows of the run it serves.                              *)
Knows(q) ==
    LET r == request[q].run IN
    /\ request[q].pc \notin {"idle", "l_save"} => r \in Runs /\ child[r] # "none"
    /\ request[q].pc = "k_record" =>
          /\ child[r] = "exited"
          /\ request[q].code = 0 => code[r] = 0

(* Records, and the copies listings have loaded, say no more than is true; *)
(* a pid is the child's exactly while the child lives.                     *)
WebInv ==
    /\ WebShape
    /\ \A r \in Runs : Says(registry[r], r)
    /\ \A r \in Runs : pid[r] = "child" <=> child[r] = "alive"
    /\ \A q \in Requests : \A r \in Runs : Says(request[q].records[r], r)
    /\ \A q \in Requests : Knows(q)
    /\ ~foreign

(* Children only go on: none that has been spawned is unspawned, and one   *)
(* that has exited keeps its exit code.                                    *)
GoesOn ==
    \A r \in Runs :
        /\ child[r] # "none" => child'[r] # "none"
        /\ child[r] = "exited" => child'[r] = "exited" /\ code'[r] = code[r]

LEMMA SaysGoesOn ==
    ASSUME GoesOn, NEW record \in Record, NEW r \in Runs, Says(record, r)
    PROVE  /\ record.status # "absent" => child'[r] # "none"
           /\ record.status \in {"done", "failed"} => child'[r] = "exited"
           /\ record.status = "done" => code'[r] = 0
  BY DEF GoesOn, Says, Record

(* A step that changes one request at most, in a state that goes on.       *)
LEMMA WebKept ==
    ASSUME WebInv, WebShape', GoesOn, NEW q \in Requests,
           \A p \in Requests \ {q} : request'[p] = request[p],
           \A r \in Runs : Says(request[q].records[r], r)',
           Knows(q)',
           \A r \in Runs : Says(registry[r], r)',
           \A r \in Runs : pid'[r] = "child" <=> child'[r] = "alive",
           ~foreign'
    PROVE  WebInv'
<1>1. ASSUME NEW p \in Requests, NEW r \in Runs
      PROVE  Says(request[p].records[r], r)'
  <2>1. CASE p = q
    BY <2>1
  <2>2. CASE p # q
    <3>1. request'[p] = request[p] /\ request[p].records[r] \in Record
      BY <2>2 DEF WebInv, WebShape
    <3>2. Says(request[p].records[r], r)
      BY DEF WebInv
    <3>3. QED
      BY <3>1, <3>2, SaysGoesOn DEF Says
  <2>3. QED
    BY <2>1, <2>2
<1>2. ASSUME NEW p \in Requests
      PROVE  Knows(p)'
  <2>1. CASE p = q
    BY <2>1
  <2>2. CASE p # q
    <3>1. request'[p] = request[p]
      BY <2>2
    <3>2. Knows(p)
      BY DEF WebInv
    <3>3. request[p].pc \in RequestPCs
      BY DEF WebInv, WebShape
    <3>4. request[p].pc = "k_record" => request[p].run \in Runs
      BY <3>2 DEF Knows
    <3>5. QED
      BY <3>1, <3>2, <3>4 DEF Knows, GoesOn
  <2>3. QED
    BY <2>1, <2>2
<1>3. QED
  BY <1>1, <1>2 DEF WebInv

(* Steps of the runs' world that touch neither records nor requests.       *)
LEMMA ChildKept ==
    ASSUME WebInv, WebShape', GoesOn, UNCHANGED request,
           \A r \in Runs : Says(registry[r], r)',
           \A r \in Runs : pid'[r] = "child" <=> child'[r] = "alive",
           ~foreign'
    PROVE  WebInv'
<1>1. ASSUME NEW p \in Requests, NEW r \in Runs
      PROVE  Says(request[p].records[r], r)'
  <2>1. Says(request[p].records[r], r) /\ request[p].records[r] \in Record
    BY DEF WebInv, WebShape
  <2>2. QED
    BY <2>1, SaysGoesOn DEF Says
<1>2. ASSUME NEW p \in Requests
      PROVE  Knows(p)'
  <2>1. Knows(p)
    BY DEF WebInv
  <2>2. QED
    BY <2>1 DEF Knows, GoesOn
<1>3. QED
  BY <1>1, <1>2 DEF WebInv

(* A step that leaves the children alone lets everything go on.            *)
LEMMA StillGoesOn == UNCHANGED <<child, code>> => GoesOn
  BY DEF GoesOn

(* What is known of a request, and of the run it serves.                   *)
LEMMA RequestType ==
    ASSUME WebInv, NEW q \in Requests
    PROVE  /\ request[q].pc \in RequestPCs
           /\ request[q].run \in Runs \cup {NoRun}
           /\ request[q].records \in [Runs -> Record]
           /\ request[q].handle \in BOOLEAN
           /\ request[q].code \in Codes \cup {NoCode}
           /\ request[q].finished \in BOOLEAN
           /\ request \in [Requests ->
                 [pc : RequestPCs, run : Runs \cup {NoRun},
                  records : [Runs -> Record], handle : BOOLEAN,
                  code : Codes \cup {NoCode}, finished : BOOLEAN]]
           /\ Knows(q)
  BY DEF WebInv, WebShape

(* A thread that has answered serves no run and holds no records.          *)
LEMMA IdleRequest ==
    /\ Idle \in [pc : RequestPCs, run : Runs \cup {NoRun},
                records : [Runs -> Record], handle : BOOLEAN,
                code : Codes \cup {NoCode}, finished : BOOLEAN]
    /\ Idle.pc = "idle"
    /\ \A r \in Runs : Idle.records[r].status = "absent"
  BY DEF Idle, NoRecord, Record, RequestPCs, Codes, NoCode

LEMMA RecordTypes ==
    /\ Running \in Record
    /\ \A r \in Runs : code[r] \in Codes \cup {NoCode} => Settled(r) \in Record
  BY DEF Running, Record, Settled, Codes, NoCode

(* POST /api/runs.                                                         *)
LEMMA CreateSpawnKeeps ==
    ASSUME WebInv, NEW q \in Requests, NEW r \in Runs, CreateSpawn(q, r)
    PROVE  WebInv'
<1> DEFINE mine == [Idle EXCEPT !.pc = "c_handle", !.run = r]
<1>1. /\ child[r] = "none"
      /\ child' = [child EXCEPT ![r] = "alive"]
      /\ pid' = [pid EXCEPT ![r] = "child"]
      /\ request' = [request EXCEPT ![q] = mine]
      /\ UNCHANGED <<registry, code, foreign>>
  BY DEF CreateSpawn
<1>2. GoesOn
  BY <1>1 DEF GoesOn, WebInv, WebShape
<1>3. /\ mine \in [pc : RequestPCs, run : Runs \cup {NoRun},
                  records : [Runs -> Record], handle : BOOLEAN,
                  code : Codes \cup {NoCode}, finished : BOOLEAN]
      /\ mine.pc = "c_handle" /\ mine.run = r /\ mine.records = Idle.records
  BY IdleRequest DEF Idle, RequestPCs
<1> HIDE DEF mine
<1>4. WebShape'
  BY <1>1, <1>3 DEF WebInv, WebShape
<1>5. /\ request'[q] = mine
      /\ \A p \in Requests \ {q} : request'[p] = request[p]
  BY <1>1, RequestType
<1>6. \A s \in Runs : Says(request[q].records[s], s)'
  BY <1>3, <1>5, IdleRequest DEF Says
<1>7. Knows(q)'
  BY <1>1, <1>3, <1>5 DEF Knows, WebInv, WebShape
<1>8. \A s \in Runs : Says(registry[s], s)'
  <2> TAKE s \in Runs
  <2>1. Says(registry[s], s) /\ registry[s] \in Record
    BY DEF WebInv, WebShape
  <2>2. QED
    BY <1>1, <1>2, <2>1, SaysGoesOn DEF Says
<1>9. \A s \in Runs : pid'[s] = "child" <=> child'[s] = "alive"
  BY <1>1 DEF WebInv, WebShape
<1>10. ~foreign'
  BY <1>1 DEF WebInv
<1>11. QED
  BY <1>2, <1>4, <1>5, <1>6, <1>7, <1>8, <1>9, <1>10, WebKept

(* A step that only moves a request on, to what may be known of its run.   *)
LEMMA RequestMoves ==
    ASSUME WebInv, UNCHANGED <<registry, child, code, pid, foreign>>,
           NEW q \in Requests,
           NEW new \in [pc : RequestPCs, run : Runs \cup {NoRun},
                        records : [Runs -> Record], handle : BOOLEAN,
                        code : Codes \cup {NoCode}, finished : BOOLEAN],
           request' = [request EXCEPT ![q] = new],
           \A r \in Runs : Says(new.records[r], r),
           new.pc \notin {"idle", "l_save"} =>
               new.run \in Runs /\ child[new.run] # "none",
           new.pc = "k_record" =>
               /\ child[new.run] = "exited"
               /\ new.code = 0 => code[new.run] = 0
    PROVE  WebInv'
<1>1. WebShape'
  BY DEF WebInv, WebShape
<1>2. GoesOn
  BY StillGoesOn
<1>3. /\ request'[q] = new
      /\ \A p \in Requests \ {q} : request'[p] = request[p]
  BY RequestType
<1>4. \A r \in Runs : Says(request[q].records[r], r)'
  BY <1>3 DEF Says
<1>5. Knows(q)'
  BY <1>3 DEF Knows
<1>6. \A r \in Runs : Says(registry[r], r)'
  BY DEF WebInv, Says
<1>7. (\A r \in Runs : pid'[r] = "child" <=> child'[r] = "alive") /\ ~foreign'
  BY DEF WebInv
<1>8. QED
  BY <1>1, <1>2, <1>3, <1>4, <1>5, <1>6, <1>7, WebKept

(* A step that answers a request with a registry that says what is true.   *)
LEMMA RequestAnswered ==
    ASSUME WebInv, UNCHANGED <<child, code, pid, foreign>>,
           NEW q \in Requests, Answer(q),
           registry' \in [Runs -> Record],
           \A r \in Runs : Says(registry'[r], r)
    PROVE  WebInv'
<1>1. request' = [request EXCEPT ![q] = Idle]
  BY DEF Answer
<1>2. WebShape'
  BY <1>1, IdleRequest DEF WebInv, WebShape
<1>3. GoesOn
  BY StillGoesOn
<1>4. /\ request'[q] = Idle
      /\ \A p \in Requests \ {q} : request'[p] = request[p]
  BY <1>1, RequestType
<1>5. \A r \in Runs : Says(request[q].records[r], r)'
  BY <1>4, IdleRequest DEF Says
<1>6. Knows(q)'
  BY <1>4, IdleRequest DEF Knows
<1>7. \A r \in Runs : Says(registry[r], r)'
  BY DEF Says
<1>8. (\A r \in Runs : pid'[r] = "child" <=> child'[r] = "alive") /\ ~foreign'
  BY DEF WebInv
<1>9. QED
  BY <1>2, <1>3, <1>4, <1>5, <1>6, <1>7, <1>8, WebKept

LEMMA CreateHandleKeeps ==
    ASSUME WebInv, NEW q \in Requests, CreateHandle(q)
    PROVE  WebInv'
<1> DEFINE new == [request[q] EXCEPT !.pc = "c_record"]
<1>1. /\ request[q].pc = "c_handle"
      /\ request' = [request EXCEPT ![q] = new]
      /\ UNCHANGED <<registry, child, code, pid, foreign>>
  BY RequestType DEF CreateHandle, At, Goto, childVars
<1>2. /\ new \in [pc : RequestPCs, run : Runs \cup {NoRun},
                  records : [Runs -> Record], handle : BOOLEAN,
                  code : Codes \cup {NoCode}, finished : BOOLEAN]
      /\ new.pc = "c_record" /\ new.run = request[q].run
      /\ new.records = request[q].records
  BY RequestType DEF RequestPCs
<1> HIDE DEF new
<1>3. \A r \in Runs : Says(new.records[r], r)
  BY <1>2 DEF WebInv
<1>4. new.run \in Runs /\ child[new.run] # "none"
  BY <1>1, <1>2, RequestType DEF Knows
<1>5. QED
  BY <1>1, <1>2, <1>3, <1>4, RequestMoves DEF WebInv

LEMMA CreateRecordKeeps ==
    ASSUME WebInv, NEW q \in Requests, CreateRecord(q)
    PROVE  WebInv'
<1>1. /\ request[q].pc = "c_record"
      /\ registry' = [registry EXCEPT ![request[q].run] = Running]
      /\ Answer(q)
      /\ UNCHANGED <<child, code, pid, foreign>>
  BY DEF CreateRecord, At, childVars
<1>2. request[q].run \in Runs /\ child[request[q].run] # "none"
  BY <1>1, RequestType DEF Knows
<1>3. registry' \in [Runs -> Record]
  BY <1>1, RecordTypes DEF WebInv, WebShape
<1>4. \A r \in Runs : Says(registry'[r], r)
  BY <1>1, <1>2 DEF WebInv, WebShape, Says, Running
<1>5. QED
  BY <1>1, <1>3, <1>4, RequestAnswered

(* GET /api/runs: a record loaded earlier still says what is true.         *)
LEMMA ListLoadKeeps ==
    ASSUME WebInv, NEW q \in Requests, ListLoad(q)
    PROVE  WebInv'
<1> DEFINE new == [Idle EXCEPT !.pc = "l_save", !.records = registry]
<1>1. /\ request' = [request EXCEPT ![q] = new]
      /\ UNCHANGED <<registry, child, code, pid, foreign>>
  BY DEF ListLoad, childVars
<1>2. /\ new \in [pc : RequestPCs, run : Runs \cup {NoRun},
                  records : [Runs -> Record], handle : BOOLEAN,
                  code : Codes \cup {NoCode}, finished : BOOLEAN]
      /\ new.pc = "l_save" /\ new.records = registry
  BY IdleRequest DEF Idle, RequestPCs, WebInv, WebShape
<1> HIDE DEF new
<1>3. QED
  BY <1>1, <1>2, RequestMoves DEF WebInv

LEMMA ListSaveKeeps ==
    ASSUME WebInv, NEW q \in Requests, ListSave(q)
    PROVE  WebInv'
<1> DEFINE loaded == request[q].records
           polled == {r \in Runs : loaded[r].status # "absent" /\ Polled(r)}
           settled == [r \in Runs |->
                          IF r \in polled /\ loaded[r].status = "running"
                          THEN Settled(r) ELSE loaded[r]]
<1>1. /\ registry' \in {settled, registry}
      /\ Answer(q)
      /\ UNCHANGED <<child, code, pid, foreign>>
  BY DEF ListSave, childVars
<1>2. \A r \in Runs : loaded[r] \in Record /\ Says(loaded[r], r)
  BY RequestType DEF WebInv
<1>3. \A r \in Runs : r \in polled => child[r] = "exited"
  BY DEF Polled
<1> HIDE DEF loaded, polled
<1>4. \A r \in Runs : settled[r] \in Record /\ Says(settled[r], r)
  BY <1>2, <1>3, RecordTypes DEF WebInv, WebShape, Settled, Says
<1>5. settled \in [Runs -> Record]
  BY <1>4
<1> HIDE DEF settled
<1>6. /\ registry' \in [Runs -> Record]
      /\ \A r \in Runs : Says(registry'[r], r)
  BY <1>1, <1>4, <1>5 DEF WebInv, WebShape
<1>7. QED
  BY <1>1, <1>6, RequestAnswered

LEMMA GetKeeps ==
    ASSUME WebInv, NEW q \in Requests, NEW r \in Runs, Get(q, r)
    PROVE  WebInv'
<1>1. /\ child[r] = "exited"
      /\ registry' = [registry EXCEPT ![r] =
             IF @.status = "running" THEN Settled(r) ELSE @]
      /\ UNCHANGED <<request, child, code, pid, foreign>>
  BY DEF Get, Polled, childVars
<1>2. WebShape'
  BY <1>1, RecordTypes DEF WebInv, WebShape
<1>3. \A s \in Runs : Says(registry[s], s)'
  BY <1>1 DEF WebInv, WebShape, Says, Settled
<1>4. QED
  BY <1>1, <1>2, <1>3, StillGoesOn, ChildKept DEF WebInv

(* POST /api/runs/<id>/cancel, step by step.                               *)
LEMMA CancelCheckKeeps ==
    ASSUME WebInv, NEW q \in Requests, NEW r \in Runs, CancelCheck(q, r)
    PROVE  WebInv'
<1>0. PICK held \in BOOLEAN : held = (r \in procs)
  <2>1. CASE r \in procs
    BY <2>1, TRUE \in BOOLEAN
  <2>2. CASE r \notin procs
    <3>1. (r \in procs) = FALSE
      BY <2>2
    <3>2. QED
      BY <3>1, FALSE \in BOOLEAN
  <2>3. QED
    BY <2>1, <2>2
<1> DEFINE new == [Idle EXCEPT !.pc = "k_term", !.run = r, !.handle = held]
<1>1. /\ registry[r].status = "running"
      /\ request' = [request EXCEPT ![q] = new]
      /\ UNCHANGED <<registry, child, code, pid, foreign>>
  BY <1>0 DEF CancelCheck, childVars
<1>2. /\ new \in [pc : RequestPCs, run : Runs \cup {NoRun},
                  records : [Runs -> Record], handle : BOOLEAN,
                  code : Codes \cup {NoCode}, finished : BOOLEAN]
      /\ new.pc = "k_term" /\ new.run = r /\ new.records = Idle.records
  BY IdleRequest DEF Idle, RequestPCs
<1> HIDE DEF new
<1>3. \A s \in Runs : Says(new.records[s], s)
  BY <1>2, IdleRequest DEF Says
<1>4. child[r] # "none"
  BY <1>1 DEF WebInv, Says
<1>5. QED
  BY <1>1, <1>2, <1>3, <1>4, RequestMoves

(* A signal only ever goes to a child: the pid is the child's.             *)
LEMMA CancelTermKeeps ==
    ASSUME WebInv, NEW q \in Requests, CancelTerm(q)
    PROVE  WebInv'
<1> DEFINE r == request[q].run
           seen == [request[q] EXCEPT !.pc = "k_record", !.code = code[r],
                                      !.finished = TRUE]
           sent == [request[q] EXCEPT !.pc = "k_wait"]
<1>1. /\ request[q].pc = "k_term"
      /\ UNCHANGED <<registry, child, code, pid>>
  BY DEF CancelTerm, At
<1>2. r \in Runs /\ child[r] # "none" /\ code[r] \in Codes \cup {NoCode}
  BY <1>1, RequestType DEF Knows, WebInv, WebShape
<1>3. \A s \in Runs : Says(request[q].records[s], s)
  BY DEF WebInv
<1>4. CASE /\ child[r] = "exited" /\ UNCHANGED foreign
           /\ request' = [request EXCEPT ![q] = seen]
  <2>1. /\ seen \in [pc : RequestPCs, run : Runs \cup {NoRun},
                     records : [Runs -> Record], handle : BOOLEAN,
                     code : Codes \cup {NoCode}, finished : BOOLEAN]
        /\ seen.pc = "k_record" /\ seen.run = r /\ seen.code = code[r]
        /\ seen.records = request[q].records
    <3>1. "k_record" \in RequestPCs
      BY DEF RequestPCs
    <3>2. request[q] \in [pc : RequestPCs, run : Runs \cup {NoRun},
                          records : [Runs -> Record], handle : BOOLEAN,
                          code : Codes \cup {NoCode}, finished : BOOLEAN]
      BY RequestType
    <3>3. QED
      BY <1>2, <3>1, <3>2
  <2> HIDE DEF seen
  <2>2. \A s \in Runs : Says(seen.records[s], s)
    BY <1>3, <2>1
  <2>3. QED
    BY <1>1, <1>2, <1>4, <2>1, <2>2, RequestMoves
<1>5. CASE /\ pid[r] = "child" /\ UNCHANGED foreign
           /\ request' = [request EXCEPT ![q] = sent]
  <2>1. /\ sent \in [pc : RequestPCs, run : Runs \cup {NoRun},
                     records : [Runs -> Record], handle : BOOLEAN,
                     code : Codes \cup {NoCode}, finished : BOOLEAN]
        /\ sent.pc = "k_wait" /\ sent.run = r
        /\ sent.records = request[q].records
    <3>1. "k_wait" \in RequestPCs
      BY DEF RequestPCs
    <3>2. request[q] \in [pc : RequestPCs, run : Runs \cup {NoRun},
                          records : [Runs -> Record], handle : BOOLEAN,
                          code : Codes \cup {NoCode}, finished : BOOLEAN]
      BY RequestType
    <3>3. QED
      BY <3>1, <3>2
  <2> HIDE DEF sent
  <2>2. \A s \in Runs : Says(sent.records[s], s)
    BY <1>3, <2>1
  <2>3. QED
    BY <1>1, <1>2, <1>5, <2>1, <2>2, RequestMoves
<1>6. CASE Answer(q) /\ UNCHANGED foreign
  BY <1>1, <1>6, RequestAnswered DEF WebInv, WebShape
<1>7. \/ /\ child[r] = "exited" /\ UNCHANGED foreign
         /\ request' = [request EXCEPT ![q] = seen]
      \/ /\ child[r] = "alive" \/ Verified(r)
         /\ foreign' = (foreign \/ pid[r] = "other")
         /\ request' = [request EXCEPT ![q] = sent]
      \/ Answer(q) /\ UNCHANGED foreign
  BY RequestType DEF CancelTerm, Goto
<1>8. CASE /\ child[r] = "alive" \/ Verified(r)
           /\ foreign' = (foreign \/ pid[r] = "other")
           /\ request' = [request EXCEPT ![q] = sent]
  <2>1. pid[r] = "child"
    BY <1>2, <1>8 DEF Verified, WebInv
  <2>2. UNCHANGED foreign
    BY <1>8, <2>1 DEF WebInv, WebShape
  <2>3. QED
    BY <1>5, <1>8, <2>1, <2>2
<1>9. QED
  BY <1>4, <1>6, <1>7, <1>8

LEMMA CancelWaitKeeps ==
    ASSUME WebInv, NEW q \in Requests, CancelWait(q)
    PROVE  WebInv'
<1> DEFINE r == request[q].run
           gone == IF request[q].handle THEN child[r] = "exited"
                                        ELSE pid[r] = "free"
           next == IF gone THEN "k_record" ELSE "k_kill"
           seen == IF gone /\ request[q].handle THEN code[r] ELSE NoCode
           new == [request[q] EXCEPT !.pc = next, !.code = seen]
<1>1. /\ request[q].pc = "k_wait"
      /\ request' = [request EXCEPT ![q] = new]
      /\ UNCHANGED <<registry, child, code, pid, foreign>>
  BY RequestType DEF CancelWait, At, childVars
<1>2. r \in Runs /\ child[r] # "none" /\ code[r] \in Codes \cup {NoCode}
  BY <1>1, RequestType DEF Knows, WebInv, WebShape
<1>3. gone => child[r] = "exited"
  BY <1>2 DEF WebInv, WebShape
<1>4. /\ new \in [pc : RequestPCs, run : Runs \cup {NoRun},
                  records : [Runs -> Record], handle : BOOLEAN,
                  code : Codes \cup {NoCode}, finished : BOOLEAN]
      /\ new.pc = "k_record" => gone
      /\ new.run = r /\ new.records = request[q].records
      /\ new.code = 0 => new.code = code[r]
  <2>1. next \in RequestPCs /\ (next = "k_record" => gone)
    BY DEF RequestPCs
  <2>2. seen \in Codes \cup {NoCode} /\ (seen = 0 => seen = code[r])
    BY <1>2 DEF NoCode
  <2> HIDE DEF next, seen, gone
  <2>3. QED
    BY <2>1, <2>2, RequestType
<1> HIDE DEF new, gone
<1>5. \A s \in Runs : Says(new.records[s], s)
  BY <1>4 DEF WebInv
<1>6. new.pc = "k_record" => child[r] = "exited" /\ (new.code = 0 => code[r] = 0)
  BY <1>3, <1>4
<1>7. QED
  BY <1>1, <1>2, <1>4, <1>5, <1>6, RequestMoves

(* The verdict is written for a child that is gone.                        *)
LEMMA CancelRecordKeeps ==
    ASSUME WebInv, NEW q \in Requests, CancelRecord(q)
    PROVE  WebInv'
<1> DEFINE r == request[q].run
           final == IF Polled(r) THEN code[r] ELSE request[q].code
           itself == request[q].finished \/ final = 0
           verdict == [status |-> IF final = 0 THEN "done" ELSE "failed",
                       code |-> final, stopped |-> ~itself]
<1>1. /\ request[q].pc = "k_record"
      /\ registry' \in {registry, [registry EXCEPT ![r] = verdict]}
      /\ Answer(q)
      /\ UNCHANGED <<child, code, pid, foreign>>
  BY DEF CancelRecord, At, childVars
<1>2. /\ r \in Runs /\ child[r] = "exited"
      /\ request[q].code = 0 => code[r] = 0
      /\ code[r] \in Codes \cup {NoCode}
  BY <1>1, RequestType DEF Knows, WebInv, WebShape
<1>3. final \in Codes \cup {NoCode} /\ (final = 0 => code[r] = 0)
  BY <1>2, RequestType
<1> HIDE DEF final
<1>4. itself \in BOOLEAN
  OBVIOUS
<1> HIDE DEF itself
<1>5. verdict \in Record /\ Says(verdict, r)
  BY <1>2, <1>3, <1>4 DEF Record, Says
<1> HIDE DEF verdict, r
<1>6. /\ registry' \in [Runs -> Record]
      /\ \A s \in Runs : Says(registry'[s], s)
  BY <1>1, <1>2, <1>5 DEF WebInv, WebShape
<1>7. QED
  BY <1>1, <1>6, RequestAnswered

(* A kill forces the end of the child, or finds that there is none.        *)
LEMMA CancelKillKeeps ==
    ASSUME WebInv, NEW q \in Requests, CancelKill(q)
    PROVE  WebInv'
<1> DEFINE r == request[q].run
           seen == IF request[q].handle THEN code'[r] ELSE NoCode
           new == [request[q] EXCEPT !.pc = "k_record", !.code = seen]
<1>1. /\ request[q].pc = "k_kill"
      /\ UNCHANGED registry
  BY DEF CancelKill, At
<1>2. r \in Runs /\ child[r] # "none" /\ code[r] \in Codes \cup {NoCode}
  BY <1>1, RequestType DEF Knows, WebInv, WebShape
<1>3. \/ /\ request[q].handle \/ Verified(r)
         /\ foreign' = (foreign \/ (~request[q].handle /\ pid[r] = "other"))
         /\ IF child[r] = "alive" THEN Exits(r, -9) ELSE UNCHANGED childVars
         /\ request' = [request EXCEPT ![q] = new]
      \/ Answer(q) /\ UNCHANGED <<childVars, foreign>>
  BY RequestType DEF CancelKill
<1>4. CASE Answer(q) /\ UNCHANGED <<childVars, foreign>>
  BY <1>1, <1>4, RequestAnswered DEF WebInv, WebShape, childVars
<1>5. CASE /\ request[q].handle \/ Verified(r)
           /\ foreign' = (foreign \/ (~request[q].handle /\ pid[r] = "other"))
           /\ IF child[r] = "alive" THEN Exits(r, -9) ELSE UNCHANGED childVars
           /\ request' = [request EXCEPT ![q] = new]
  <2>1. foreign' = FALSE
    BY <1>5 DEF Verified, WebInv, WebShape
  <2>2. /\ child' \in [Runs -> {"none", "alive", "exited"}]
        /\ code' \in [Runs -> Codes \cup {NoCode}]
        /\ pid' \in [Runs -> {"child", "free", "other"}]
        /\ child'[r] = "exited"
        /\ \A s \in Runs : s # r => /\ child'[s] = child[s]
                                    /\ code'[s] = code[s]
                                    /\ pid'[s] = pid[s]
        /\ child[r] = "exited" => code'[r] = code[r]
        /\ \A s \in Runs : pid'[s] = "child" <=> child'[s] = "alive"
    <3>1. CASE child[r] = "alive"
      <4>1. /\ child' = [child EXCEPT ![r] = "exited"]
            /\ code' = [code EXCEPT ![r] = -9]
            /\ pid' = [pid EXCEPT ![r] = "free"]
        BY <1>5, <3>1 DEF Exits
      <4>2. /\ child \in [Runs -> {"none", "alive", "exited"}]
            /\ code \in [Runs -> Codes \cup {NoCode}]
            /\ pid \in [Runs -> {"child", "free", "other"}]
            /\ \A s \in Runs : pid[s] = "child" <=> child[s] = "alive"
        BY DEF WebInv, WebShape
      <4>3. -9 \in Codes
        BY DEF Codes
      <4>4. QED
        BY <1>2, <3>1, <4>1, <4>2, <4>3
    <3>2. CASE child[r] # "alive"
      BY <1>2, <1>5, <3>2 DEF childVars, WebInv, WebShape
    <3>3. QED
      BY <3>1, <3>2
  <2>3. GoesOn
    BY <2>2 DEF GoesOn
  <2>4. seen \in Codes \cup {NoCode} /\ (seen = 0 => seen = code'[r])
    BY <1>2, <2>2 DEF NoCode
  <2> HIDE DEF seen
  <2>5. /\ new \in [pc : RequestPCs, run : Runs \cup {NoRun},
                    records : [Runs -> Record], handle : BOOLEAN,
                    code : Codes \cup {NoCode}, finished : BOOLEAN]
        /\ new.pc = "k_record" /\ new.run = r
        /\ new.records = request[q].records /\ new.code = seen
    <3>1. "k_record" \in RequestPCs
      BY DEF RequestPCs
    <3>2. request[q] \in [pc : RequestPCs, run : Runs \cup {NoRun},
                          records : [Runs -> Record], handle : BOOLEAN,
                          code : Codes \cup {NoCode}, finished : BOOLEAN]
      BY RequestType
    <3>3. QED
      BY <2>4, <3>1, <3>2
  <2> HIDE DEF new
  <2>6. request' = [request EXCEPT ![q] = new]
    BY <1>5
  <2>7. WebShape'
    BY <1>1, <2>1, <2>2, <2>5, <2>6 DEF WebInv, WebShape
  <2>8. /\ request'[q] = new
        /\ \A p \in Requests \ {q} : request'[p] = request[p]
    BY <2>6, RequestType
  <2>9. \A s \in Runs : Says(request[q].records[s], s)'
    <3> TAKE s \in Runs
    <3>1. request[q].records[s] \in Record /\ Says(request[q].records[s], s)
      BY RequestType DEF WebInv
    <3>2. QED
      BY <2>3, <2>5, <2>8, <3>1, SaysGoesOn DEF Says
  <2>10. Knows(q)'
    BY <1>2, <2>2, <2>4, <2>5, <2>8 DEF Knows
  <2>11. \A s \in Runs : Says(registry[s], s)'
    <3> TAKE s \in Runs
    <3>1. registry[s] \in Record /\ Says(registry[s], s)
      BY DEF WebInv, WebShape
    <3>2. QED
      BY <1>1, <2>3, <3>1, SaysGoesOn DEF Says
  <2>12. QED
    BY <2>1, <2>2, <2>3, <2>7, <2>8, <2>9, <2>10, <2>11, WebKept
<1>6. QED
  BY <1>3, <1>4, <1>5

(* A child ends, and a pid is given away.                                  *)
LEMMA ChildEndsKeeps ==
    ASSUME WebInv, NEW r \in Runs, NEW c \in Codes, ChildEnds(r, c)
    PROVE  WebInv'
<1>1. /\ child[r] = "alive" /\ Exits(r, c)
      /\ UNCHANGED <<registry, request, foreign>>
  BY DEF ChildEnds
<1>2. GoesOn
  BY <1>1 DEF GoesOn, Exits, WebInv, WebShape
<1>3. WebShape' /\ \A s \in Runs : pid'[s] = "child" <=> child'[s] = "alive"
  BY <1>1 DEF Exits, WebInv, WebShape
<1>4. \A s \in Runs : Says(registry[s], s)'
  <2> TAKE s \in Runs
  <2>1. registry[s] \in Record /\ Says(registry[s], s)
    BY DEF WebInv, WebShape
  <2>2. QED
    BY <1>1, <1>2, <2>1, SaysGoesOn DEF Says
<1>5. QED
  BY <1>1, <1>2, <1>3, <1>4, ChildKept DEF WebInv

LEMMA PidReusedKeeps ==
    ASSUME WebInv, NEW r \in Runs, PidReused(r)
    PROVE  WebInv'
<1>1. /\ child[r] = "exited"
      /\ pid' = [pid EXCEPT ![r] = "other"]
      /\ UNCHANGED <<registry, request, child, code, foreign>>
  BY DEF PidReused
<1>2. WebShape' /\ \A s \in Runs : pid'[s] = "child" <=> child'[s] = "alive"
  BY <1>1 DEF WebInv, WebShape
<1>3. \A s \in Runs : Says(registry[s], s)'
  BY <1>1 DEF WebInv, Says
<1>4. QED
  BY <1>1, <1>2, <1>3, StillGoesOn, ChildKept DEF WebInv

(* A restart forgets the requests, and nothing a record was made from.     *)
LEMMA WebRestartKeeps ==
    ASSUME WebInv, WebRestart
    PROVE  WebInv'
<1>1. /\ request' = [q \in Requests |-> Idle]
      /\ UNCHANGED <<registry, child, code, pid, foreign>>
  BY DEF WebRestart, childVars
<1>2. WebShape'
  BY <1>1, IdleRequest DEF WebInv, WebShape
<1>3. \A r \in Runs : Says(registry[r], r)'
  BY <1>1 DEF WebInv, Says
<1>4. \A q \in Requests : \A r \in Runs : Says(request[q].records[r], r)'
  BY <1>1, IdleRequest DEF Says
<1>5. \A q \in Requests : Knows(q)'
  BY <1>1, IdleRequest DEF Knows
<1>6. QED
  BY <1>1, <1>2, <1>3, <1>4, <1>5 DEF WebInv

LEMMA WebStill ==
    ASSUME WebInv, UNCHANGED webVars
    PROVE  WebInv'
<1>1. UNCHANGED <<registry, child, code, pid, request, foreign>>
  BY DEF webVars
<1>2. WebShape' /\ \A r \in Runs : Says(registry[r], r)'
  BY <1>1 DEF WebInv, WebShape, Says
<1>3. QED
  BY <1>1, <1>2, StillGoesOn, ChildKept DEF WebInv

LEMMA WebServesKeeps ==
    ASSUME WebInv, WebServes
    PROVE  WebInv'
<1>1. PICK q \in Requests :
         \/ CreateHandle(q) \/ CreateRecord(q)
         \/ ListLoad(q) \/ ListSave(q)
         \/ CancelTerm(q) \/ CancelWait(q) \/ CancelRecord(q)
         \/ \E r \in Runs : Get(q, r) \/ CancelCheck(q, r)
  BY DEF WebServes
<1>2. CASE CreateHandle(q) \/ CreateRecord(q)
  BY <1>2, CreateHandleKeeps, CreateRecordKeeps
<1>3. CASE ListLoad(q) \/ ListSave(q)
  BY <1>3, ListLoadKeeps, ListSaveKeeps
<1>4. CASE CancelTerm(q) \/ CancelWait(q) \/ CancelRecord(q)
  BY <1>4, CancelTermKeeps, CancelWaitKeeps, CancelRecordKeeps
<1>5. CASE \E r \in Runs : Get(q, r) \/ CancelCheck(q, r)
  BY <1>5, GetKeeps, CancelCheckKeeps
<1>6. QED
  BY <1>1, <1>2, <1>3, <1>4, <1>5

LEMMA WebInitial == Init => WebInv
<1> SUFFICES ASSUME Init PROVE WebInv
  OBVIOUS
<1>1. /\ registry = [r \in Runs |-> NoRecord]
      /\ child = [r \in Runs |-> "none"]
      /\ code = [r \in Runs |-> NoCode]
      /\ pid = [r \in Runs |-> "free"]
      /\ request = [q \in Requests |-> Idle]
      /\ foreign = FALSE
  BY DEF Init, WebInit
<1>2. NoRecord \in Record /\ NoRecord.status = "absent"
  BY DEF NoRecord, Record, Codes, NoCode
<1>3. WebShape
  BY <1>1, <1>2, IdleRequest DEF WebShape
<1>4. \A r \in Runs : Says(registry[r], r)
  BY <1>1, <1>2 DEF Says
<1>5. \A q \in Requests : \A r \in Runs : Says(request[q].records[r], r)
  BY <1>1, IdleRequest DEF Says
<1>6. \A q \in Requests : Knows(q)
  BY <1>1, IdleRequest DEF Knows
<1>7. QED
  BY <1>1, <1>3, <1>4, <1>5, <1>6 DEF WebInv

(* What each step of the console does to the runs.                         *)
LEMMA WebStep ==
    ASSUME WebInv, [Next]_vars
    PROVE  WebInv'
<1>1. CASE \E q \in Requests : \E r \in Runs : ConsoleStart(q, r)
  BY <1>1, CreateSpawnKeeps DEF ConsoleStart
<1>2. CASE \E q \in Requests : ForcedKill(q)
  BY <1>2, CancelKillKeeps DEF ForcedKill
<1>3. ASSUME NEW c \in Codes, ChildOf(c) PROVE WebInv'
  <2>1. (\E r \in PrecardRuns : ChildEnds(r, c)) \/ UNCHANGED webVars
    BY <1>3 DEF ChildOf, Runner
  <2>2. QED
    BY <2>1, ConsoleAssumption, ChildEndsKeeps, WebStill
<1>4. CASE PipelineEnds \/ PipelineKilled
  <2>1. ChildOf(0) \/ ChildOf(1) \/ ChildOf(-15)
    BY <1>4 DEF PipelineEnds, PipelineKilled
  <2>2. 0 \in Codes /\ 1 \in Codes /\ -15 \in Codes
    BY DEF Codes
  <2>3. QED
    BY <1>3, <2>1, <2>2
<1>5. CASE OtherChildEnds \/ PidGoesOn
  <2>1. \E r \in Runs : PidReused(r) \/ \E c \in Codes : ChildEnds(r, c)
    BY <1>5 DEF OtherChildEnds, PidGoesOn
  <2>2. QED
    BY <2>1, ChildEndsKeeps, PidReusedKeeps
<1>6. CASE ConsoleRestart
  BY <1>6, WebRestartKeeps DEF ConsoleRestart
<1>7. CASE WebServes
  BY <1>7, WebServesKeeps
<1>8. CASE UNCHANGED webVars
  BY <1>8, WebStill
<1>9. TerminalStart \/ UNCHANGED vars => UNCHANGED webVars
  BY DEF TerminalStart, vars, webVars
<1>10. QED
  BY <1>1, <1>2, <1>4, <1>5, <1>6, <1>7, <1>8, <1>9 DEF Next

LEMMA WebAlways == Spec => []WebInv
<1>1. Init => WebInv
  BY WebInitial
<1>2. WebInv /\ [Next]_vars => WebInv'
  BY WebStep
<1>3. QED
  BY <1>1, <1>2, PTL DEF Spec

(* A run is shown as done only if its child exited with code 0, whoever    *)
(* settled the record: _poll_proc, a listing that had loaded older records *)
(* or a cancel (_settle_run, api_cancel_run).                              *)
THEOREM ConsoleDoneIsTruth == Spec => []DoneIsTruth
<1>1. WebInv => DoneIsTruth
  BY DEF WebInv, WebShape, Says, DoneIsTruth
<1>2. QED
  BY <1>1, WebAlways, PTL

(* No child goes on behind a record that says that it ended: a cancel      *)
(* writes its verdict only once the child is gone.                         *)
THEOREM ConsoleSettledIsDead == Spec => []SettledIsDead
<1>1. WebInv => SettledIsDead
  BY DEF WebInv, WebShape, Says, SettledIsDead
<1>2. QED
  BY <1>1, WebAlways, PTL

(* _terminate_child never signals anything but the given child, after      *)
(* restarts of the server and however often pids are given away.           *)
THEOREM ConsoleOwnChildOnly == Spec => []OwnChildOnly
<1>1. WebInv => OwnChildOnly
  BY DEF WebInv, OwnChildOnly
<1>2. QED
  BY <1>1, WebAlways, PTL

-----------------------------------------------------------------------------
(* Output of the pipeline                                                  *)

(* The console runs of the pipeline and what they made: a child is alive   *)
(* exactly while the run it made is in progress, and one that exited with  *)
(* success made a run that was written.                                    *)
RunShape ==
    /\ run \in [pc : RunPCs, stage : Nat, batch : Nat, selected : SUBSET StageIds,
                after : {"none", "batch", "stage", "stop", "write"}, wrote : BOOLEAN]
    /\ attempt \in Nat
    /\ ends \in [1..MaxAttempts -> {"none", "done", "stopped", "killed", "torn"}]

RunInv ==
    /\ RunShape
    /\ run.pc # "off" => attempt \in 1..MaxAttempts /\ ends[attempt] = "none"
    /\ \A n \in 1..MaxAttempts : n > attempt => ends[n] = "none"

Made(r) ==
    /\ made[r] \in 0..attempt
    /\ child[r] = "none" <=> made[r] = 0
    /\ child[r] = "alive" <=> run.pc # "off" /\ made[r] = attempt
    /\ child[r] = "exited" /\ code[r] = 0
          => made[r] \in 1..MaxAttempts /\ ends[made[r]] = "done"

MadeInv ==
    /\ RunInv
    /\ made \in [PrecardRuns -> Nat]
    /\ \A r \in PrecardRuns : Made(r)
    /\ \A r, s \in PrecardRuns : made[r] # 0 /\ made[r] = made[s] => r = s

LEMMA AttemptsBound == MaxAttempts \in Nat
  BY PrecardAssumption

LEMMA MadeInitial == Init => MadeInv
<1> SUFFICES ASSUME Init PROVE MadeInv
  OBVIOUS
<1>1. /\ run = NoRunYet /\ attempt = 0
      /\ ends = [n \in 1..MaxAttempts |-> "none"]
      /\ made = [r \in PrecardRuns |-> 0]
      /\ \A r \in PrecardRuns : child[r] = "none"
  BY ConsoleAssumption DEF Init, RunInit, WebInit
<1>2. RunShape
  BY <1>1 DEF RunShape, NoRunYet, RunPCs
<1>3. RunInv
  BY <1>1, <1>2 DEF RunInv, NoRunYet
<1>4. run.pc = "off"
  BY <1>1 DEF NoRunYet
<1>5. ASSUME NEW r \in PrecardRuns PROVE Made(r)
  <2>1. made[r] = 0 /\ child[r] = "none"
    BY <1>1
  <2>2. QED
    BY <1>1, <1>4, <2>1 DEF Made
<1>6. QED
  BY <1>1, <1>3, <1>5 DEF MadeInv

(* Steps of the run in progress leave it in progress.                      *)
LEMMA RunGoesOn ==
    ASSUME RunShape, RunStep
    PROVE  RunShape' /\ run.pc # "off" /\ run'.pc # "off" /\ UNCHANGED <<attempt, ends>>
<1>1. CASE Work
  BY <1>1 DEF Work, Save, RunShape, RunPCs
<1>2. CASE Stop
  BY <1>2 DEF Stop, Save, RunShape, RunPCs
<1>3. CASE StageEnds
  <2>1. /\ run.pc = "work" /\ UNCHANGED <<attempt, ends>>
        /\ \/ run' = Save("stage")
           \/ run' = [run EXCEPT !.pc = "queue"]
           \/ run' = [run EXCEPT !.stage = @ + 1, !.batch = 1]
    BY <1>3 DEF StageEnds
  <2>2. CASE run' = Save("stage")
    BY <2>1, <2>2 DEF Save, RunShape, RunPCs
  <2>3. CASE run' = [run EXCEPT !.pc = "queue"]
    BY <2>1, <2>3 DEF RunShape, RunPCs
  <2>4. CASE run' = [run EXCEPT !.stage = @ + 1, !.batch = 1]
    <3>1. run.stage + 1 \in Nat
      BY DEF RunShape
    <3>2. run' = [run EXCEPT !.stage = run.stage + 1, !.batch = 1]
      BY <2>4 DEF RunShape
    <3> HIDE <2>4
    <3>3. QED
      BY <2>1, <3>1, <3>2 DEF RunShape, RunPCs
  <2>5. QED
    BY <2>1, <2>2, <2>3, <2>4
<1>4. CASE FlushFile
  <2>1. /\ run.pc = "flush" /\ UNCHANGED <<attempt, ends>>
        /\ run' = [run EXCEPT !.wrote = TRUE]
    BY <1>4 DEF FlushFile
  <2>2. QED
    BY <2>1 DEF RunShape, RunPCs
<1>5. CASE FlushDone
  <2>1. /\ run.pc = "flush" /\ UNCHANGED <<attempt, ends>>
        /\ \/ run' = [run EXCEPT !.pc = "work", !.batch = run.batch + 1]
           \/ run' = [run EXCEPT !.pc = "work", !.stage = run.stage + 1, !.batch = 1]
    BY <1>5 DEF FlushDone, RunShape
  <2>2. run.stage + 1 \in Nat /\ run.batch + 1 \in Nat
    BY DEF RunShape
  <2>3. CASE run' = [run EXCEPT !.pc = "work", !.batch = run.batch + 1]
    BY <2>1, <2>2, <2>3 DEF RunShape, RunPCs
  <2>4. CASE run' = [run EXCEPT !.pc = "work", !.stage = run.stage + 1, !.batch = 1]
    BY <2>1, <2>2, <2>4 DEF RunShape, RunPCs
  <2>5. QED
    BY <2>1, <2>3, <2>4
<1>6. CASE QueueRow
  BY <1>6 DEF QueueRow, RunShape
<1>7. CASE QueueDone
  BY <1>7 DEF QueueDone, Save, RunShape, RunPCs
<1>8. QED
  BY <1>1, <1>2, <1>3, <1>4, <1>5, <1>6, <1>7 DEF RunStep

(* A step that leaves the children of pipeline runs and what they made.    *)
LEMMA MadeKept ==
    ASSUME MadeInv, UNCHANGED made,
           \A r \in PrecardRuns : child'[r] = child[r] /\ code'[r] = code[r],
           \/ RunStep
           \/ UNCHANGED <<run, attempt, ends>>
    PROVE  MadeInv'
<1>1. /\ RunShape' /\ UNCHANGED <<attempt, ends>>
      /\ run.pc = "off" <=> run'.pc = "off"
  BY RunGoesOn DEF MadeInv, RunInv, RunShape
<1>2. RunInv'
  BY <1>1 DEF MadeInv, RunInv
<1>3. \A r \in PrecardRuns : Made(r)'
  BY <1>1 DEF MadeInv, Made
<1>4. QED
  BY <1>1, <1>2, <1>3 DEF MadeInv

(* A run begins, from a terminal or as the child of a console run.         *)
LEMMA RunBegins ==
    ASSUME MadeInv, NEW resume, NEW selected \in SUBSET StageIds, NEW rekey,
           Start(resume, selected, rekey)
    PROVE  /\ RunInv' /\ run.pc = "off" /\ run'.pc # "off"
           /\ attempt' = attempt + 1 /\ UNCHANGED ends
<1>0. RunShape /\ RunInv
  BY DEF MadeInv, RunInv
<1>1. /\ run.pc = "off" /\ attempt < MaxAttempts
      /\ attempt' = attempt + 1 /\ UNCHANGED ends
      /\ run' = [NoRunYet EXCEPT !.pc = "work", !.selected = selected]
  BY DEF Start
<1>2. /\ run' \in [pc : RunPCs, stage : Nat, batch : Nat, selected : SUBSET StageIds,
                     after : {"none", "batch", "stage", "stop", "write"},
                     wrote : BOOLEAN]
      /\ run'.pc = "work"
  BY <1>1 DEF NoRunYet, RunPCs
<1>3. RunShape'
  BY <1>0, <1>1, <1>2 DEF RunShape
<1>4. attempt' \in 1..MaxAttempts /\ ends[attempt'] = "none"
  BY <1>0, <1>1, AttemptsBound DEF RunInv, RunShape
<1>5. \A n \in 1..MaxAttempts : n > attempt' => ends[n] = "none"
  BY <1>0, <1>1, AttemptsBound DEF RunInv, RunShape
<1>6. QED
  BY <1>1, <1>2, <1>3, <1>4, <1>5 DEF RunInv

LEMMA MadeByConsole ==
    ASSUME MadeInv, WebInv, NEW q \in Requests, NEW r \in Runs, ConsoleStart(q, r)
    PROVE  MadeInv'
<1>1. /\ child[r] = "none" /\ child' = [child EXCEPT ![r] = "alive"]
      /\ UNCHANGED code
  BY DEF ConsoleStart, CreateSpawn
<1>2. \A s \in Runs : s # r => child'[s] = child[s]
  BY <1>1 DEF WebInv, WebShape
<1>3. CASE r \in PrecardRuns
  <2>1. /\ RunInv' /\ run.pc = "off" /\ run'.pc # "off"
        /\ attempt' = attempt + 1 /\ UNCHANGED ends
        /\ made' = [made EXCEPT ![r] = attempt + 1]
    <3>1. PICK resume \in BOOLEAN : Start(resume, StageIds, {})
      BY <1>3 DEF ConsoleStart
    <3>2. made' = [made EXCEPT ![r] = attempt + 1]
      BY <1>3 DEF ConsoleStart
    <3>3. QED
      BY <3>1, <3>2, RunBegins
  <2>2. attempt \in Nat /\ made \in [PrecardRuns -> Nat]
    BY DEF MadeInv, RunInv, RunShape
  <2>3. /\ child'[r] = "alive" /\ made'[r] = attempt + 1
        /\ made' \in [PrecardRuns -> Nat]
        /\ \A s \in PrecardRuns : s # r => made'[s] = made[s]
    BY <1>1, <1>3, <2>1, <2>2 DEF WebInv, WebShape
  <2>4. \A s \in PrecardRuns : made[s] \in 0..attempt
    BY DEF MadeInv, Made
  <2>5. ASSUME NEW s \in PrecardRuns PROVE Made(s)'
    <3>1. CASE s = r
      BY <2>1, <2>2, <2>3, <3>1 DEF Made
    <3>2. CASE s # r
      <4>1. /\ child'[s] = child[s] /\ made'[s] = made[s] /\ code'[s] = code[s]
            /\ Made(s)
        BY <1>1, <1>2, <2>3, <3>2, ConsoleAssumption DEF MadeInv
      <4>2. QED
        BY <2>1, <2>2, <4>1 DEF Made
    <3>3. QED
      BY <3>1, <3>2
  <2>6. \A s, t \in PrecardRuns : made'[s] # 0 /\ made'[s] = made'[t] => s = t
    BY <2>2, <2>3, <2>4 DEF MadeInv
  <2>7. QED
    BY <2>1, <2>3, <2>5, <2>6 DEF MadeInv
<1>4. CASE r \notin PrecardRuns
  <2>1. UNCHANGED <<run, attempt, ends, made>>
    BY <1>4 DEF ConsoleStart, runVars
  <2>2. QED
    BY <1>1, <1>2, <1>4, <2>1, ConsoleAssumption, MadeKept
<1>5. QED
  BY <1>3, <1>4

LEMMA MadeByTerminal ==
    ASSUME MadeInv, TerminalStart
    PROVE  MadeInv'
<1>1. UNCHANGED <<child, code, made>>
  BY DEF TerminalStart, webVars
<1>2. PICK resume \in BOOLEAN, selected \in Selections, rekey \in Rekeys :
         Start(resume, selected, rekey)
  BY DEF TerminalStart
<1>3. selected \in SUBSET StageIds
  BY PrecardAssumption DEF StageIds
<1>4. /\ RunInv' /\ run.pc = "off" /\ run'.pc # "off"
      /\ attempt' = attempt + 1 /\ UNCHANGED ends
  BY <1>2, <1>3, RunBegins
<1>5. attempt \in Nat
  BY DEF MadeInv, RunInv, RunShape
<1>6. ASSUME NEW r \in PrecardRuns PROVE Made(r)'
  <2>1. Made(r) /\ made'[r] = made[r] /\ child'[r] = child[r] /\ code'[r] = code[r]
    BY <1>1 DEF MadeInv
  <2>2. QED
    BY <1>4, <1>5, <2>1 DEF Made
<1>7. QED
  BY <1>1, <1>4, <1>6 DEF MadeInv

(* A run ends, and with it the child that made it, if there is one: with   *)
(* success only if the run was written.                                    *)
LEMMA MadeEnds ==
    ASSUME MadeInv, NEW how \in {"done", "stopped", "killed", "torn"}, NEW c \in Codes,
           run.pc # "off", RunEnds(how), UNCHANGED made,
           c = 0 => how = "done",
           \A r \in PrecardRuns :
              IF made[r] = attempt THEN child'[r] = "exited" /\ code'[r] = c
              ELSE child'[r] = child[r] /\ code'[r] = code[r]
    PROVE  MadeInv'
<1>1. /\ run' = NoRunYet /\ UNCHANGED attempt
      /\ ends' = [ends EXCEPT ![attempt] = how]
  BY DEF RunEnds
<1>2. run'.pc = "off" /\ RunShape'
  BY <1>1 DEF MadeInv, RunInv, RunShape, NoRunYet, RunPCs
<1>3. /\ attempt \in 1..MaxAttempts /\ ends[attempt] = "none"
      /\ ends'[attempt] = how
      /\ \A n \in 1..MaxAttempts : n # attempt => ends'[n] = ends[n]
  BY <1>1, AttemptsBound DEF MadeInv, RunInv, RunShape
<1>4. RunInv'
  BY <1>1, <1>2, <1>3, AttemptsBound DEF MadeInv, RunInv
<1>5. ASSUME NEW r \in PrecardRuns PROVE Made(r)'
  <2>1. Made(r) /\ made'[r] = made[r]
    BY DEF MadeInv
  <2>2. CASE made[r] = attempt
    BY <1>1, <1>2, <1>3, <2>1, <2>2, AttemptsBound DEF Made
  <2>3. CASE made[r] # attempt
    BY <1>1, <1>2, <1>3, <2>1, <2>3, AttemptsBound DEF Made
  <2>4. QED
    BY <2>2, <2>3
<1>6. QED
  BY <1>4, <1>5 DEF MadeInv

(* Which child ends with the run.                                          *)
LEMMA ChildOfRun ==
    ASSUME MadeInv, WebInv, run.pc # "off", NEW c \in Codes, ChildOf(c),
           NEW r \in PrecardRuns
    PROVE  IF made[r] = attempt THEN child'[r] = "exited" /\ code'[r] = c
           ELSE child'[r] = child[r] /\ code'[r] = code[r]
<1>1. r \in Runs /\ Made(r) /\ attempt \in Nat /\ attempt # 0
  BY ConsoleAssumption DEF MadeInv, RunInv, RunShape
<1>2. CASE Runner = {}
  <2>1. made[r] # attempt /\ UNCHANGED webVars
    BY <1>2 DEF Runner, ChildOf
  <2>2. QED
    BY <2>1 DEF webVars
<1>3. CASE Runner # {}
  <2>1. PICK s \in Runner : ChildEnds(s, c)
    BY <1>3 DEF ChildOf
  <2>2. s \in Runs /\ s \in PrecardRuns /\ made[s] = attempt
    BY ConsoleAssumption DEF Runner
  <2>3. made[r] = attempt <=> r = s
    BY <1>1, <2>2 DEF MadeInv
  <2>4. /\ child' = [child EXCEPT ![s] = "exited"]
        /\ code' = [code EXCEPT ![s] = c]
    BY <2>1 DEF ChildEnds, Exits
  <2>5. QED
    BY <1>1, <2>2, <2>3, <2>4 DEF WebInv, WebShape
<1>4. QED
  BY <1>2, <1>3

LEMMA MadeStep ==
    ASSUME MadeInv, WebInv, [Next]_vars
    PROVE  MadeInv'
<1>1. CASE \E q \in Requests : \E r \in Runs : ConsoleStart(q, r)
  BY <1>1, MadeByConsole
<1>2. CASE TerminalStart
  BY <1>2, MadeByTerminal
<1>3. CASE PipelineEnds
  <2>1. CASE RunStops /\ ChildOf(1)
    <3>1. run.pc # "off" /\ RunEnds("stopped") /\ UNCHANGED made /\ 1 \in Codes
      BY <2>1 DEF RunStops, ChildOf, Codes
    <3>2. QED
      BY <2>1, <3>1, ChildOfRun, MadeEnds
  <2>2. CASE RunWrites /\ ChildOf(0)
    <3>1. run.pc # "off" /\ RunEnds("done") /\ UNCHANGED made /\ 0 \in Codes
      BY <2>2 DEF RunWrites, ChildOf, Codes
    <3>2. QED
      BY <2>2, <3>1, ChildOfRun, MadeEnds
  <2>3. QED
    BY <1>3, <2>1, <2>2 DEF PipelineEnds
<1>4. CASE PipelineKilled
  <2>1. /\ run.pc # "off" /\ UNCHANGED made /\ -15 \in Codes /\ ChildOf(-15)
        /\ RunEnds("torn") \/ RunEnds("killed")
    BY <1>4 DEF PipelineKilled, RunKilled, ChildOf, Codes
  <2>2. QED
    BY <2>1, ChildOfRun, MadeEnds
<1>5. CASE \E q \in Requests : ForcedKill(q)
  <2>1. PICK q \in Requests : ForcedKill(q)
    BY <1>5
  <2> DEFINE r == request[q].run
  <2>2. CancelKill(q) /\ UNCHANGED made /\ r \in Runs
    BY <2>1, RequestType DEF ForcedKill, CancelKill, At, Knows
  <2>3. ASSUME NEW s \in PrecardRuns PROVE s \in Runs /\ Made(s)
    BY ConsoleAssumption DEF MadeInv
  <2>4. CASE child[r] = "alive" /\ Exits(r, -9)
    <3>1. /\ child'[r] = "exited" /\ code'[r] = -9
          /\ \A s \in Runs : s # r => child'[s] = child[s] /\ code'[s] = code[s]
      BY <2>2, <2>4 DEF Exits, WebInv, WebShape
    <3>2. CASE r \in PrecardRuns
      <4>1. r \in Runner /\ made[r] = attempt
        BY <2>3, <2>4, <3>2 DEF Made, Runner
      <4>2. /\ run.pc # "off" /\ -9 \in Codes
            /\ RunEnds("torn") \/ RunEnds("killed")
        BY <2>1, <3>1, <4>1 DEF ForcedKill, RunKilled, Codes
      <4>3. \A s \in PrecardRuns : made[s] = attempt <=> s = r
        BY <2>3, <3>2, <4>1, <4>2 DEF MadeInv, RunInv, RunShape
      <4>4. \A s \in PrecardRuns :
               IF made[s] = attempt THEN child'[s] = "exited" /\ code'[s] = -9
               ELSE child'[s] = child[s] /\ code'[s] = code[s]
        BY <2>3, <3>1, <4>3
      <4>5. QED
        BY <2>2, <4>2, <4>4, MadeEnds
    <3>3. CASE r \notin PrecardRuns
      <4>1. \A s \in PrecardRuns : child'[s] = child[s] /\ code'[s] = code[s]
        BY <2>3, <3>1, <3>3
      <4>2. \A s \in Runner : child'[s] # "exited"
        BY <2>3, <4>1 DEF Runner, Made
      <4>3. UNCHANGED <<run, attempt, ends>>
        BY <2>1, <4>2 DEF ForcedKill, runVars
      <4>4. QED
        BY <2>2, <4>1, <4>3, MadeKept
    <3>4. QED
      BY <3>2, <3>3
  <2>5. CASE UNCHANGED childVars
    <3>1. \A s \in PrecardRuns : child'[s] = child[s] /\ code'[s] = code[s]
      BY <2>5 DEF childVars
    <3>2. \A s \in Runner : child'[s] # "exited"
      BY <2>3, <3>1 DEF Runner, Made
    <3>3. UNCHANGED <<run, attempt, ends>>
      BY <2>1, <3>2 DEF ForcedKill, runVars
    <3>4. QED
      BY <2>2, <3>1, <3>3, MadeKept
  <2>6. QED
    BY <2>2, <2>4, <2>5 DEF CancelKill
<1>6. CASE OtherChildEnds
  <2>1. /\ UNCHANGED <<run, attempt, ends, made>>
        /\ \E r \in Runs \ PrecardRuns, c \in Codes : ChildEnds(r, c)
    BY <1>6 DEF OtherChildEnds, runVars
  <2>2. \A s \in PrecardRuns : child'[s] = child[s] /\ code'[s] = code[s]
    BY <2>1, ConsoleAssumption DEF ChildEnds, Exits, WebInv, WebShape
  <2>3. QED
    BY <2>1, <2>2, MadeKept
<1>7. CASE PidGoesOn \/ ConsoleRestart
  <2>1. UNCHANGED <<child, code, run, attempt, ends, made>>
    BY <1>7 DEF PidGoesOn, PidReused, ConsoleRestart, WebRestart, childVars, runVars
  <2>2. QED
    BY <2>1, MadeKept
<1>8. CASE WebServes /\ UNCHANGED <<jobVars, runVars, made>>
  <2>1. UNCHANGED <<child, code>>
    BY <1>8 DEF WebServes, CreateHandle, CreateRecord, ListLoad, ListSave, Get,
                CancelCheck, CancelTerm, CancelWait, CancelRecord, childVars
  <2>2. QED
    BY <1>8, <2>1, MadeKept DEF runVars
<1>9. CASE RunStep /\ UNCHANGED <<webVars, jobVars, made>>
  BY <1>9, MadeKept DEF webVars
<1>10. CASE UNCHANGED <<webVars, runVars, made>>
  BY <1>10, MadeKept DEF webVars, runVars
<1>11. QED
  BY <1>1, <1>2, <1>3, <1>4, <1>5, <1>6, <1>7, <1>8, <1>9, <1>10 DEF Next, vars

(* A console run of the pipeline that is shown as done has written its     *)
(* output: neither a run that stopped at a limit (SystemExit) nor one that *)
(* was killed or cancelled is settled as done.                             *)
THEOREM ConsoleDoneHasOutput == Spec => []DoneHasOutput
<1>1. WebInv /\ MadeInv => DoneHasOutput
  <2> SUFFICES ASSUME WebInv, MadeInv, NEW r \in PrecardRuns,
                      registry[r].status = "done"
               PROVE  made[r] # 0 /\ ends[made[r]] = "done"
    BY DEF DoneHasOutput
  <2>1. child[r] = "exited" /\ code[r] = 0
    BY ConsoleAssumption DEF WebInv, WebShape, Says
  <2>2. QED
    BY <2>1 DEF MadeInv, Made
<1>2. Init => MadeInv
  BY MadeInitial
<1>3. MadeInv /\ WebInv /\ [Next]_vars => MadeInv'
  BY MadeStep
<1>4. QED
  BY <1>1, <1>2, <1>3, WebAlways, PTL DEF Spec

-----------------------------------------------------------------------------
(* Which requests take a record away                                       *)

(* A run that is being created has no record yet, neither in the registry  *)
(* nor in the copy of any request, and nobody else creates it.             *)
Creating(q) == request[q].pc \in {"c_handle", "c_record"}

FreshInv ==
    \A q \in Requests : Creating(q) =>
        /\ registry[request[q].run].status = "absent"
        /\ \A p \in Requests : request[p].records[request[q].run].status = "absent"
        /\ \A p \in Requests : p # q /\ Creating(p)
                                  => request[p].run # request[q].run

LEMMA FreshKept ==
    ASSUME WebInv, FreshInv,
           \A q \in Requests : Creating(q)' =>
               /\ Creating(q) /\ request'[q].run = request[q].run
               /\ registry'[request[q].run].status = "absent",
           \A q \in Requests : \A r \in Runs :
               \/ request'[q].records[r].status = "absent"
               \/ request'[q].records[r] \in {request[q].records[r], registry[r]}
    PROVE  FreshInv'
<1> SUFFICES ASSUME NEW q \in Requests, Creating(q)'
             PROVE  /\ registry'[request'[q].run].status = "absent"
                    /\ \A p \in Requests :
                          request'[p].records[request'[q].run].status = "absent"
                    /\ \A p \in Requests : p # q /\ Creating(p)'
                          => request'[p].run # request'[q].run
  BY DEF FreshInv
<1>1. /\ Creating(q) /\ request'[q].run = request[q].run
      /\ registry'[request[q].run].status = "absent"
      /\ request[q].run \in Runs
  BY RequestType DEF Knows, Creating
<1>2. ASSUME NEW p \in Requests
      PROVE  request'[p].records[request[q].run].status = "absent"
  BY <1>1 DEF FreshInv
<1>3. ASSUME NEW p \in Requests, p # q, Creating(p)'
      PROVE  request'[p].run # request[q].run
  BY <1>1, <1>3 DEF FreshInv
<1>4. QED
  BY <1>1, <1>2, <1>3

(* A request that moves on, creating no other run than before.             *)
LEMMA FreshMoves ==
    ASSUME WebInv, FreshInv, NEW q \in Requests, NEW new,
           request' = [request EXCEPT ![q] = new],
           new.pc \in {"c_handle", "c_record"} => Creating(q) /\ new.run = request[q].run,
           \A r \in Runs : \/ new.records[r].status = "absent"
                           \/ new.records[r] \in {request[q].records[r], registry[r]},
           \A p \in Requests : Creating(p) /\ (p # q \/ new.pc # "idle")
               => registry'[request[p].run].status = "absent"
    PROVE  FreshInv'
<1>1. /\ request'[q] = new
      /\ \A p \in Requests \ {q} : request'[p] = request[p]
  BY RequestType
<1>2. ASSUME NEW p \in Requests, Creating(p)'
      PROVE  /\ Creating(p) /\ request'[p].run = request[p].run
             /\ registry'[request[p].run].status = "absent"
  <2>1. CASE p = q
    BY <1>1, <1>2, <2>1 DEF Creating
  <2>2. CASE p # q
    <3>1. Creating(p) /\ request'[p] = request[p]
      BY <1>1, <1>2, <2>2 DEF Creating
    <3>2. QED
      BY <2>2, <3>1
  <2>3. QED
    BY <2>1, <2>2
<1>3. QED
  BY <1>1, <1>2, FreshKept

(* A cancel only goes on with its own run.                                 *)
LEMMA FreshCancel ==
    ASSUME WebInv, FreshInv, NEW q \in Requests, UNCHANGED registry,
           NEW new, request' = [request EXCEPT ![q] = new],
           new.pc \notin {"c_handle", "c_record"},
           new.records \in {request[q].records, Idle.records}
    PROVE  FreshInv'
<1>1. \A r \in Runs : \/ new.records[r].status = "absent"
                      \/ new.records[r] \in {request[q].records[r], registry[r]}
  BY IdleRequest
<1>2. \A p \in Requests : Creating(p) => registry'[request[p].run].status = "absent"
  BY DEF FreshInv
<1>3. QED
  BY <1>1, <1>2, FreshMoves

LEMMA FreshAnswered ==
    ASSUME WebInv, FreshInv, NEW q \in Requests, Answer(q),
           \A p \in Requests : Creating(p) /\ p # q
               => registry'[request[p].run].status = "absent"
    PROVE  FreshInv'
<1>1. request' = [request EXCEPT ![q] = Idle]
  BY DEF Answer
<1>2. QED
  BY <1>1, IdleRequest, FreshMoves

LEMMA FreshByConsole ==
    ASSUME WebInv, FreshInv, NEW q \in Requests, NEW r \in Runs, CreateSpawn(q, r)
    PROVE  FreshInv'
<1> DEFINE mine == [Idle EXCEPT !.pc = "c_handle", !.run = r]
<1>1. /\ child[r] = "none" /\ UNCHANGED registry
      /\ request' = [request EXCEPT ![q] = mine]
  BY DEF CreateSpawn
<1>2. mine.pc = "c_handle" /\ mine.run = r /\ mine.records = Idle.records
  BY DEF Idle
<1> HIDE DEF mine
<1>3. /\ request'[q] = mine
      /\ \A p \in Requests \ {q} : request'[p] = request[p]
  BY <1>1, RequestType
<1>4. /\ registry[r].status = "absent"
      /\ \A p \in Requests : request[p].records[r].status = "absent"
  BY <1>1, RequestType DEF WebInv, Says
<1>5. \A p \in Requests : Creating(p) => request[p].run # r
  BY <1>1, RequestType DEF Knows, Creating
<1>6. \A p \in Requests : \A s \in Runs : \/ request'[p].records[s].status = "absent"
                                          \/ request'[p] = request[p]
  BY <1>2, <1>3, IdleRequest
<1>7. \A p \in Requests : Creating(p)' =>
         \/ p = q /\ request'[p].run = r
         \/ p # q /\ Creating(p) /\ request'[p] = request[p]
  BY <1>2, <1>3 DEF Creating
<1>8. \A p \in Requests : Creating(p) => request[p].run \in Runs
  BY RequestType DEF Knows, Creating
<1>9. ASSUME NEW p \in Requests, Creating(p)'
      PROVE  /\ registry'[request'[p].run].status = "absent"
             /\ \A s \in Requests :
                   request'[s].records[request'[p].run].status = "absent"
             /\ \A s \in Requests : s # p /\ Creating(s)'
                   => request'[s].run # request'[p].run
  <2>1. CASE p = q
    BY <1>1, <1>4, <1>5, <1>6, <1>7, <1>9, <2>1
  <2>2. CASE p # q
    BY <1>1, <1>5, <1>6, <1>7, <1>8, <1>9, <2>2 DEF FreshInv
  <2>3. QED
    BY <2>1, <2>2
<1>10. QED
  BY <1>9 DEF FreshInv

LEMMA FreshStill ==
    ASSUME WebInv, FreshInv, UNCHANGED <<registry, request>>
    PROVE  FreshInv'
  BY DEF FreshInv, Creating

LEMMA FreshServes ==
    ASSUME WebInv, FreshInv, WebServes
    PROVE  FreshInv'
<1>1. ASSUME NEW q \in Requests, CreateHandle(q)
      PROVE  FreshInv'
  <2> DEFINE new == [request[q] EXCEPT !.pc = "c_record"]
  <2>1. /\ request[q].pc = "c_handle" /\ UNCHANGED registry
        /\ request' = [request EXCEPT ![q] = new]
    BY <1>1, RequestType DEF CreateHandle, At, Goto
  <2>2. new.pc = "c_record" /\ new.run = request[q].run /\ new.records = request[q].records
    BY RequestType
  <2> HIDE DEF new
  <2>3. \A p \in Requests : Creating(p) => registry'[request[p].run].status = "absent"
    BY <2>1 DEF FreshInv
  <2>4. Creating(q)
    BY <2>1 DEF Creating
  <2>5. QED
    BY <2>1, <2>2, <2>3, <2>4, FreshMoves
<1>2. ASSUME NEW q \in Requests, CreateRecord(q)
      PROVE  FreshInv'
  <2>1. /\ Creating(q) /\ Answer(q)
        /\ registry' = [registry EXCEPT ![request[q].run] = Running]
    BY <1>2 DEF CreateRecord, At, Creating
  <2>2. ASSUME NEW p \in Requests, Creating(p), p # q
        PROVE  registry'[request[p].run].status = "absent"
    <3>1. /\ request[p].run # request[q].run /\ request[p].run \in Runs
          /\ registry[request[p].run].status = "absent"
      BY <2>1, <2>2, RequestType DEF FreshInv, Knows, Creating
    <3>2. QED
      BY <2>1, <3>1 DEF WebInv, WebShape
  <2>3. QED
    BY <2>1, <2>2, FreshAnswered
<1>3. ASSUME NEW q \in Requests, ListLoad(q)
      PROVE  FreshInv'
  <2> DEFINE new == [Idle EXCEPT !.pc = "l_save", !.records = registry]
  <2>1. UNCHANGED registry /\ request' = [request EXCEPT ![q] = new]
    BY <1>3 DEF ListLoad
  <2>2. new.pc = "l_save" /\ new.records = registry
    BY DEF Idle
  <2> HIDE DEF new
  <2>3. \A p \in Requests : Creating(p) => registry'[request[p].run].status = "absent"
    BY <2>1 DEF FreshInv
  <2>4. QED
    BY <2>1, <2>2, <2>3, FreshMoves
<1>4. ASSUME NEW q \in Requests, ListSave(q)
      PROVE  FreshInv'
  <2> DEFINE loaded == request[q].records
             polled == {r \in Runs : loaded[r].status # "absent" /\ Polled(r)}
             settled == [r \in Runs |->
                            IF r \in polled /\ loaded[r].status = "running"
                            THEN Settled(r) ELSE loaded[r]]
  <2>1. Answer(q) /\ registry' \in {settled, registry}
    BY <1>4 DEF ListSave
  <2>2. ASSUME NEW p \in Requests, Creating(p)
        PROVE  registry'[request[p].run].status = "absent"
    <3>1. /\ request[p].run \in Runs
          /\ registry[request[p].run].status = "absent"
          /\ loaded[request[p].run].status = "absent"
      BY <2>2, RequestType DEF FreshInv, Knows, Creating
    <3>2. settled[request[p].run].status = "absent"
      BY <3>1
    <3>3. QED
      BY <2>1, <3>1, <3>2
  <2>3. QED
    BY <2>1, <2>2, FreshAnswered
<1>5. ASSUME NEW q \in Requests, NEW r \in Runs, Get(q, r)
      PROVE  FreshInv'
  <2>1. /\ UNCHANGED request /\ registry[r].status # "absent"
        /\ registry' = [registry EXCEPT ![r] =
               IF @.status = "running" THEN Settled(r) ELSE @]
    BY <1>5 DEF Get
  <2>2. \A s \in Runs : registry[s].status = "absent" => registry'[s] = registry[s]
    BY <2>1 DEF WebInv, WebShape
  <2>3. \A p \in Requests : Creating(p) =>
           request[p].run \in Runs /\ registry[request[p].run].status = "absent"
    BY RequestType DEF FreshInv, Knows, Creating
  <2>4. QED
    BY <2>1, <2>2, <2>3 DEF FreshInv, Creating
<1>6. ASSUME NEW q \in Requests, CancelRecord(q)
      PROVE  FreshInv'
  <2>1. /\ Answer(q)
        /\ \/ UNCHANGED registry
           \/ /\ registry[request[q].run].status = "running"
              /\ \E new : registry' = [registry EXCEPT ![request[q].run] = new]
    BY <1>6 DEF CancelRecord
  <2>2. \A s \in Runs : registry[s].status = "absent" => registry'[s] = registry[s]
    BY <2>1 DEF WebInv, WebShape
  <2>3. \A p \in Requests : Creating(p) =>
           request[p].run \in Runs /\ registry[request[p].run].status = "absent"
    BY RequestType DEF FreshInv, Knows, Creating
  <2>4. QED
    BY <2>1, <2>2, <2>3, FreshAnswered
<1>7. ASSUME NEW q \in Requests, NEW r \in Runs, CancelCheck(q, r)
      PROVE  FreshInv'
  <2> DEFINE new == [Idle EXCEPT !.pc = "k_term", !.run = r, !.handle = r \in procs]
  <2>1. UNCHANGED registry /\ request' = [request EXCEPT ![q] = new]
    BY <1>7 DEF CancelCheck
  <2>2. new.pc = "k_term" /\ new.records = Idle.records
    BY DEF Idle
  <2> HIDE DEF new
  <2>3. QED
    BY <2>1, <2>2, FreshCancel
<1>8. ASSUME NEW q \in Requests, CancelTerm(q)
      PROVE  FreshInv'
  <2> DEFINE r == request[q].run
             seen == [request[q] EXCEPT !.pc = "k_record", !.code = code[r],
                                        !.finished = TRUE]
             sent == [request[q] EXCEPT !.pc = "k_wait"]
  <2>1. /\ UNCHANGED registry
        /\ \/ request' = [request EXCEPT ![q] = seen]
           \/ request' = [request EXCEPT ![q] = sent]
           \/ request' = [request EXCEPT ![q] = Idle]
    BY <1>8, RequestType DEF CancelTerm, Goto, Answer
  <2>2. /\ seen.pc = "k_record" /\ seen.records = request[q].records
        /\ sent.pc = "k_wait" /\ sent.records = request[q].records
    BY RequestType
  <2> HIDE DEF seen, sent
  <2>3. QED
    BY <2>1, <2>2, IdleRequest, FreshCancel
<1>9. ASSUME NEW q \in Requests, CancelWait(q)
      PROVE  FreshInv'
  <2> DEFINE r == request[q].run
             gone == IF request[q].handle THEN child[r] = "exited"
                                          ELSE pid[r] = "free"
             next == IF gone THEN "k_record" ELSE "k_kill"
             seen == IF gone /\ request[q].handle THEN code[r] ELSE NoCode
             new == [request[q] EXCEPT !.pc = next, !.code = seen]
  <2>1. UNCHANGED registry /\ request' = [request EXCEPT ![q] = new]
    BY <1>9, RequestType DEF CancelWait
  <2>2. next \in {"k_record", "k_kill"}
    OBVIOUS
  <2> HIDE DEF next, seen
  <2>3. new.pc = next /\ new.records = request[q].records
    BY RequestType
  <2> HIDE DEF new
  <2>4. QED
    BY <2>1, <2>2, <2>3, FreshCancel
<1>10. PICK q \in Requests :
         \/ CreateHandle(q) \/ CreateRecord(q)
         \/ ListLoad(q) \/ ListSave(q)
         \/ CancelTerm(q) \/ CancelWait(q) \/ CancelRecord(q)
         \/ \E r \in Runs : Get(q, r) \/ CancelCheck(q, r)
  BY DEF WebServes
<1>11. QED
  BY <1>1, <1>2, <1>3, <1>4, <1>5, <1>6, <1>7, <1>8, <1>9, <1>10

LEMMA FreshStep ==
    ASSUME WebInv, FreshInv, [Next]_vars
    PROVE  FreshInv'
<1>1. CASE \E q \in Requests : \E r \in Runs : ConsoleStart(q, r)
  BY <1>1, FreshByConsole DEF ConsoleStart
<1>2. CASE \E q \in Requests : ForcedKill(q)
  <2>1. PICK q \in Requests : CancelKill(q)
    BY <1>2 DEF ForcedKill
  <2> DEFINE r == request[q].run
             seen == IF request[q].handle THEN code'[r] ELSE NoCode
             new == [request[q] EXCEPT !.pc = "k_record", !.code = seen]
  <2>2. /\ UNCHANGED registry
        /\ \/ request' = [request EXCEPT ![q] = new]
           \/ request' = [request EXCEPT ![q] = Idle]
    BY <2>1, RequestType DEF CancelKill, Answer
  <2>3. new.pc = "k_record" /\ new.records = request[q].records
    BY RequestType
  <2> HIDE DEF new
  <2>4. QED
    BY <2>2, <2>3, IdleRequest, FreshCancel
<1>3. CASE ConsoleRestart
  BY <1>3, IdleRequest DEF ConsoleRestart, WebRestart, FreshInv, Creating
<1>4. CASE WebServes
  BY <1>4, FreshServes
<1>5. CASE \/ TerminalStart \/ PipelineEnds \/ PipelineKilled
           \/ OtherChildEnds \/ PidGoesOn \/ UNCHANGED webVars
  <2>1. UNCHANGED <<registry, request>>
    BY <1>5 DEF TerminalStart, PipelineEnds, PipelineKilled, ChildOf,
                OtherChildEnds, PidGoesOn, ChildEnds, PidReused, webVars
  <2>2. QED
    BY <2>1, FreshStill
<1>6. QED
  BY <1>1, <1>2, <1>3, <1>4, <1>5 DEF Next, vars, webVars

LEMMA ForgetfulStep ==
    ASSUME WebInv, FreshInv, [Next]_vars, NEW r \in Runs, Forgets(r)
    PROVE  StaleListing(r)
<1>1. /\ registry[r].status # "absent" /\ registry'[r] # registry[r]
      /\ registry[r].status = "running" => registry'[r].status = "absent"
  BY DEF Forgets
<1>2. WebServes
  BY <1>1 DEF Next, vars, webVars, ConsoleStart, CreateSpawn, ForcedKill, CancelKill,
              TerminalStart, PipelineEnds, PipelineKilled, ChildOf, OtherChildEnds,
              PidGoesOn, ChildEnds, PidReused, ConsoleRestart, WebRestart
<1>3. PICK q \in Requests :
         \/ CreateHandle(q) \/ CreateRecord(q)
         \/ ListLoad(q) \/ ListSave(q)
         \/ CancelTerm(q) \/ CancelWait(q) \/ CancelRecord(q)
         \/ \E s \in Runs : Get(q, s) \/ CancelCheck(q, s)
  BY <1>2 DEF WebServes
<1>4. ~(CreateHandle(q) \/ ListLoad(q) \/ CancelTerm(q) \/ CancelWait(q))
  BY <1>1 DEF CreateHandle, ListLoad, CancelTerm, CancelWait
<1>5. ~CreateRecord(q)
  <2> SUFFICES ASSUME CreateRecord(q) PROVE FALSE
    OBVIOUS
  <2>1. /\ Creating(q)
        /\ registry' = [registry EXCEPT ![request[q].run] = Running]
    BY DEF CreateRecord, At, Creating
  <2>2. registry[request[q].run].status = "absent"
    BY <2>1 DEF FreshInv
  <2>3. QED
    BY <1>1, <2>1, <2>2 DEF WebInv, WebShape
<1>6. ~\E s \in Runs : Get(q, s) \/ CancelCheck(q, s)
  <2> SUFFICES ASSUME NEW s \in Runs, Get(q, s) \/ CancelCheck(q, s) PROVE FALSE
    OBVIOUS
  <2>1. registry' = [registry EXCEPT ![s] =
                        IF @.status = "running" THEN Settled(s) ELSE @]
    BY <1>1 DEF Get, CancelCheck
  <2>2. QED
    BY <1>1, <2>1 DEF WebInv, WebShape, Settled
<1>7. ~CancelRecord(q)
  <2> SUFFICES ASSUME CancelRecord(q) PROVE FALSE
    OBVIOUS
  <2> DEFINE final == IF Polled(request[q].run) THEN code[request[q].run]
                      ELSE request[q].code
             verdict == [status |-> IF final = 0 THEN "done" ELSE "failed",
                         code |-> final,
                         stopped |-> ~(request[q].finished \/ final = 0)]
  <2>1. /\ registry[request[q].run].status = "running"
        /\ registry' = [registry EXCEPT ![request[q].run] = verdict]
    BY <1>1 DEF CancelRecord
  <2>2. verdict.status # "absent"
    OBVIOUS
  <2> HIDE DEF verdict
  <2>3. QED
    BY <1>1, <2>1, <2>2 DEF WebInv, WebShape
<1>8. ListSave(q)
  BY <1>3, <1>4, <1>5, <1>6, <1>7
<1>9. request[q].pc = "l_save" /\ request'[q].pc = "idle"
  BY <1>8, RequestType, IdleRequest DEF ListSave, At, Answer
<1>10. request[q].records[r] # registry[r]
  <2> SUFFICES ASSUME request[q].records[r] = registry[r] PROVE FALSE
    OBVIOUS
  <2> DEFINE loaded == request[q].records
             polled == {s \in Runs : loaded[s].status # "absent" /\ Polled(s)}
             settled == [s \in Runs |->
                            IF s \in polled /\ loaded[s].status = "running"
                            THEN Settled(s) ELSE loaded[s]]
  <2>1. registry' \in {settled, registry}
    BY <1>8 DEF ListSave
  <2>2. settled[r] = registry[r]
           \/ (registry[r].status = "running" /\ settled[r] = Settled(r))
    OBVIOUS
  <2>3. Settled(r).status # "absent"
    BY DEF Settled
  <2> HIDE DEF settled
  <2>4. QED
    BY <1>1, <2>1, <2>2, <2>3
<1>11. QED
  BY <1>9, <1>10 DEF StaleListing

(* Only a listing that answers from records it loaded before it took the   *)
(* lock (api_list_runs) takes a record away or sets a settled one back;    *)
(* what a cancel or a poll recorded is never lost to any other request.    *)
THEOREM ConsoleOnlyListingsForget == Spec => OnlyListingsForget
<1>1. Init => FreshInv
  BY IdleRequest DEF Init, WebInit, FreshInv, Creating
<1>2. FreshInv /\ WebInv /\ [Next]_vars => FreshInv'
  BY FreshStep
<1>3. FreshInv /\ WebInv /\ [Next]_vars
         => [\A r \in Runs : Forgets(r) => StaleListing(r)]_webVars
  BY ForgetfulStep
<1>4. QED
  BY <1>1, <1>2, <1>3, WebAlways, PTL DEF Spec, OnlyListingsForget

-----------------------------------------------------------------------------
(* The screening export                                                    *)

(* The server's own children but the latest have ended; an abort waits for *)
(* its child; the file says what memory does.                              *)
JobShape ==
    /\ screening \in [run : Jobs \cup {NoJob}, status : Statuses]
    /\ export \in [Jobs -> {"none", "alive", "ok", "bad"}]
    /\ abort \in [Jobs -> {"none", "term", "gone"}]
    /\ own \in SUBSET Jobs

JobInv ==
    /\ JobShape
    /\ screening.status = "running" => screening.run \in Jobs
    /\ StoreFollows
    /\ \A j \in own : Alive(j) => j = screening.run
    /\ \A j \in Jobs : abort[j] # "none" => export[j] # "none"
    /\ \A j \in Jobs : abort[j] = "gone" => ~Alive(j)

LEMMA JobInitial == Init => JobInv
  BY DEF Init, JobInit, JobInv, JobShape, StoreFollows, NoScreening, Statuses, Alive

LEMMA JobKept ==
    ASSUME JobInv, UNCHANGED jobVars
    PROVE  JobInv'
  BY DEF JobInv, JobShape, StoreFollows, jobVars, Alive

(* A settlement of the job in memory reaches the file.                     *)
LEMMA SettleFollows ==
    ASSUME JobShape, NEW status \in {"completed", "failed"}, Settle(status)
    PROVE  /\ screening'.run = screening.run /\ screening'.status = status
           /\ screening' \in [run : Jobs \cup {NoJob}, status : Statuses]
           /\ store' = screening'
  BY DEF JobShape, Settle, Statuses

LEMMA JobServesKeeps ==
    ASSUME JobInv, JobServes
    PROVE  JobInv'
<1> USE ScreeningAssumption
<1>1. CASE Status
  <2>1. /\ Settle(Verdict(screening.run)) /\ UNCHANGED <<export, abort, own>>
        /\ Verdict(screening.run) \in {"completed", "failed"}
    BY <1>1 DEF Status, Verdict
  <2>2. /\ screening'.run = screening.run
        /\ screening'.status \in {"completed", "failed"}
        /\ screening' \in [run : Jobs \cup {NoJob}, status : Statuses]
        /\ store' = screening'
    BY <2>1, SettleFollows DEF JobInv
  <2>3. QED
    BY <2>1, <2>2 DEF JobInv, JobShape, StoreFollows, Alive
<1>2. CASE StatusFromStore
  BY <1>2 DEF StatusFromStore, JobInv, JobShape, StoreFollows, Alive
<1>3. CASE AbortCheck
  <2>1. /\ screening.run \in Jobs /\ Alive(screening.run)
        /\ abort' = [abort EXCEPT ![screening.run] = "term"]
        /\ UNCHANGED <<screening, store, export, own>>
    BY <1>3 DEF AbortCheck, Busy, JobInv, JobShape
  <2>2. QED
    BY <2>1 DEF JobInv, JobShape, StoreFollows, Alive
<1>4. ASSUME NEW j \in Jobs, RunScreening(j)
      PROVE  JobInv'
  <2>1. /\ ~Busy /\ export[j] = "none"
        /\ export' = [export EXCEPT ![j] = "alive"]
        /\ own' = own \cup {j}
        /\ screening' = [run |-> j, status |-> "running"]
        /\ store' = [run |-> j, status |-> "running"]
        /\ UNCHANGED abort
    BY <1>4 DEF RunScreening
  <2>2. \A i \in own : ~Alive(i)
    BY <2>1 DEF Busy, JobInv, JobShape
  <2>3. abort[j] = "none"
    BY <2>1 DEF JobInv, JobShape
  <2>4. JobShape' /\ StoreFollows'
    BY <2>1 DEF JobInv, JobShape, StoreFollows, Statuses
  <2>5. QED
    BY <2>1, <2>2, <2>3, <2>4 DEF JobInv, JobShape, Alive
<1>5. ASSUME NEW j \in Jobs, PumpSettles(j)
      PROVE  JobInv'
  <2>1. UNCHANGED <<export, abort, own>> /\ Verdict(j) \in {"completed", "failed"}
    BY <1>5 DEF PumpSettles, Verdict
  <2>2. CASE Settle(Verdict(j))
    <3>1. /\ screening'.run = screening.run
          /\ screening'.status \in {"completed", "failed"}
          /\ screening' \in [run : Jobs \cup {NoJob}, status : Statuses]
          /\ store' = screening'
      BY <2>1, <2>2, SettleFollows DEF JobInv
    <3>2. QED
      BY <2>1, <3>1 DEF JobInv, JobShape, StoreFollows, Alive
  <2>3. CASE UNCHANGED <<screening, store>>
    BY <2>1, <2>3 DEF JobInv, JobShape, StoreFollows, Alive
  <2>4. QED
    BY <1>5, <2>2, <2>3 DEF PumpSettles
<1>6. ASSUME NEW j \in Jobs, AbortStop(j)
      PROVE  JobInv'
  <2>1. /\ abort[j] = "term" /\ abort' = [abort EXCEPT ![j] = "gone"]
        /\ export' = IF Alive(j) THEN [export EXCEPT ![j] = "bad"] ELSE export
        /\ UNCHANGED <<screening, store, own>>
    BY <1>6 DEF AbortStop
  <2>2. JobShape' /\ StoreFollows'
    BY <2>1 DEF JobInv, JobShape, StoreFollows
  <2>3. /\ \A i \in Jobs : Alive(i)' => Alive(i) /\ i # j
        /\ \A i \in Jobs : export[i] # "none" => export'[i] # "none"
        /\ \A i \in Jobs : i # j => abort'[i] = abort[i]
        /\ export[j] # "none"
    BY <2>1 DEF JobInv, JobShape, Alive
  <2>4. QED
    BY <2>1, <2>2, <2>3 DEF JobInv, JobShape
<1>7. ASSUME NEW j \in Jobs, AbortRecord(j)
      PROVE  JobInv'
  <2>1. /\ Settle("failed") /\ abort' = [abort EXCEPT ![j] = "none"]
        /\ UNCHANGED <<export, own>>
    BY <1>7 DEF AbortRecord
  <2>2. /\ screening'.run = screening.run /\ screening'.status = "failed"
        /\ screening' \in [run : Jobs \cup {NoJob}, status : Statuses]
        /\ store' = screening'
    BY <2>1, SettleFollows DEF JobInv
  <2>3. QED
    BY <2>1, <2>2 DEF JobInv, JobShape, StoreFollows, Alive
<1>8. QED
  BY <1>1, <1>2, <1>3, <1>4, <1>5, <1>6, <1>7 DEF JobServes

LEMMA JobStep ==
    ASSUME JobInv, [Next]_vars
    PROVE  JobInv'
<1>1. CASE JobServes
  BY <1>1, JobServesKeeps
<1>2. ASSUME NEW j \in Jobs, ExportEnds(j)
      PROVE  JobInv'
  <2>1. PICK how \in {"ok", "bad"} : export' = [export EXCEPT ![j] = how]
    BY <1>2 DEF ExportEnds
  <2>2. UNCHANGED <<screening, store, abort, own>> /\ Alive(j)
    BY <1>2 DEF ExportEnds
  <2>3. QED
    BY <2>1, <2>2 DEF JobInv, JobShape, StoreFollows, Alive
<1>3. CASE ConsoleRestart
  BY <1>3, ScreeningAssumption
     DEF ConsoleRestart, JobRestart, JobInv, JobShape, StoreFollows, NoScreening,
         Statuses, Alive
<1>4. CASE UNCHANGED jobVars
  BY <1>4, JobKept
<1>5. JobServes \/ (\E j \in Jobs : ExportEnds(j)) \/ ConsoleRestart \/ UNCHANGED jobVars
  BY DEF Next, vars, ConsoleStart, ForcedKill, TerminalStart, PipelineEnds,
         PipelineKilled, ChildOf, OtherChildEnds, PidGoesOn
<1>6. QED
  BY <1>1, <1>2, <1>3, <1>4, <1>5

LEMMA JobAlways == Spec => []JobInv
<1>1. Init => JobInv
  BY JobInitial
<1>2. JobInv /\ [Next]_vars => JobInv'
  BY JobStep
<1>3. QED
  BY <1>1, <1>2, PTL DEF Spec

(* A server never has two screening children at once: a start asks the     *)
(* child (api_run_screening polls the handle), not the status.             *)
THEOREM ConsoleOneScreening == Spec => []OneScreening
<1>1. JobInv => OneScreening
  <2> SUFFICES ASSUME JobInv PROVE Cardinality({j \in own : Alive(j)}) <= 1
    BY DEF OneScreening
  <2>1. {j \in own : Alive(j)} \subseteq {screening.run}
    BY DEF JobInv
  <2>2. /\ IsFiniteSet({screening.run})
        /\ Cardinality({screening.run}) = 1
    BY FS_Singleton
  <2>3. /\ Cardinality({j \in own : Alive(j)}) <= Cardinality({screening.run})
    BY <2>1, <2>2, FS_Subset
  <2>4. QED
    BY <2>2, <2>3
<1>2. QED
  BY <1>1, JobAlways, PTL

(* What a restart finds in the status file is what the console showed:     *)
(* every start and every settlement writes it in the same section.         *)
THEOREM ConsoleStoreFollows == Spec => []StoreFollows
<1>1. JobInv => StoreFollows
  BY DEF JobInv
<1>2. QED
  BY <1>1, JobAlways, PTL

(* A job whose child still runs is declared ended only by the pump or the  *)
(* abort of an earlier run, which ask for no run of their own.             *)
THEOREM ConsoleOnlyLeftoversMisjudge == Spec => OnlyLeftoversMisjudge
<1>1. JobInv /\ [Next]_vars => [Misjudged => Leftover]_jobVars
  <2> SUFFICES ASSUME JobInv, [Next]_vars, Misjudged
               PROVE  Leftover
    OBVIOUS
  <2>1. /\ screening.run \in Jobs /\ Alive(screening.run)
        /\ screening'.run = screening.run /\ screening' # screening
        /\ screening.status = "running"
    BY DEF Misjudged, JobInv
  <2>2. JobServes
    BY <2>1, ScreeningAssumption
       DEF Next, vars, jobVars, ConsoleStart, ForcedKill, TerminalStart, PipelineEnds,
           PipelineKilled, ChildOf, OtherChildEnds, PidGoesOn, ConsoleRestart,
           JobRestart, NoScreening, ExportEnds
  <2>3. ~(Status \/ StatusFromStore \/ AbortCheck)
    BY <2>1 DEF Status, StatusFromStore, AbortCheck
  <2>4. PICK j \in Jobs : RunScreening(j) \/ PumpSettles(j)
                             \/ AbortStop(j) \/ AbortRecord(j)
    BY <2>2, <2>3 DEF JobServes
  <2>5. ~(RunScreening(j) \/ AbortStop(j))
    BY <2>1 DEF RunScreening, AbortStop, Alive
  <2>6. CASE PumpSettles(j)
    <3>1. j # screening.run /\ j \in pump \ pump'
      BY <2>1, <2>6 DEF PumpSettles
    <3>2. QED
      BY <3>1 DEF Leftover
  <2>7. CASE AbortRecord(j)
    <3>1. abort[j] = "gone" /\ abort'[j] = "none"
      BY <2>7 DEF AbortRecord, JobInv, JobShape
    <3>2. j # screening.run
      BY <2>1, <3>1 DEF JobInv
    <3>3. QED
      BY <3>1, <3>2 DEF Leftover
  <2>8. QED
    BY <2>4, <2>5, <2>6, <2>7
<1>2. QED
  BY <1>1, JobAlways, PTL DEF Spec, OnlyLeftoversMisjudge
=============================================================================
