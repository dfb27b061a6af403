------------------------ MODULE StudySessionProofs ------------------------
(***************************************************************************)
(* Proofs about StudySession, for every set of words and messages, every   *)
(* limit and every number of days and failures.                            *)
(***************************************************************************)
EXTENDS StudySession, FiniteSetTheorems, TLAPS

---------------------------------------------------------------------------
(* The operators on sessions.                                              *)

(* The cards of a session and its head.                                    *)
LEMMA HeadType ==
    ASSUME NEW s \in Session
    PROVE  /\ s.nodes \in Seq(Node)
           /\ s.nodes # <<>> => /\ Head(s.nodes) \in Node
                               /\ Head(s.nodes).w \in Words
                               /\ Tail(s.nodes) \in Seq(Node)
<1>1. s.nodes \in Seq(Node)
  BY DEF Session
<1>2. s.nodes # <<>> => Head(s.nodes) \in Node /\ Tail(s.nodes) \in Seq(Node)
  BY <1>1
<1> QED
  BY <1>1, <1>2 DEF Node

(* Dropping the head card yields a session of the same day.                *)
LEMMA PopNextType ==
    ASSUME NEW s \in Session
    PROVE  /\ PopNext(s) \in Session
           /\ PopNext(s).date = s.date
<1>1. s.nodes # <<>> => Tail(s.nodes) \in Seq(Node)
  BY HeadType
<1> QED
  BY <1>1 DEF PopNext, Session

(* What is read back is a session of the same day and cards.               *)
LEMMA FromJsonType ==
    ASSUME NEW s \in Session
    PROVE  /\ FromJson(s) \in Session
           /\ FromJson(s).date = s.date
  BY DEF FromJson, Session

(* Drawing the head card yields a session of the same day and cards.       *)
LEMMA DrawnType ==
    ASSUME NEW s \in Session, s.nodes # <<>>
    PROVE  /\ Drawn(s) \in Session
           /\ Drawn(s).date = s.date
           /\ Drawn(s).nodes = s.nodes
           /\ DrawnCard(s) \in Content
           /\ Head(s.nodes) \in Node
<1>1. Head(s.nodes) \in Node /\ Head(s.nodes).w \in Words
  BY HeadType
<1>2. DrawnCard(s) \in Content
  BY <1>1 DEF DrawnCard, CardView, DrawnKind, Content, Kinds
<1>3. /\ Drawn(s) \in Session
      /\ Drawn(s).date = s.date
      /\ Drawn(s).nodes = s.nodes
  BY <1>1 DEF Drawn, Session
<1> QED
  BY <1>1, <1>2, <1>3

(* The reveal flags stay flags of words.                                   *)
LEMMA DrawnPeekType ==
    ASSUME NEW s \in Session, s.nodes # <<>>, peeked \in SUBSET Words
    PROVE  DrawnPeek(s) \in SUBSET Words
<1>1. Head(s.nodes) \in Node /\ Head(s.nodes).w \in Words
  BY HeadType
<1> QED
  BY <1>1 DEF DrawnPeek

(* Refilling keeps the day.                                                *)
LEMMA RefilledDate ==
    ASSUME NEW s \in Session, NEW t \in Refilled(s)
    PROVE  t.date = s.date
<1>1. \A q : [s EXCEPT !.nodes = q].date = s.date
  BY DEF Session
<1> QED
  BY <1>1 DEF Refilled

(* A built session list is a sequence of cards, and not empty when there   *)
(* is a card to study.                                                     *)
LEMMA SessionListsType ==
    ASSUME ConstantsAssumption, words \in [Words -> Stages],
           NEW s \in SessionLists
    PROVE  /\ s \in Seq(Node)
           /\ Len(s) \in Nat
           /\ Due \cup Pre # {} => s # <<>>
<1> DEFINE C == Cardinality(Due \cup Pre)
           k == Least(CardsPerSession, C)
<1>1. IsFiniteSet(Due \cup Pre)
  <2>1. Due \cup Pre \in SUBSET Words
    BY DEF Due, Pre
  <2> QED
    BY <2>1, FS_Subset DEF ConstantsAssumption
<1>2. C \in Nat /\ (Due \cup Pre # {} => C # 0)
  BY <1>1, FS_CardinalityType, FS_EmptySet
<1>3. k \in Nat /\ (Due \cup Pre # {} => k # 0)
  BY <1>2 DEF Least, ConstantsAssumption
<1>4. {TierNode(w) : w \in Due \cup Pre} \subseteq Node
  BY DEF TierNode, Node, Due, Pre, Activities
<1>5. s \in [1..k -> Node]
  BY <1>4 DEF SessionLists
<1> HIDE DEF k, C
<1>6. s \in Seq(Node) /\ Len(s) = k
  BY <1>3, <1>5
<1> QED
  BY <1>3, <1>6

---------------------------------------------------------------------------
(* Type correctness.  A card is drawn only from a session that has one,    *)
(* and a grade or a reveal is of a card.                                   *)

NodesReady ==
    /\ pc \in {"s_persist", "s_send", "r_send"} => mem.nodes # <<>>
    /\ pc \in {"g_check", "g_txn", "g_persist", "v_persist"} => loc.node \in Node

TypeInv == TypeOK /\ NodesReady

(* The constants of the state's types.                                     *)
LEMMA ConstantTypes ==
    ASSUME ConstantsAssumption
    PROVE  /\ NoSession \in Session
           /\ NoSession.date = NoDay
           /\ NoRow \in Row
           /\ NoLocal \in Local
           /\ Blank \in Content
           /\ [n \in Node |-> NoDay] \in [Node -> Days \cup {NoDay}]
<1>1. NoSession \in Session /\ NoSession.date = NoDay
  BY DEF NoSession, Session
<1>2. NoRow \in Row
  BY <1>1 DEF NoRow, Row
<1>3. NoLocal \in Local
  BY DEF NoLocal, Local, ConstantsAssumption, Days
<1>4. Blank \in Content
  BY DEF Content
<1> QED
  BY <1>1, <1>2, <1>3, <1>4

(* Returning from a handler.                                               *)
LEMMA ReturnType ==
    ASSUME ConstantsAssumption, Return
    PROVE  /\ pc' \in PCs /\ loc' \in Local
           /\ pc' = "idle"
  BY ConstantTypes DEF Return, PCs

(* The gate hands out a session, and leaves well-typed stores behind.      *)
LEMMA GateType ==
    ASSUME ConstantsAssumption, TypeOK
    PROVE  /\ Gated \in Session
           /\ GateMiss => /\ mem' \in Session /\ row' \in Row
                          /\ ledger' \in [Node -> Days \cup {NoDay}]
                          /\ faults' \in Nat
           /\ GateFail => mem' \in Session /\ faults' \in Nat
           /\ GateNone => /\ mem' \in Session /\ row' \in Row
                          /\ ledger' \in [Node -> Days \cup {NoDay}]
                          /\ faults' \in Nat
<1> USE ConstantTypes
<1>1. Gated \in Session
  <2>1. row.state \in Session
    BY DEF TypeOK, Row
  <2> QED
    BY <2>1, FromJsonType DEF TypeOK, Gated
<1>2. GateMiss => /\ mem' \in Session /\ row' \in Row
                  /\ ledger' \in [Node -> Days \cup {NoDay}]
                  /\ faults' \in Nat
  BY DEF TypeOK, GateMiss, Invalidate, NoFault
<1>3. GateFail => mem' \in Session /\ faults' \in Nat
  BY DEF TypeOK, GateFail, Fault
<1> QED
  BY <1>1, <1>2, <1>3 DEF GateNone, TypeOK

(* A message with buttons shows a card.                                    *)
LEMMA TappedCard ==
    ASSUME TypeOK, NEW m \in Msgs, chat[m].kind # "none"
    PROVE  chat[m].node \in Node /\ chat[m].node.w \in Words
<1>1. chat[m] \in Content /\ chat[m] # Blank
  BY DEF TypeOK, Blank
<1> QED
  BY <1>1 DEF Content, Node

(* Storing a session under a day.                                          *)
LEMMA PersistType ==
    ASSUME mem' \in Session, NEW d \in Days \cup {NoDay}, Persist(d)
    PROVE  row' \in Row
  BY DEF Persist, Row

(* Failures are counted.                                                   *)
LEMMA FaultType ==
    ASSUME faults \in Nat
    PROVE  /\ NoFault => faults' \in Nat
           /\ \A k \in AllFaultKinds : Fault(k) => faults' \in Nat
  BY DEF NoFault, Fault

(* An edit leaves a well-typed chat, whatever its outcome.                 *)
LEMMA EditType ==
    ASSUME TypeOK, NEW m \in Msgs \cup {NoMsg}, NEW c \in Content
    PROVE  /\ EditDone(m, c) => chat' \in [Msgs -> Content] /\ faults' \in Nat
           /\ EditFails(m, c) => chat' \in [Msgs -> Content] /\ faults' \in Nat
           /\ EditRefused(m) => chat' \in [Msgs -> Content] /\ faults' \in Nat
  BY DEF TypeOK, EditDone, EditFails, EditRefused, Fault, NoFault

(* Every step keeps the types, and draws only from sessions with cards.    *)
LEMMA TypeStep ==
    ASSUME ConstantsAssumption, StagedAssumption, TypeInv, [Next]_vars
    PROVE  TypeInv'
<1> USE ConstantTypes
<1> SUFFICES TypeOK' /\ NodesReady'
  BY DEF TypeInv
<1>0. TypeOK /\ NodesReady
  BY DEF TypeInv
<1>1. CASE UNCHANGED vars
  BY <1>0, <1>1 DEF vars, TypeOK, NodesReady
<1>2. CASE StudyTap
  BY <1>0, <1>2 DEF StudyTap, hist, TypeOK, NodesReady, PCs, Local
<1>3. CASE StartGate
  BY <1>0, <1>3, GateType DEF StartGate, Goto, hist, TypeOK, NodesReady, PCs
<1>4. CASE Consume
  <2>1. used' \in [Days -> Nat]
    BY <1>0, <1>4 DEF Consume, TypeOK
  <2>2. pc' \in PCs /\ loc' \in Local /\ pc' \in {"s_build", "idle"}
    BY <1>0, <1>4, ReturnType DEF Consume, TypeOK, PCs, Local
  <2>3. faults' \in Nat
    BY <1>0, <1>4, FaultType DEF Consume, TypeOK, AllFaultKinds
  <2> QED
    BY <1>0, <1>4, <2>1, <2>2, <2>3 DEF Consume, hist, TypeOK, NodesReady
<1>5. CASE BuildSession
  <2>1. CASE Due \cup Pre # {} /\ pc' = "s_persist"
    <3>1. PICK l \in SessionLists :
             mem' = [NoSession EXCEPT !.nodes = l, !.total = Len(l),
                                      !.date = loc.today]
      BY <1>5, <2>1 DEF BuildSession, Goto
    <3>2. l \in Seq(Node) /\ Len(l) \in Nat /\ l # <<>>
      BY <1>0, <2>1, SessionListsType DEF TypeOK
    <3>3. loc.today \in Days
      BY <1>0 DEF TypeOK, Local
    <3>4. mem' \in Session /\ mem'.nodes # <<>>
      BY <3>1, <3>2, <3>3 DEF NoSession, Session
    <3>5. /\ ledger' = [n \in Node |-> NoDay]
          /\ grades' = [n \in Node |-> 0]
          /\ reports' = 0
          /\ UNCHANGED <<faults, loc>>
      BY <1>5, <2>1 DEF BuildSession, Goto, NoFault
    <3>6. grades' \in [Node -> Nat] /\ pc' \in PCs
      BY <2>1, <3>5 DEF PCs
    <3> QED
      BY <1>0, <1>5, <2>1, <3>4, <3>5, <3>6
         DEF BuildSession, TypeOK, NodesReady
  <2>2. CASE pc' \in {"s_release", "s_clear"}
    BY <1>0, <1>5, <2>2, FaultType
       DEF BuildSession, Goto, AllFaultKinds, NoFault, TypeOK, NodesReady, PCs
  <2> QED
    BY <1>5, <2>1, <2>2 DEF BuildSession, Goto
<1>6. CASE StartPersist
  <2>1. mem' \in Session /\ row' \in Row
    <3>1. loc.today \in Days
      BY <1>0 DEF TypeOK, Local
    <3> QED
      BY <1>0, <1>6, <3>1, PersistType DEF StartPersist, TypeOK
  <2>2. pc' \in PCs /\ loc' \in Local
    BY <1>0, <1>6 DEF StartPersist, Goto, TypeOK, PCs
  <2>3. faults' \in Nat
    BY <1>0, <1>6, FaultType DEF StartPersist, TypeOK, AllFaultKinds
  <2>4. NodesReady'
    BY <1>0, <1>6 DEF StartPersist, Goto, NodesReady
  <2> QED
    BY <1>0, <1>6, <2>1, <2>2, <2>3, <2>4 DEF StartPersist, hist, TypeOK
<1>7. CASE SendFirst
  <2> DEFINE S == Drawn(mem)
  <2>0. /\ S \in Session /\ DrawnCard(mem) \in Content
        /\ DrawnPeek(mem) \in SUBSET Words
    BY <1>0, <1>7, DrawnType, DrawnPeekType DEF SendFirst, TypeOK, NodesReady
  <2>1. \A m \in FreshMsgs : [S EXCEPT !.msg = m] \in Session /\ m \in Msgs
    BY <2>0 DEF Session, FreshMsgs
  <2> HIDE DEF S
  <2>2. mem' \in Session
    BY <1>7, <2>1 DEF SendFirst, S
  <2>3. chat' \in [Msgs -> Content] /\ peeked' \in SUBSET Words
    BY <1>0, <1>7, <2>0, <2>1 DEF SendFirst, TypeOK
  <2>4. delivered' \in [Days -> Nat]
    BY <1>0, <1>7 DEF SendFirst, TypeOK
  <2>5. pc' \in PCs /\ loc' \in Local /\ pc' \in {"s_sent", "s_clear"}
    BY <1>0, <1>7 DEF SendFirst, Goto, TypeOK, PCs
  <2>6. faults' \in Nat
    BY <1>0, <1>7, FaultType DEF SendFirst, TypeOK, AllFaultKinds
  <2> QED
    BY <1>0, <1>7, <2>2, <2>3, <2>4, <2>5, <2>6
       DEF SendFirst, TypeOK, NodesReady
<1>8. CASE FirstPersist
  <2>1. mem' \in Session /\ row' \in Row
    <3>1. mem.date \in Days \cup {NoDay}
      BY <1>0 DEF TypeOK, Session
    <3> QED
      BY <1>0, <1>8, <3>1, PersistType DEF FirstPersist, TypeOK
  <2>2. faults' \in Nat
    BY <1>0, <1>8, FaultType DEF FirstPersist, TypeOK, AllFaultKinds
  <2> QED
    BY <1>0, <1>8, <2>1, <2>2, ReturnType
       DEF FirstPersist, hist, TypeOK, NodesReady
<1>9. CASE StartCleanup
  BY <1>0, <1>9
     DEF StartCleanup, Goto, Fault, NoFault, hist, TypeOK, NodesReady, PCs
<1>10. CASE ReleaseSlot
  <2>1. used' \in [Days -> Nat]
    BY <1>0, <1>10 DEF ReleaseSlot, TypeOK
  <2>2. faults' \in Nat
    BY <1>0, <1>10, FaultType DEF ReleaseSlot, TypeOK, AllFaultKinds
  <2> QED
    BY <1>0, <1>10, <2>1, <2>2, ReturnType
       DEF ReleaseSlot, hist, TypeOK, NodesReady
<1>11. CASE ResumeSend
  <2> DEFINE S == Drawn(mem)
  <2>0. /\ S \in Session /\ DrawnCard(mem) \in Content
        /\ DrawnPeek(mem) \in SUBSET Words
    BY <1>0, <1>11, DrawnType, DrawnPeekType
       DEF ResumeSend, TypeOK, NodesReady
  <2>1. \A m \in FreshMsgs : [S EXCEPT !.msg = m] \in Session /\ m \in Msgs
    BY <2>0 DEF Session, FreshMsgs
  <2> HIDE DEF S
  <2>2. mem' \in Session /\ peeked' \in SUBSET Words
    BY <1>0, <1>11, <2>0, <2>1 DEF ResumeSend, TypeOK, S
  <2>3. chat' \in [Msgs -> Content]
    BY <1>0, <1>11, <2>0, <2>1 DEF ResumeSend, TypeOK
  <2>4. pc' \in PCs /\ loc' \in Local /\ pc' \in {"r_persist", "idle"}
    BY <1>0, <1>11, ReturnType DEF ResumeSend, Goto, TypeOK, PCs
  <2>5. faults' \in Nat
    BY <1>0, <1>11, FaultType DEF ResumeSend, TypeOK, AllFaultKinds
  <2> QED
    BY <1>0, <1>11, <2>2, <2>3, <2>4, <2>5
       DEF ResumeSend, hist, TypeOK, NodesReady
<1>12. CASE Advance
  <2>1. CASE GateNone /\ Return /\ UNCHANGED <<chat, peeked, reports>>
    BY <1>0, <1>12, <2>1, GateType, ReturnType DEF Advance, TypeOK, NodesReady
  <2> DEFINE S == Gated
             N == PopNext(S)
  <2>2. S \in Session /\ S.msg \in Msgs \cup {NoMsg}
    BY <1>0, GateType DEF Session
  <2>3. N \in Session
    BY <2>2, PopNextType
  <2> HIDE DEF S, N
  <2>4. CASE AdvanceToCard(S) /\ UNCHANGED <<row, ledger>>
    <3>1. N.nodes # <<>>
      BY <2>4 DEF AdvanceToCard, N
    <3>2. /\ Drawn(N) \in Session /\ DrawnCard(N) \in Content
          /\ DrawnPeek(N) \in SUBSET Words
      BY <1>0, <2>3, <3>1, DrawnType, DrawnPeekType DEF TypeOK
    <3>3. mem' \in Session /\ peeked' \in SUBSET Words
      BY <1>0, <2>2, <2>3, <2>4, <3>2 DEF AdvanceToCard, N, TypeOK
    <3>4. chat' \in [Msgs -> Content] /\ faults' \in Nat
      BY <1>0, <2>2, <2>4, <3>2, EditType, FaultType
         DEF AdvanceToCard, N, TypeOK, AllFaultKinds
    <3>5. [NoLocal EXCEPT !.today = day] \in Local
      BY <1>0 DEF TypeOK, Local
    <3>6. pc' \in PCs /\ loc' \in Local /\ pc' \in {"a_persist", "idle"}
      BY <2>4, <3>5, ReturnType DEF AdvanceToCard, PCs
    <3> QED
      BY <1>0, <1>12, <2>4, <3>3, <3>4, <3>6
         DEF Advance, AdvanceToCard, TypeOK, NodesReady
  <2>5. CASE Finish(S) /\ UNCHANGED <<row, ledger>>
    <3>1. mem' \in Session /\ peeked' \in SUBSET Words /\ reports' \in Nat
      BY <1>0, <2>2, <2>5 DEF Finish, TypeOK
    <3>2. chat' \in [Msgs -> Content] /\ faults' \in Nat
      BY ZenonT(30), <1>0, <2>2, <2>5, EditType, FaultType
         DEF Finish, TypeOK, AllFaultKinds
    <3>3. pc' \in PCs /\ loc' \in Local /\ pc' \in {"a_clear", "idle"}
      BY <1>0, <2>5, ReturnType DEF Finish, Goto, PCs, TypeOK
    <3> QED
      BY <1>0, <1>12, <2>5, <3>1, <3>2, <3>3 DEF Advance, TypeOK, NodesReady
  <2> QED
    BY <1>12, <2>1, <2>4, <2>5 DEF Advance, S
<1>13. CASE AdvancePersist
  <2>1. mem' \in Session /\ row' \in Row
    <3>1. loc.today \in Days
      BY <1>0 DEF TypeOK, Local
    <3> QED
      BY <1>0, <1>13, <3>1, PersistType DEF AdvancePersist, TypeOK
  <2>2. faults' \in Nat
    BY <1>0, <1>13, FaultType DEF AdvancePersist, TypeOK, AllFaultKinds
  <2> QED
    BY <1>0, <1>13, <2>1, <2>2, ReturnType
       DEF AdvancePersist, hist, TypeOK, NodesReady
<1>14. CASE FinishClear
  BY <1>0, <1>14, ReturnType
     DEF FinishClear, Fault, NoFault, hist, TypeOK, NodesReady
<1>15. CASE \E m \in Msgs : GradeTap(m)
  <2>1. PICK m \in Msgs : GradeTap(m)
    BY <1>15
  <2>0. chat[m].node \in Node
    BY <1>0, <2>1, TappedCard DEF GradeTap
  <2>2. mem' \in Session /\ row' \in Row
    BY <1>0, <2>1 DEF GradeTap, Invalidate, TypeOK
  <2>3. ledger' \in [Node -> Days \cup {NoDay}]
    BY <1>0, <2>1 DEF GradeTap, Invalidate, TypeOK
  <2>4. \A b \in BOOLEAN :
           [NoLocal EXCEPT !.node = chat[m].node, !.msg = m, !.stale = b]
             \in Local
    BY <2>0 DEF Local
  <2>5. RowStale \in BOOLEAN
    BY DEF RowStale
  <2>6. /\ pc' \in PCs /\ loc' \in Local /\ pc' \in {"g_check", "idle"}
        /\ pc' = "g_check" => loc'.node \in Node
    BY ZenonT(30), <2>0, <2>1, <2>4, <2>5, ReturnType DEF GradeTap, PCs, NoLocal
  <2>7. faults' \in Nat
    BY <1>0, <2>1, FaultType DEF GradeTap, TypeOK, AllFaultKinds
  <2> QED
    BY <1>0, <2>1, <2>2, <2>3, <2>6, <2>7
       DEF GradeTap, hist, TypeOK, NodesReady
<1>16. CASE GradeCheck
  <2> DEFINE S == Gated
  <2>0. loc.node \in Node /\ loc.node.w \in Words
    BY <1>0, <1>16 DEF GradeCheck, NodesReady, Node
  <2>1. S \in Session /\ [S EXCEPT !.graded = @ \cup {loc.node.w}] \in Session
    BY <1>0, <2>0, GateType DEF Session
  <2>2. mem' \in Session
    BY <1>0, <1>16, <2>1, GateType DEF GradeCheck, Duplicate
  <2>3. /\ row' \in Row
        /\ ledger' \in [Node -> Days \cup {NoDay}]
    BY <1>0, <1>16, GateType DEF GradeCheck, Invalidate, TypeOK
  <2>4. faults' \in Nat
    BY <1>0, <1>16, GateType, FaultType
       DEF GradeCheck, TypeOK, AllFaultKinds
  <2>5. /\ pc' \in PCs /\ loc' \in Local
        /\ pc' \in {"adv", "g_txn", "idle"}
        /\ pc' = "g_txn" => loc' = loc
    BY <1>0, <1>16, ReturnType DEF GradeCheck, Duplicate, Goto, PCs, TypeOK
  <2> QED
    BY <1>0, <1>16, <2>0, <2>2, <2>3, <2>4, <2>5
       DEF GradeCheck, hist, TypeOK, NodesReady
<1>17. CASE GradeTxn
  <2>1. words' \in [Words -> Stages]
    BY <1>0, <1>17 DEF GradeTxn, TypeOK, Stages
  <2>2. ledger' \in [Node -> Days \cup {NoDay}] /\ grades' \in [Node -> Nat]
    BY <1>0, <1>17 DEF GradeTxn, TypeOK
  <2>3. /\ pc' \in PCs /\ loc' \in Local
        /\ pc' \in {"g_persist", "adv", "idle"}
        /\ pc' = "g_persist" => loc'.node \in Node
    BY <1>0, <1>17, ReturnType
       DEF GradeTxn, Goto, PCs, TypeOK, NodesReady
  <2>4. faults' \in Nat
    BY <1>0, <1>17, FaultType DEF GradeTxn, TypeOK, AllFaultKinds
  <2> QED
    BY <1>0, <1>17, <2>1, <2>2, <2>3, <2>4 DEF GradeTxn, TypeOK, NodesReady
<1>18. CASE GradePersist
  <2>1. loc.node.w \in Words /\ mem.date \in Days \cup {NoDay}
    BY <1>0, <1>18 DEF GradePersist, NodesReady, Node, TypeOK, Session
  <2>2. mem' \in Session
    BY <1>0, <1>18, <2>1 DEF GradePersist, TypeOK, Session
  <2>3. row' \in Row
    BY <1>0, <1>18, <2>1, <2>2, PersistType DEF GradePersist, TypeOK
  <2>4. faults' \in Nat
    BY <1>0, <1>18, FaultType DEF GradePersist, TypeOK, AllFaultKinds
  <2>5. pc' \in PCs /\ loc' \in Local /\ pc' \in {"adv", "idle"}
    BY <1>0, <1>18, ReturnType DEF GradePersist, Goto, PCs, TypeOK
  <2> QED
    BY <1>0, <1>18, <2>2, <2>3, <2>4, <2>5
       DEF GradePersist, hist, TypeOK, NodesReady
<1>19. CASE \E m \in Msgs : RevealTap(m)
  <2>1. PICK m \in Msgs : RevealTap(m)
    BY <1>19
  <2> DEFINE S == Gated
             W == chat[m].node.w
             B == CardView(Head(S.nodes), "back")
  <2>2. S \in Session /\ S.msg \in Msgs \cup {NoMsg} /\ W \in Words
    BY <1>0, <2>1, GateType, TappedCard DEF RevealTap, Session
  <2>3. CASE GateNone /\ Return /\ UNCHANGED chat
    BY <1>0, <2>1, <2>3, GateType, ReturnType
       DEF RevealTap, hist, TypeOK, NodesReady
  <2>4. CASE mem' = S /\ Return /\ UNCHANGED <<chat, faults, row, ledger>>
    BY <1>0, <2>1, <2>2, <2>4, ReturnType
       DEF RevealTap, hist, TypeOK, NodesReady
  <2>5. CASE /\ Revealable(S, W)
             /\ UNCHANGED <<row, ledger>>
             /\ \/ /\ EditDone(S.msg, B)
                   /\ mem' = [S EXCEPT !.revealed = TRUE, !.frozen = W]
                   /\ pc' = "v_persist"
                   /\ loc' = [NoLocal EXCEPT !.node = Head(S.nodes),
                                             !.revealed = S.revealed,
                                             !.frozen = S.frozen]
                \/ /\ \/ EditFails(S.msg, B)
                      \/ EditRefused(S.msg)
                      \/ Fault("db") /\ UNCHANGED chat
                   /\ mem' = S
                   /\ Return
    <3> HIDE DEF S, W
    <3>1. Head(S.nodes) \in Node /\ B \in Content
      BY <2>2, <2>5, HeadType DEF Revealable, CardView, Content, Kinds
    <3> HIDE DEF B
    <3>2. mem' \in Session
      BY <2>2, <2>5 DEF Session
    <3>3. chat' \in [Msgs -> Content] /\ faults' \in Nat
      BY <1>0, <2>2, <2>5, <3>1, EditType, FaultType DEF TypeOK, AllFaultKinds
    <3>4. [NoLocal EXCEPT !.node = Head(S.nodes), !.revealed = S.revealed,
                          !.frozen = S.frozen] \in Local
      BY <2>2, <3>1 DEF Local, Session
    <3>5. /\ pc' \in PCs /\ loc' \in Local /\ pc' \in {"v_persist", "idle"}
          /\ pc' = "v_persist" => loc'.node \in Node
      BY <2>5, <3>1, <3>4, ReturnType DEF PCs, NoLocal
    <3> QED
      BY <1>0, <2>1, <2>5, <3>2, <3>3, <3>5
         DEF RevealTap, hist, TypeOK, NodesReady
  <2> QED
    BY <2>1, <2>3, <2>4, <2>5 DEF RevealTap
<1>20. CASE RevealPersist
  <2>1. loc.node.w \in Words /\ mem.date \in Days \cup {NoDay}
    BY <1>0, <1>20 DEF RevealPersist, NodesReady, Node, TypeOK, Session
  <2>2. mem' \in Session
    <3>1. [mem EXCEPT !.revealed = loc.revealed, !.frozen = loc.frozen]
            \in Session
      BY <1>0 DEF TypeOK, Session, Local
    <3> QED
      BY <1>0, <1>20, <3>1 DEF RevealPersist, TypeOK
  <2>3. row' \in Row
    BY <1>0, <1>20, <2>1, <2>2, PersistType DEF RevealPersist, TypeOK
  <2>4. faults' \in Nat /\ peeked' \in SUBSET Words
    BY <1>0, <1>20, <2>1, FaultType DEF RevealPersist, TypeOK, AllFaultKinds
  <2> QED
    BY <1>0, <1>20, <2>2, <2>3, <2>4, ReturnType
       DEF RevealPersist, hist, TypeOK, NodesReady
<1>21. CASE \E m \in Msgs : DeleteTap(m) \/ DeleteNo(m)
  <2>1. PICK m \in Msgs, from \in Kinds, to \in Kinds \ {"none"} :
           SwapButtons(m, from, to)
    BY <1>21 DEF DeleteTap, DeleteNo, Kinds
  <2> DEFINE S == Gated
  <2>2. S \in Session /\ S.msg \in Msgs \cup {NoMsg}
    BY <1>0, GateType DEF Session
  <2>3. S.nodes # <<>> => CardView(Head(S.nodes), to) \in Content
    BY <2>2, HeadType DEF CardView, Content
  <2> HIDE DEF S
  <2>4. mem' \in Session /\ row' \in Row
    BY <1>0, <2>1, <2>2, GateType DEF SwapButtons, TypeOK, S
  <2>5. ledger' \in [Node -> Days \cup {NoDay}]
    BY <1>0, <2>1, GateType DEF SwapButtons, TypeOK
  <2>6. chat' \in [Msgs -> Content] /\ faults' \in Nat
    BY <1>0, <2>1, <2>2, <2>3, GateType, EditType
       DEF SwapButtons, Deletable, TypeOK, S
  <2>7. pc = "idle"
    BY <2>1 DEF SwapButtons
  <2> QED
    BY <1>0, <2>1, <2>4, <2>5, <2>6, <2>7
       DEF SwapButtons, hist, TypeOK, NodesReady
<1>22. CASE \E m \in Msgs : DeleteYes(m)
  <2>1. PICK m \in Msgs : DeleteYes(m)
    BY <1>22
  <2>2. mem' \in Session /\ row' \in Row
    BY <1>0, <2>1, GateType DEF DeleteYes, TypeOK
  <2>3. ledger' \in [Node -> Days \cup {NoDay}]
    BY <1>0, <2>1, GateType DEF DeleteYes, TypeOK
  <2>4. words' \in [Words -> Stages]
    BY <1>0, <2>1 DEF DeleteYes, TypeOK, Stages
  <2>5. faults' \in Nat
    BY <1>0, <2>1, GateType, FaultType DEF DeleteYes, TypeOK, AllFaultKinds
  <2>6. pc' \in PCs /\ loc' \in Local /\ pc' \in {"d_persist", "idle"}
    BY <1>0, <2>1, ReturnType DEF DeleteYes, Goto, PCs, TypeOK
  <2> QED
    BY <1>0, <2>1, <2>2, <2>3, <2>4, <2>5, <2>6
       DEF DeleteYes, hist, TypeOK, NodesReady
<1>23. CASE DeletePersist
  <2>1. Refilled(mem) \subseteq Session
    <3>1. RefillWords(mem) \subseteq Words
      BY DEF RefillWords, Due, Pre
    <3>2. \A w \in Words : TierNode(w) \in Node
      BY DEF TierNode, Node, Activities
    <3>3. mem.nodes \in Seq(Node)
      BY <1>0, HeadType DEF TypeOK
    <3>4. \A w \in Words : Append(mem.nodes, TierNode(w)) \in Seq(Node)
      BY <3>2, <3>3
    <3>5. \A w \in Words : [mem EXCEPT !.nodes = Append(@, TierNode(w))]
                            \in Session
      BY <1>0, <3>4 DEF TypeOK, Session
    <3>6. mem \in Session
      BY <1>0 DEF TypeOK
    <3>7. CASE RefillWords(mem) = {}
      BY <3>6, <3>7 DEF Refilled
    <3>8. CASE RefillWords(mem) # {}
      <4>1. Refilled(mem) = {[mem EXCEPT !.nodes = Append(@, TierNode(w))] :
                               w \in RefillWords(mem)}
        BY ONLY <3>8 DEF Refilled
      <4> QED
        BY ONLY <3>1, <3>5, <4>1
    <3> QED
      BY <3>7, <3>8
  <2>2. mem' \in Session /\ mem.date \in Days \cup {NoDay}
    BY <1>0, <1>23, <2>1 DEF DeletePersist, TypeOK, Session
  <2>3. row' \in Row
    BY <1>0, <1>23, <2>2, PersistType DEF DeletePersist, TypeOK
  <2>4. faults' \in Nat
    BY <1>0, <1>23, FaultType DEF DeletePersist, TypeOK, AllFaultKinds
  <2>5. pc' \in PCs /\ loc' \in Local /\ pc' \in {"adv", "idle"}
    BY <1>0, <1>23, ReturnType DEF DeletePersist, Goto, PCs, TypeOK
  <2> QED
    BY <1>0, <1>23, <2>2, <2>3, <2>4, <2>5
       DEF DeletePersist, hist, TypeOK, NodesReady
<1>24. CASE Midnight
  BY <1>0, <1>24 DEF Midnight, hist, TypeOK, NodesReady, Days, ConstantsAssumption
<1>25. CASE \E w \in Words : ComesDue(w) \/ Unsave(w)
  BY <1>0, <1>25 DEF ComesDue, Unsave, hist, TypeOK, NodesReady, Stages
<1>26. CASE PurgeSessions
  BY <1>0, <1>26 DEF PurgeSessions, hist, TypeOK, NodesReady
<1>27. CASE PurgeSlots
  BY <1>0, <1>27 DEF PurgeSlots, hist, TypeOK, NodesReady
<1>28. CASE Crash
  BY <1>0, <1>28, ReturnType DEF Crash, Fault, hist, TypeOK, NodesReady
<1> QED
  BY <1>1, <1>2, <1>3, <1>4, <1>5, <1>6, <1>7, <1>8, <1>9, <1>10, <1>11,
     <1>12, <1>13, <1>14, <1>15, <1>16, <1>17, <1>18, <1>19, <1>20, <1>21,
     <1>22, <1>23, <1>24, <1>25, <1>26, <1>27, <1>28
     DEF Next, HandlerStep, Tap, Environment

(* The initial states have their types.                                    *)
LEMMA TypeInit ==
    ASSUME ConstantsAssumption, Init
    PROVE  TypeInv
<1> USE ConstantTypes
<1>1. day \in Days /\ words \in [Words -> Stages]
  BY DEF Init, Days, Stages, ConstantsAssumption
<1> QED
  BY <1>1 DEF Init, TypeInv, TypeOK, NodesReady, PCs

(* The types, and that a drawn session has a card, hold in every state.    *)
LEMMA TypeInvariant == Spec => []TypeInv
<1>1. Init => TypeInv
  BY TypeInit, ConstantsAssumption
<1>2. TypeInv /\ [Next]_vars => TypeInv'
  BY TypeStep, ConstantsAssumption, StagedAssumption
<1> QED
  BY <1>1, <1>2, PTL DEF Spec

(* Type correctness of the study session: whatever handler, failure or     *)
(* midnight comes next, every variable keeps its type; in particular the   *)
(* slot counters never go below zero and no card is drawn from, graded or  *)
(* revealed in a session that has none.                                    *)
THEOREM TypeCorrectness == Spec => []TypeOK
  BY TypeInvariant, PTL DEF TypeInv

---------------------------------------------------------------------------
(* The stamps.  The row carries the stamp of its session because the two   *)
(* stores that name a day of their own, at a start and at an advance, name *)
(* the day of the session; no stamp lies in the future; and the row never  *)
(* outlives the session in memory.                                         *)

StampInv ==
    /\ RowDateIsInnerDate
    /\ pc \in {"s_persist", "a_persist"} => mem.date = loc.today
    /\ row.date <= day /\ mem.date <= day /\ loc.today <= day
    /\ pc \in {"s_gate", "s_consume", "s_build"} => row.date <= loc.today
    /\ Present(mem) => row.date <= mem.date

(* All stamps are integers.                                                *)
LEMMA StampTypes ==
    ASSUME ConstantsAssumption, TypeOK
    PROVE  /\ day \in Int /\ day >= 0
           /\ loc.today \in Int /\ loc.today >= 0
           /\ mem.date \in Int /\ mem.date >= NoDay
           /\ row.date \in Int /\ row.state.date \in Int
           /\ NoRow.date = NoDay /\ NoRow.state.date = NoDay
           /\ NoSession.date = NoDay
           /\ NoLocal.today = 0
           /\ NoDay = -1
<1>1. NoRow.date = NoDay /\ NoRow.state = NoSession /\ NoSession.date = NoDay
  BY DEF NoRow, NoSession
<1>2. day \in Days /\ loc.today \in Days
  BY DEF TypeOK, Local
<1>3. mem.date \in Days \cup {NoDay}
  BY DEF TypeOK, Session
<1>4. row.date \in Days \cup {NoDay} /\ row.state.date \in Days \cup {NoDay}
  BY DEF TypeOK, Row, Session
<1>5. NoLocal.today = 0
  BY DEF NoLocal
<1> QED
  BY <1>1, <1>2, <1>3, <1>4, <1>5 DEF Days, NoDay, ConstantsAssumption

(* What passes the gate is stamped with today; what does not leaves no     *)
(* session in memory and at most the old row.                              *)
LEMMA GateStamp ==
    ASSUME ConstantsAssumption, TypeOK, StampInv
    PROVE  /\ GateOpen => Gated.date = day /\ row.date <= Gated.date
           /\ GateMiss => mem' = NoSession /\ (row' = row \/ row' = NoRow)
           /\ GateFail => mem' = NoSession
           /\ GateNone => mem' = NoSession /\ (row' = row \/ row' = NoRow)
<1>0. row.state \in Session
  BY DEF TypeOK, Row
<1>1. GateOpen => Gated.date = day /\ row.date <= Gated.date
  BY <1>0, StampTypes, FromJsonType
     DEF GateOpen, Gated, RowUsable, StampInv
<1>2. GateMiss => mem' = NoSession /\ (row' = row \/ row' = NoRow)
  BY DEF GateMiss, Invalidate
<1>3. GateFail => mem' = NoSession
  BY DEF GateFail
<1> QED
  BY <1>1, <1>2, <1>3 DEF GateNone

(* A step that keeps the day, empties memory or keeps its stamp, and       *)
(* leaves the row, drops it, or stores memory under its stamp, keeps the   *)
(* stamps in order.                                                        *)
LEMMA StampKept ==
    ASSUME ConstantsAssumption, TypeOK, TypeOK', StampInv, day' = day,
           \/ mem'.date = mem.date
           \/ mem' = NoSession
           \/ mem'.date = day,
           \/ row' = row
           \/ row' = NoRow
           \/ row' = [date |-> mem'.date, state |-> mem'],
           pc' \in {"s_persist", "a_persist"} => mem'.date = loc'.today,
           loc'.today <= day,
           pc' \in {"s_gate", "s_consume", "s_build"} => row'.date <= loc'.today
    PROVE  StampInv'
<1>1. /\ day \in Int /\ day >= 0 /\ NoDay = -1
      /\ mem.date \in Int /\ row.date \in Int /\ mem.date >= NoDay
      /\ NoRow.date = NoDay /\ NoRow.state.date = NoDay
      /\ NoSession.date = NoDay
  BY StampTypes
<1>2. mem'.date \in Int /\ row'.date \in Int /\ mem'.date <= day
  BY <1>1 DEF StampInv
<1>3. RowDateIsInnerDate' /\ row'.date <= day
  BY <1>1, <1>2 DEF StampInv, RowDateIsInnerDate
<1>4. Present(mem)' => row'.date <= mem'.date
  BY <1>1, <1>2 DEF StampInv, Present
<1> QED
  BY <1>2, <1>3, <1>4 DEF StampInv

(* Every step keeps the stamps in order.                                   *)
LEMMA StampStep ==
    ASSUME ConstantsAssumption, TypeInv, TypeInv', StampInv, [Next]_vars
    PROVE  StampInv'
<1>0. TypeOK /\ TypeOK' /\ NodesReady
  BY DEF TypeInv
<1> USE <1>0, StampTypes
<1>1. CASE UNCHANGED vars
  BY <1>1 DEF vars, StampInv, RowDateIsInnerDate, Present
<1>2. CASE StudyTap
  <2>1. loc'.today = day /\ pc' = "s_gate"
    BY <1>2 DEF StudyTap, NoLocal
  <2> QED
    BY <1>2, <2>1, StampKept DEF StudyTap, StampInv
<1>3. CASE StartGate
  <2>1. /\ mem' = NoSession \/ mem'.date = day
        /\ row' = row \/ row' = NoRow
        /\ pc' \in {"r_send", "s_consume"} /\ loc' = loc
    BY <1>3, GateStamp DEF StartGate, Goto
  <2>2. row'.date <= loc'.today
    BY <1>3, <2>1 DEF StartGate, StampInv
  <2> QED
    BY <1>3, <2>1, <2>2, StampKept DEF StartGate, StampInv
<1>4. CASE Consume
  <2>1. \/ pc' = "s_build" /\ loc'.today = loc.today
        \/ pc' = "idle" /\ loc' = NoLocal
    BY <1>4 DEF Consume, Return, TypeOK, Local
  <2> QED
    BY <1>4, <2>1, StampKept DEF Consume, StampInv
<1>5. CASE BuildSession
  <2>1. CASE pc' = "s_persist"
    <3>1. mem'.date = loc.today /\ UNCHANGED <<day, row, loc>>
      BY <1>5, <2>1 DEF BuildSession, Goto, NoSession
    <3>2. row.date <= loc.today
      BY <1>5 DEF BuildSession, StampInv
    <3> QED
      BY <2>1, <3>1, <3>2 DEF StampInv, RowDateIsInnerDate, Present
  <2>2. CASE pc' \in {"s_release", "s_clear"}
    BY <1>5, <2>2, StampKept DEF BuildSession, Goto, StampInv
  <2> QED
    BY <1>5, <2>1, <2>2 DEF BuildSession, Goto
<1>6. CASE StartPersist
  <2>1. /\ pc' \in {"s_send", "s_clear"} /\ loc' = loc
        /\ mem' = mem \/ mem' = NoSession
        /\ \/ row' = row
           \/ row' = [date |-> mem'.date, state |-> mem']
    BY <1>6 DEF StartPersist, Persist, Goto, StampInv
  <2> QED
    BY <1>6, <2>1, StampKept DEF StartPersist, StampInv
<1>7. CASE SendFirst
  <2>1. mem.nodes # <<>>
    BY <1>7 DEF SendFirst, NodesReady
  <2>2. mem'.date = mem.date \/ mem' = NoSession
    BY <1>7, <2>1, DrawnType DEF SendFirst, TypeOK, Session
  <2>3. pc' \in {"s_sent", "s_clear"} /\ UNCHANGED <<loc, row, day>>
    BY <1>7 DEF SendFirst, Goto
  <2> QED
    BY <2>2, <2>3, StampKept DEF StampInv
<1>8. CASE FirstPersist
  BY <1>8, StampKept DEF FirstPersist, Persist, Return
<1>9. CASE StartCleanup
  BY <1>9, StampKept DEF StartCleanup, Goto, StampInv
<1>10. CASE ReleaseSlot
  BY <1>10, StampKept DEF ReleaseSlot, Return
<1>11. CASE ResumeSend
  <2>1. mem.nodes # <<>>
    BY <1>11 DEF ResumeSend, NodesReady
  <2>2. mem'.date = mem.date
    BY <1>11, <2>1, DrawnType DEF ResumeSend, TypeOK, Session
  <2>3. /\ pc' \in {"r_persist", "idle"} /\ UNCHANGED <<row, day>>
        /\ loc' = loc \/ loc' = NoLocal
    BY <1>11 DEF ResumeSend, Goto, Return
  <2> QED
    BY <2>2, <2>3, StampKept DEF StampInv
<1>12. CASE Advance
  <2>1. /\ mem' = NoSession \/ mem'.date = day
        /\ row' = row \/ row' = NoRow
        /\ day' = day
        /\ \/ pc' = "a_persist" /\ loc'.today = day /\ mem'.date = day
           \/ pc' \in {"a_clear", "idle"} /\ (loc' = loc \/ loc' = NoLocal)
    <3>1. CASE GateNone /\ Return
      BY <1>12, <3>1, GateStamp DEF Advance, Return
    <3>2. CASE GateOpen /\ UNCHANGED row /\ AdvanceToCard(Gated)
      <4> DEFINE S == Gated
                 N == PopNext(S)
      <4>1. S \in Session /\ S.date = day
        BY <3>2, GateType, GateStamp
      <4> HIDE DEF S
      <4>2. N \in Session /\ N.date = day /\ N.nodes # <<>>
        BY <3>2, <4>1, PopNextType DEF AdvanceToCard, S
      <4>3. Drawn(N).date = day
        BY <4>2, DrawnType
      <4> QED
        BY <1>12, <3>2, <4>1, <4>2, <4>3
           DEF Advance, AdvanceToCard, Return, NoLocal, S
    <3>3. CASE GateOpen /\ UNCHANGED row /\ Finish(Gated)
      BY <1>12, <3>3, GateStamp DEF Advance, Finish, Goto, Return
    <3> QED
      BY <1>12, <3>1, <3>2, <3>3 DEF Advance
  <2> QED
    BY <2>1, StampKept DEF StampInv
<1>13. CASE AdvancePersist
  BY <1>13, StampKept DEF AdvancePersist, Persist, Return, StampInv
<1>14. CASE FinishClear
  BY <1>14, StampKept DEF FinishClear, Return
<1>15. CASE \E m \in Msgs : GradeTap(m)
  <2>1. PICK m \in Msgs : GradeTap(m)
    BY <1>15
  <2>2. pc' \in {"g_check", "idle"} /\ loc'.today = 0
    BY <2>1 DEF GradeTap, Return, NoLocal
  <2>3. /\ day' = day
        /\ mem' = mem \/ mem' = NoSession
        /\ row' = row \/ row' = NoRow
    BY <2>1 DEF GradeTap, Invalidate
  <2> QED
    BY <2>2, <2>3, StampKept
<1>16. CASE GradeCheck
  <2>1. mem' = NoSession \/ mem'.date = day
    BY <1>16, GateStamp, GateType DEF GradeCheck, Duplicate, Session
  <2>2. row' = row \/ row' = NoRow
    BY <1>16, GateStamp DEF GradeCheck, Invalidate
  <2>3. /\ pc' \in {"adv", "g_txn", "idle"} /\ day' = day
        /\ loc' = loc \/ loc' = NoLocal
    BY <1>16 DEF GradeCheck, Duplicate, Goto, Return
  <2> QED
    BY <2>1, <2>2, <2>3, StampKept DEF StampInv
<1>17. CASE GradeTxn
  <2>1. /\ pc' \in {"g_persist", "adv", "idle"} /\ UNCHANGED <<day, mem, row>>
        /\ loc' = loc \/ loc' = NoLocal
    BY <1>17 DEF GradeTxn, Goto, Return
  <2> QED
    BY <2>1, StampKept DEF StampInv
<1>18. CASE GradePersist
  <2>1. /\ pc' \in {"adv", "idle"} /\ day' = day
        /\ loc' = loc \/ loc' = NoLocal
    BY <1>18 DEF GradePersist, Goto, Return
  <2>2. mem'.date = mem.date
    BY <1>18 DEF GradePersist, TypeOK, Session
  <2>3. row' = row \/ row' = [date |-> mem'.date, state |-> mem']
    BY <1>18, <2>2 DEF GradePersist, Persist
  <2> QED
    BY <2>1, <2>2, <2>3, StampKept DEF StampInv
<1>19. CASE \E m \in Msgs : RevealTap(m)
  <2>1. PICK m \in Msgs : RevealTap(m)
    BY <1>19
  <2>2. pc' \in {"v_persist", "idle"} /\ loc'.today = 0
    BY <2>1 DEF RevealTap, Return, NoLocal
  <2>3. /\ day' = day
        /\ row' = row \/ row' = NoRow
    BY <2>1, GateStamp DEF RevealTap
  <2>4. mem' = NoSession \/ mem'.date = day
    BY <2>1, GateStamp, GateType DEF RevealTap, Session
  <2> QED
    BY <2>2, <2>3, <2>4, StampKept
<1>20. CASE RevealPersist
  <2>1. mem'.date = mem.date
    BY <1>20 DEF RevealPersist, TypeOK, Session
  <2>2. row' = row \/ row' = [date |-> mem'.date, state |-> mem']
    BY <1>20, <2>1 DEF RevealPersist, Persist
  <2> QED
    BY <1>20, <2>1, <2>2, StampKept DEF RevealPersist, Return
<1>21. CASE \E m \in Msgs : DeleteTap(m) \/ DeleteNo(m)
  <2>1. PICK m \in Msgs, from \in Kinds, to \in Kinds : SwapButtons(m, from, to)
    BY <1>21 DEF DeleteTap, DeleteNo, Kinds
  <2>2. /\ UNCHANGED <<day, pc, loc>> /\ pc = "idle"
        /\ row' = row \/ row' = NoRow
        /\ mem' = NoSession \/ mem'.date = day
    BY <2>1, GateStamp DEF SwapButtons
  <2> QED
    BY <2>2, StampKept DEF StampInv
<1>22. CASE \E m \in Msgs : DeleteYes(m)
  <2>1. PICK m \in Msgs : DeleteYes(m)
    BY <1>22
  <2>2. /\ day' = day /\ pc' \in {"d_persist", "idle"}
        /\ loc' = loc \/ loc' = NoLocal
        /\ row' = row \/ row' = NoRow
        /\ mem' = NoSession \/ mem'.date = day
    BY <2>1, GateStamp DEF DeleteYes, Goto, Return
  <2> QED
    BY <2>2, StampKept DEF StampInv
<1>23. CASE DeletePersist
  <2>1. mem'.date = mem.date
    BY <1>23, RefilledDate DEF DeletePersist, TypeOK
  <2>2. /\ day' = day /\ pc' \in {"adv", "idle"}
        /\ loc' = loc \/ loc' = NoLocal
        /\ row' = row \/ row' = [date |-> mem'.date, state |-> mem']
    BY <1>23, <2>1 DEF DeletePersist, Persist, Goto, Return
  <2> QED
    BY <2>1, <2>2, StampKept DEF StampInv
<1>24. CASE Midnight
  BY <1>24 DEF Midnight, StampInv, RowDateIsInnerDate, Present
<1>25. CASE \E w \in Words : ComesDue(w) \/ Unsave(w)
  BY <1>25 DEF ComesDue, Unsave, StampInv, RowDateIsInnerDate, Present
<1>26. CASE PurgeSessions
  <2>1. /\ UNCHANGED <<day, mem, pc, loc>>
        /\ row' = row \/ row' = NoRow
    BY <1>26 DEF PurgeSessions
  <2> QED
    BY <2>1, StampKept DEF StampInv
<1>27. CASE PurgeSlots
  BY <1>27 DEF PurgeSlots, StampInv, RowDateIsInnerDate, Present
<1>28. CASE Crash
  BY <1>28, StampKept DEF Crash, Return
<1> QED
  BY <1>1, <1>2, <1>3, <1>4, <1>5, <1>6, <1>7, <1>8, <1>9, <1>10, <1>11,
     <1>12, <1>13, <1>14, <1>15, <1>16, <1>17, <1>18, <1>19, <1>20, <1>21,
     <1>22, <1>23, <1>24, <1>25, <1>26, <1>27, <1>28
     DEF Next, HandlerStep, Tap, Environment

(* The order of the stamps holds in every state.                           *)
LEMMA StampInvariant == Spec => []StampInv
<1>1. Init => StampInv
  BY ConstantsAssumption, TypeInit, StampTypes
     DEF Init, StampInv, RowDateIsInnerDate, Present, TypeInv
<1>2. TypeInv /\ TypeInv' /\ StampInv /\ [Next]_vars => StampInv'
  BY StampStep, ConstantsAssumption
<1> QED
  BY <1>1, <1>2, TypeInvariant, PTL DEF Spec

(* The date column of a study_sessions row never differs from the stamp of *)
(* the session stored in it, at whatever point of a start, a grade, a      *)
(* delete, a reveal or an advance midnight passes.                         *)
THEOREM RowDateIsSafe == Spec => []RowDateIsInnerDate
  BY StampInvariant, PTL DEF StampInv

---------------------------------------------------------------------------
(* One grade per card and session.  A card counted as graded in a live     *)
(* session is in the ledger under today, so no nightly purge forgets it;   *)
(* a handler about to run the transition has found no entry; and a session *)
(* that is not live never becomes live again unless one is built.          *)

GradeInv ==
    /\ GateOpen => \A n \in Node : /\ grades[n] <= 1
                                   /\ grades[n] # 0 => ledger[n] = day
    /\ pc = "g_txn" => ledger[loc.node] = NoDay

(* The shape of every step but a build: it keeps the stamp in memory,      *)
(* empties memory, or restores a session that is live; and it leaves the   *)
(* row, drops it, or stores memory.                                        *)
Shape ==
    /\ day' = day
    /\ mem'.date = mem.date \/ mem' = NoSession \/ (GateOpen /\ mem'.date = day)
    /\ \/ row' = row
       \/ row' = NoRow
       \/ row' = [date |-> mem'.date, state |-> mem']

(* No step of that shape brings a session to life.                         *)
LEMMA NoRevival ==
    ASSUME ConstantsAssumption, TypeOK, TypeOK', StampInv, Shape, GateOpen'
    PROVE  GateOpen
<1> USE StampTypes
<1>1. CASE Present(mem)'
  <2>1. mem'.date = day
    BY <1>1 DEF GateOpen, Shape
  <2> QED
    BY <1>1, <2>1 DEF GateOpen, Shape, Present
<1>2. CASE ~Present(mem)'
  <2>1. row'.date = day /\ row'.state.nodes # <<>> /\ row'.state.date = day
    BY <1>2 DEF GateOpen, RowUsable, Shape
  <2>2. row' = row
    BY <1>2, <2>1 DEF Shape, Present
  <2>3. CASE Present(mem)
    BY <2>1, <2>2, <2>3 DEF GateOpen, StampInv
  <2>4. CASE ~Present(mem)
    BY <2>1, <2>2, <2>4 DEF GateOpen, RowUsable
  <2> QED
    BY <2>3, <2>4
<1> QED
  BY <1>1, <1>2

(* A step of that shape that runs no transition, and clears the ledger     *)
(* only together with the session, keeps the invariant.                    *)
LEMMA GradeKept ==
    ASSUME ConstantsAssumption, TypeOK, TypeOK', StampInv, GradeInv, Shape,
           grades' = grades,
           ledger' = ledger \/ (mem' = NoSession /\ row' = NoRow),
           pc' = "g_txn" => ledger'[loc'.node] = NoDay
    PROVE  GradeInv'
<1>1. CASE ledger' = ledger
  <2>1. GateOpen' => GateOpen
    BY NoRevival
  <2> QED
    BY <1>1, <2>1 DEF GradeInv, Shape
<1>2. CASE mem' = NoSession /\ row' = NoRow
  <2>1. ~GateOpen'
    BY <1>2, StampTypes DEF GateOpen, RowUsable, Present, Shape
  <2> QED
    BY <2>1 DEF GradeInv
<1> QED
  BY <1>1, <1>2

(* What passes the gate, or does not, has that shape.                      *)
LEMMA GateShape ==
    ASSUME ConstantsAssumption, TypeOK, StampInv
    PROVE  /\ GateOpen => Gated.date = day
           /\ GateMiss \/ GateNone =>
                 /\ mem' = NoSession
                 /\ \/ row' = row /\ ledger' = ledger
                    \/ row' = NoRow
           /\ GateFail => mem' = NoSession
<1>1. GateMiss => /\ mem' = NoSession
                  /\ (row' = row /\ ledger' = ledger) \/ row' = NoRow
  BY DEF GateMiss, Invalidate
<1> QED
  BY <1>1, GateStamp DEF GateNone, GateFail

(* Every step keeps the invariant.                                         *)
LEMMA GradeStep ==
    ASSUME ConstantsAssumption, TypeInv, TypeInv', StampInv, GradeInv,
           [Next]_vars
    PROVE  GradeInv'
<1>0. TypeOK /\ TypeOK' /\ NodesReady
  BY DEF TypeInv
<1> USE <1>0
<1>1. CASE UNCHANGED vars
  BY <1>1, GradeKept DEF vars, Shape, GradeInv
<1>2. CASE StudyTap
  BY <1>2, GradeKept DEF StudyTap, hist, Shape
<1>3. CASE StartGate
  <2>1. Shape
    BY <1>3, GateShape DEF StartGate, Shape
  <2>2. ledger' = ledger \/ (mem' = NoSession /\ row' = NoRow)
    BY <1>3, GateShape DEF StartGate
  <2> QED
    BY <1>3, <2>1, <2>2, GradeKept DEF StartGate, Goto, hist
<1>4. CASE Consume
  BY <1>4, GradeKept DEF Consume, Return, hist, Shape
<1>5. CASE BuildSession
  <2>1. CASE pc' = "s_persist"
    <3>1. grades' = [n \in Node |-> 0]
      BY <1>5, <2>1 DEF BuildSession, Goto
    <3> QED
      BY <2>1, <3>1 DEF GradeInv
  <2>2. CASE pc' \in {"s_release", "s_clear"}
    BY <1>5, <2>2, GradeKept DEF BuildSession, Goto, Shape
  <2> QED
    BY <1>5, <2>1, <2>2 DEF BuildSession, Goto
<1>6. CASE StartPersist
  BY <1>6, GradeKept DEF StartPersist, Persist, Goto, hist, Shape, StampInv
<1>7. CASE SendFirst
  <2>1. mem.nodes # <<>>
    BY <1>7 DEF SendFirst, NodesReady
  <2>2. mem'.date = mem.date \/ mem' = NoSession
    BY <1>7, <2>1, DrawnType DEF SendFirst, TypeOK, Session
  <2> QED
    BY <1>7, <2>2, GradeKept DEF SendFirst, Goto, Shape
<1>8. CASE FirstPersist
  BY <1>8, GradeKept DEF FirstPersist, Persist, Return, hist, Shape
<1>9. CASE StartCleanup
  BY <1>9, GradeKept DEF StartCleanup, Goto, hist, Shape
<1>10. CASE ReleaseSlot
  BY <1>10, GradeKept DEF ReleaseSlot, Return, hist, Shape
<1>11. CASE ResumeSend
  <2>1. mem.nodes # <<>>
    BY <1>11 DEF ResumeSend, NodesReady
  <2>2. mem'.date = mem.date
    BY <1>11, <2>1, DrawnType DEF ResumeSend, TypeOK, Session
  <2>3. pc' \in {"r_persist", "idle"}
    BY <1>11 DEF ResumeSend, Goto, Return
  <2> QED
    BY <1>11, <2>2, <2>3, GradeKept DEF ResumeSend, hist, Shape
<1>12. CASE Advance
  <2>1. CASE GateNone /\ Return
    <3>1. /\ mem' = NoSession
          /\ (row' = row /\ ledger' = ledger) \/ row' = NoRow
      BY <2>1, GateShape
    <3> QED
      BY <1>12, <2>1, <3>1, GradeKept DEF Advance, Return, Shape
  <2>2. CASE GateOpen /\ UNCHANGED <<row, ledger>> /\ AdvanceToCard(Gated)
    <3> DEFINE S == Gated
               N == PopNext(S)
    <3>1. S \in Session /\ S.date = day
      BY <2>2, GateType, GateShape
    <3> HIDE DEF S
    <3>2. N \in Session /\ N.date = day /\ N.nodes # <<>>
      BY <2>2, <3>1, PopNextType DEF AdvanceToCard, S
    <3>3. Drawn(N).date = day
      BY <3>2, DrawnType
    <3>4. mem'.date = day /\ pc' \in {"a_persist", "idle"}
      BY <2>2, <3>1, <3>2, <3>3 DEF AdvanceToCard, Return, S
    <3> QED
      BY <1>12, <2>2, <3>4, GradeKept DEF Advance, Shape
  <2>3. CASE GateOpen /\ UNCHANGED <<row, ledger>> /\ Finish(Gated)
    <3>1. /\ mem' = NoSession \/ mem'.date = day
          /\ pc' \in {"a_clear", "idle"}
      BY <2>3, GateShape DEF Finish, Goto, Return
    <3> QED
      BY <1>12, <2>3, <3>1, GradeKept DEF Advance, Shape
  <2> QED
    BY <1>12, <2>1, <2>2, <2>3 DEF Advance
<1>13. CASE AdvancePersist
  BY <1>13, GradeKept DEF AdvancePersist, Persist, Return, hist, Shape, StampInv
<1>14. CASE FinishClear
  BY <1>14, GradeKept DEF FinishClear, Return, hist, Shape
<1>15. CASE \E m \in Msgs : GradeTap(m)
  <2>1. PICK m \in Msgs : GradeTap(m)
    BY <1>15
  <2>2. pc' \in {"g_check", "idle"}
    BY <2>1 DEF GradeTap, Return
  <2> QED
    BY <2>1, <2>2, GradeKept DEF GradeTap, Invalidate, hist, Shape
<1>16. CASE GradeCheck
  <2>1. Shape
    <3>1. mem' = NoSession \/ (GateOpen /\ mem'.date = day)
      BY <1>16, GateShape, GateType DEF GradeCheck, Duplicate, Session
    <3>2. row' = row \/ row' = NoRow
      BY <1>16, GateShape DEF GradeCheck, Invalidate
    <3> QED
      BY <1>16, <3>1, <3>2 DEF GradeCheck, Shape
  <2>2. ledger' = ledger \/ (mem' = NoSession /\ row' = NoRow)
    BY <1>16, GateShape DEF GradeCheck, Invalidate
  <2>3. pc' = "g_txn" => ledger'[loc'.node] = NoDay
    BY <1>16 DEF GradeCheck, Duplicate, AlreadyGraded, Goto, Return
  <2> QED
    BY <1>16, <2>1, <2>2, <2>3, GradeKept DEF GradeCheck, hist
<1>17. CASE GradeTxn
  <2>1. pc' # "g_txn"
    BY <1>17 DEF GradeTxn, Goto, Return
  <2>2. GateOpen' => GateOpen
    BY <1>17, NoRevival DEF GradeTxn, Shape
  <2>3. CASE UNCHANGED <<ledger, grades>>
    BY <1>17, <2>1, <2>2, <2>3 DEF GradeTxn, GradeInv
  <2>4. CASE /\ ledger' = [ledger EXCEPT ![loc.node] =
                                IF @ = NoDay THEN day ELSE @]
             /\ grades' = [grades EXCEPT ![loc.node] = @ + 1]
    <3>1. loc.node \in Node /\ ledger[loc.node] = NoDay /\ day' = day
      BY <1>17 DEF GradeTxn, NodesReady, GradeInv
    <3>2. ledger'[loc.node] = day /\ grades'[loc.node] = grades[loc.node] + 1
      BY <2>4, <3>1 DEF TypeOK
    <3>3. GateOpen => grades[loc.node] = 0
      BY <3>1, StampTypes DEF GradeInv, TypeOK
    <3>4. ASSUME GateOpen, NEW n \in Node
          PROVE  grades'[n] <= 1 /\ (grades'[n] # 0 => ledger'[n] = day)
      <4>1. CASE n = loc.node
        BY <3>2, <3>3, <3>4, <4>1
      <4>2. CASE n # loc.node
        <5>1. grades'[n] = grades[n] /\ ledger'[n] = ledger[n]
          BY <2>4, <4>2 DEF TypeOK
        <5> QED
          BY <3>4, <5>1 DEF GradeInv
      <4> QED
        BY <4>1, <4>2
    <3> QED
      BY <2>1, <2>2, <3>1, <3>4 DEF GradeInv
  <2> QED
    BY <1>17, <2>3, <2>4 DEF GradeTxn
<1>18. CASE GradePersist
  <2>1. mem'.date = mem.date /\ pc' \in {"adv", "idle"}
    BY <1>18 DEF GradePersist, TypeOK, Session, Goto, Return
  <2> QED
    BY <1>18, <2>1, GradeKept DEF GradePersist, Persist, hist, Shape
<1>19. CASE \E m \in Msgs : RevealTap(m)
  <2>1. PICK m \in Msgs : RevealTap(m)
    BY <1>19
  <2>2. pc' \in {"v_persist", "idle"}
    BY <2>1 DEF RevealTap, Return
  <2>3. mem' = NoSession \/ (GateOpen /\ mem'.date = day)
    BY <2>1, GateShape, GateType DEF RevealTap, Session
  <2>4. (row' = row /\ ledger' = ledger) \/ (mem' = NoSession /\ row' = NoRow)
    BY <2>1, GateShape DEF RevealTap
  <2> QED
    BY <2>1, <2>2, <2>3, <2>4, GradeKept DEF RevealTap, hist, Shape
<1>20. CASE RevealPersist
  <2>1. mem'.date = mem.date
    BY <1>20 DEF RevealPersist, TypeOK, Session
  <2> QED
    BY <1>20, <2>1, GradeKept DEF RevealPersist, Persist, Return, hist, Shape
<1>21. CASE \E m \in Msgs : DeleteTap(m) \/ DeleteNo(m)
  <2>1. PICK m \in Msgs, from \in Kinds, to \in Kinds : SwapButtons(m, from, to)
    BY <1>21 DEF DeleteTap, DeleteNo, Kinds
  <2>2. /\ mem' = NoSession \/ (GateOpen /\ mem'.date = day)
        /\ (row' = row /\ ledger' = ledger) \/ (mem' = NoSession /\ row' = NoRow)
    BY <2>1, GateShape DEF SwapButtons
  <2> QED
    BY <2>1, <2>2, GradeKept DEF SwapButtons, hist, Shape
<1>22. CASE \E m \in Msgs : DeleteYes(m)
  <2>1. PICK m \in Msgs : DeleteYes(m)
    BY <1>22
  <2>2. /\ mem' = NoSession \/ (GateOpen /\ mem'.date = day)
        /\ (row' = row /\ ledger' = ledger) \/ (mem' = NoSession /\ row' = NoRow)
    BY <2>1, GateShape DEF DeleteYes
  <2>3. pc' \in {"d_persist", "idle"}
    BY <2>1 DEF DeleteYes, Goto, Return
  <2> QED
    BY <2>1, <2>2, <2>3, GradeKept DEF DeleteYes, hist, Shape
<1>23. CASE DeletePersist
  <2>1. mem'.date = mem.date
    BY <1>23, RefilledDate DEF DeletePersist, TypeOK
  <2>2. /\ pc' \in {"adv", "idle"}
        /\ row' = row \/ row' = [date |-> mem'.date, state |-> mem']
    BY <1>23, <2>1 DEF DeletePersist, Persist, Goto, Return
  <2> QED
    BY <1>23, <2>1, <2>2, GradeKept DEF DeletePersist, hist, Shape
<1>24. CASE Midnight
  <2>1. ~GateOpen'
    BY <1>24, StampTypes DEF Midnight, GateOpen, RowUsable, StampInv, Present
  <2> QED
    BY <1>24, <2>1 DEF Midnight, GradeInv
<1>25. CASE \E w \in Words : ComesDue(w) \/ Unsave(w)
  BY <1>25, GradeKept DEF ComesDue, Unsave, hist, Shape, GradeInv
<1>26. CASE PurgeSessions
  <2>1. /\ UNCHANGED <<day, mem, pc, loc, grades>>
        /\ row' = row \/ row' = NoRow
    BY <1>26 DEF PurgeSessions, hist
  <2>2. GateOpen' => GateOpen
    BY <2>1, NoRevival DEF Shape
  <2>3. \A n \in Node : /\ ledger[n] = day => ledger'[n] = day
                        /\ ledger[n] = NoDay => ledger'[n] = NoDay
    <3>1. PICK cut \in {day - 2, day - 1} :
             ledger' = [n \in Node |-> IF ledger[n] < cut THEN NoDay
                                       ELSE ledger[n]]
      BY <1>26 DEF PurgeSessions
    <3> QED
      BY <3>1, StampTypes
  <2> QED
    BY <2>1, <2>2, <2>3 DEF GradeInv, NodesReady
<1>27. CASE PurgeSlots
  BY <1>27, GradeKept DEF PurgeSlots, hist, Shape, GradeInv
<1>28. CASE Crash
  BY <1>28, GradeKept DEF Crash, Return, hist, Shape
<1> QED
  BY <1>1, <1>2, <1>3, <1>4, <1>5, <1>6, <1>7, <1>8, <1>9, <1>10, <1>11,
     <1>12, <1>13, <1>14, <1>15, <1>16, <1>17, <1>18, <1>19, <1>20, <1>21,
     <1>22, <1>23, <1>24, <1>25, <1>26, <1>27, <1>28
     DEF Next, HandlerStep, Tap, Environment

(* While a session is live no card of it runs its scheduling transition    *)
(* twice, whatever is lost, repeated, crashed or purged: the ledger entry  *)
(* is written with the transition and outlives everything that can bring   *)
(* the card back in that session.                                          *)
THEOREM GradedOnce == Spec => []GradedOncePerSession
<1>1. Init => GradeInv
  BY DEF Init, GradeInv
<1>2. TypeInv /\ TypeInv' /\ StampInv /\ GradeInv /\ [Next]_vars => GradeInv'
  BY GradeStep, ConstantsAssumption
<1>3. GradeInv => GradedOncePerSession
  BY DEF GradeInv, GradedOncePerSession, SessionLive
<1> QED
  BY <1>1, <1>2, <1>3, TypeInvariant, StampInvariant, PTL DEF Spec

---------------------------------------------------------------------------
(* The daily slots.  A start that has taken a slot and not yet delivered a *)
(* session holds it: what is delivered and held on a day stays within the  *)
(* plan's limit and, until the counter may be purged, within the counter;  *)
(* and no slot is taken on a day later than a held one, so a release that  *)
(* straddles midnight finds an empty counter.                              *)

Holding == pc \in {"s_build", "s_persist", "s_send", "s_clear", "s_release"}

Held(d) == IF Holding /\ loc.slot = d THEN 1 ELSE 0

SlotInv ==
    /\ Holding => loc.slot <= day /\ \A d \in Days : d > loc.slot => used[d] = 0
    /\ \A d \in Days : d > day => used[d] = 0
    /\ \A d \in Days : /\ used[d] <= SlotLimit
                       /\ delivered[d] + Held(d) <= SlotLimit
                       /\ d >= day - 1 => delivered[d] + Held(d) <= used[d]

(* The counters and the limit are numbers.                                 *)
LEMMA SlotTypes ==
    ASSUME ConstantsAssumption, TypeOK
    PROVE  /\ SlotLimit \in Nat /\ MaxDay \in Nat
           /\ day \in Days /\ day \in Int
           /\ loc.slot \in Days /\ loc.slot \in Int
           /\ Days \subseteq Int
           /\ \A d \in Days : used[d] \in Nat /\ delivered[d] \in Nat
  BY DEF TypeOK, Local, Days, ConstantsAssumption

(* A step that touches neither counter, and takes no slot, keeps the       *)
(* invariant.                                                              *)
LEMMA SlotKept ==
    ASSUME ConstantsAssumption, TypeOK, TypeOK', SlotInv,
           day' = day, used' = used, delivered' = delivered,
           Holding' => Holding /\ loc'.slot = loc.slot
    PROVE  SlotInv'
<1>1. \A d \in Days : Held(d)' <= Held(d) /\ Held(d) \in Nat /\ Held(d)' \in Nat
  BY DEF Held
<1> QED
  BY <1>1, SlotTypes DEF SlotInv

(* Every step keeps the invariant.                                         *)
LEMMA SlotStep ==
    ASSUME ConstantsAssumption, TypeInv, TypeInv', SlotInv, [Next]_vars
    PROVE  SlotInv'
<1>0. TypeOK /\ TypeOK'
  BY DEF TypeInv
<1> USE <1>0
<1>1. CASE UNCHANGED vars
  BY <1>1, SlotKept DEF vars, Holding
<1>2. CASE Consume
  <2>1. CASE pc' = "idle" /\ used' = used
    BY <1>2, <2>1, SlotKept DEF Consume, hist, Holding
  <2>2. CASE /\ used[day] < SlotLimit
             /\ used' = [used EXCEPT ![day] = @ + 1]
             /\ pc' = "s_build"
             /\ loc' = [loc EXCEPT !.slot = day]
    <3>1. /\ loc'.slot = day /\ Holding' /\ ~Holding
          /\ UNCHANGED <<day, delivered>>
      BY <1>2, <2>2 DEF Consume, hist, Holding, TypeOK, Local
    <3>2. \A d \in Days : /\ Held(d) = 0
                          /\ Held(d)' = IF d = day THEN 1 ELSE 0
      BY <3>1 DEF Held
    <3>3. \A d \in Days : used'[d] = IF d = day THEN used[d] + 1 ELSE used[d]
      BY <2>2 DEF TypeOK
    <3> QED
      BY <2>2, <3>1, <3>2, <3>3, SlotTypes DEF SlotInv
  <2> QED
    BY <1>2, <2>1, <2>2 DEF Consume, Return
<1>3. CASE BuildSession
  BY <1>3, SlotKept DEF BuildSession, Goto, Holding
<1>4. CASE StartPersist
  BY <1>4, SlotKept DEF StartPersist, Goto, hist, Holding
<1>5. CASE SendFirst
  <2>1. CASE delivered' = delivered /\ pc' = "s_clear" /\ loc' = loc
    BY <1>5, <2>1, SlotKept DEF SendFirst, Holding
  <2>2. CASE /\ delivered' = [delivered EXCEPT ![loc.slot] = @ + 1]
             /\ pc' = "s_sent"
    <3>1. Holding /\ ~Holding' /\ UNCHANGED <<day, used>>
      BY <1>5, <2>2 DEF SendFirst, Holding
    <3>2. \A d \in Days : /\ Held(d) = IF d = loc.slot THEN 1 ELSE 0
                          /\ Held(d)' = 0
      BY <3>1 DEF Held
    <3>3. \A d \in Days : delivered'[d] = IF d = loc.slot THEN delivered[d] + 1
                                          ELSE delivered[d]
      BY <2>2 DEF TypeOK
    <3> QED
      BY <3>1, <3>2, <3>3, SlotTypes DEF SlotInv
  <2> QED
    BY <1>5, <2>1, <2>2 DEF SendFirst, Goto
<1>6. CASE StartCleanup
  BY <1>6, SlotKept DEF StartCleanup, Goto, hist, Holding
<1>7. CASE ReleaseSlot
  <2>1. CASE used' = used
    BY <1>7, <2>1, SlotKept DEF ReleaseSlot, Return, hist, Holding
  <2>2. CASE used' = [used EXCEPT ![day] = IF @ > 0 THEN @ - 1 ELSE 0]
    <3>1. Holding /\ ~Holding' /\ UNCHANGED <<day, delivered>>
      BY <1>7 DEF ReleaseSlot, Return, hist, Holding
    <3>2. \A d \in Days : /\ Held(d) = IF d = loc.slot THEN 1 ELSE 0
                          /\ Held(d)' = 0
      BY <3>1 DEF Held
    <3>3. \A d \in Days : used'[d] = IF d = day
                                       THEN IF used[d] > 0 THEN used[d] - 1 ELSE 0
                                       ELSE used[d]
      BY <2>2 DEF TypeOK
    <3> QED
      BY <3>1, <3>2, <3>3, SlotTypes DEF SlotInv
  <2> QED
    BY <1>7, <2>1, <2>2 DEF ReleaseSlot
<1>8. CASE StudyTap \/ StartGate
  BY <1>8, SlotKept DEF StudyTap, StartGate, Goto, hist, Holding
<1>9. CASE FirstPersist \/ ResumeSend
  BY <1>9, SlotKept DEF FirstPersist, ResumeSend, Goto, Return, hist, Holding
<1>10. CASE Advance
  <2>1. pc' \in {"a_persist", "a_clear", "idle"}
    BY <1>10 DEF Advance, AdvanceToCard, Finish, Goto, Return
  <2> QED
    BY <1>10, <2>1, SlotKept DEF Advance, Holding
<1>11. CASE AdvancePersist \/ FinishClear
  BY <1>11, SlotKept DEF AdvancePersist, FinishClear, Return, hist, Holding
<1>12. CASE \E m \in Msgs : GradeTap(m)
  <2>1. pc' \in {"g_check", "idle"} /\ UNCHANGED <<day, used, delivered>>
    BY <1>12 DEF GradeTap, Return, hist
  <2> QED
    BY <2>1, SlotKept DEF Holding
<1>13. CASE GradeCheck
  <2>1. pc' \in {"adv", "g_txn", "idle"} /\ UNCHANGED <<day, used, delivered>>
    BY <1>13 DEF GradeCheck, Duplicate, Goto, Return, hist
  <2> QED
    BY <2>1, SlotKept DEF Holding
<1>14. CASE GradeTxn
  <2>1. /\ pc' \in {"g_persist", "adv", "idle"}
        /\ UNCHANGED <<day, used, delivered>>
    BY <1>14 DEF GradeTxn, Goto, Return
  <2> QED
    BY <2>1, SlotKept DEF Holding
<1>15. CASE GradePersist \/ RevealPersist \/ DeletePersist
  <2>1. pc' \in {"adv", "idle"} /\ UNCHANGED <<day, used, delivered>>
    BY <1>15 DEF GradePersist, RevealPersist, DeletePersist, Goto, Return, hist
  <2> QED
    BY <2>1, SlotKept DEF Holding
<1>16. CASE \E m \in Msgs : RevealTap(m)
  <2>1. pc' \in {"v_persist", "idle"} /\ UNCHANGED <<day, used, delivered>>
    BY <1>16 DEF RevealTap, Return, hist
  <2> QED
    BY <2>1, SlotKept DEF Holding
<1>17. CASE \E m \in Msgs : DeleteTap(m) \/ DeleteNo(m)
  BY <1>17, SlotKept DEF DeleteTap, DeleteNo, SwapButtons, hist, Holding
<1>18. CASE \E m \in Msgs : DeleteYes(m)
  <2>1. pc' \in {"d_persist", "idle"} /\ UNCHANGED <<day, used, delivered>>
    BY <1>18 DEF DeleteYes, Goto, Return, hist
  <2> QED
    BY <2>1, SlotKept DEF Holding
<1>19. CASE Midnight
  <2>1. /\ day' = day + 1 /\ UNCHANGED <<used, delivered>>
        /\ (Holding' <=> Holding) /\ UNCHANGED loc
    BY <1>19 DEF Midnight, hist, Holding
  <2>2. \A d \in Days : Held(d)' = Held(d) /\ Held(d) \in Nat
    BY <2>1 DEF Held
  <2> QED
    BY <2>1, <2>2, SlotTypes DEF SlotInv
<1>20. CASE \E w \in Words : ComesDue(w) \/ Unsave(w)
  BY <1>20, SlotKept DEF ComesDue, Unsave, hist, Holding
<1>21. CASE PurgeSessions
  BY <1>21, SlotKept DEF PurgeSessions, hist, Holding
<1>22. CASE PurgeSlots
  <2>1. /\ UNCHANGED <<day, delivered, loc>>
        /\ (Holding' <=> Holding)
        /\ \A d \in Days : used'[d] = IF d < day - 1 THEN 0 ELSE used[d]
    BY <1>22 DEF PurgeSlots, hist, Holding
  <2>2. \A d \in Days : Held(d)' = Held(d) /\ Held(d) \in Nat
    BY <2>1 DEF Held
  <2> QED
    BY <2>1, <2>2, SlotTypes DEF SlotInv
<1>23. CASE Crash
  BY <1>23, SlotKept DEF Crash, Return, hist, Holding
<1> QED
  BY <1>1, <1>2, <1>3, <1>4, <1>5, <1>6, <1>7, <1>8, <1>9, <1>10, <1>11,
     <1>12, <1>13, <1>14, <1>15, <1>16, <1>17, <1>18, <1>19, <1>20, <1>21,
     <1>22, <1>23
     DEF Next, HandlerStep, Tap, Environment

(* No slot is taken yet.                                                   *)
LEMMA SlotInit == Init => SlotInv
<1>1. Init => \A d \in Days : Held(d) = 0 /\ used[d] = 0 /\ delivered[d] = 0
  BY DEF Init, Held, Holding
<1> QED
  BY <1>1, ConstantsAssumption DEF Init, SlotInv, Holding, ConstantsAssumption

(* Neither the sessions delivered on a day's slots nor its counter ever    *)
(* exceed the plan's limit, and a counter that has not been purged covers  *)
(* what was delivered, whenever a start fails, crashes or is cut by        *)
(* midnight between taking its slot and giving it back.                    *)
THEOREM SlotsAreSafe == Spec => []SlotsRespectLimit
<1>1. Init => SlotInv
  BY SlotInit
<1>2. TypeInv /\ TypeInv' /\ SlotInv /\ [Next]_vars => SlotInv'
  BY SlotStep, ConstantsAssumption
<1>3. TypeInv /\ SlotInv => SlotsRespectLimit
  <2>1. TypeOK => \A d \in Days : Held(d) \in Nat
    BY DEF Held
  <2> QED
    BY <2>1, SlotTypes, ConstantsAssumption
       DEF SlotInv, SlotsRespectLimit, TypeInv
<1> QED
  BY <1>1, <1>2, <1>3, TypeInvariant, PTL DEF Spec

---------------------------------------------------------------------------
(* The day's balance.  While no database call fails and the process does   *)
(* not die, today's counter is what was delivered today and the slot held  *)
(* since; a slot held over midnight is given back to a counter that is     *)
(* still empty (SlotInv), and takes nothing from the new day.              *)

NoStoreFault == FaultKinds \cap {"db", "crash"} = {}

BalanceInv == used[day] = delivered[day] + Held(day)

(* Such failures do not happen then.                                       *)
LEMMA NoStoreFaults ==
    ASSUME NoStoreFault
    PROVE  ~Fault("db") /\ ~Fault("crash")
  BY DEF NoStoreFault, Fault

(* A step that touches neither counter nor the day, and keeps the slot it  *)
(* holds, keeps the balance.                                               *)
LEMMA BalanceKept ==
    ASSUME BalanceInv, UNCHANGED <<day, used, delivered>>,
           Holding' <=> Holding, Holding => loc'.slot = loc.slot
    PROVE  BalanceInv'
  BY DEF BalanceInv, Held

(* Every step keeps the balance.                                           *)
LEMMA BalanceStep ==
    ASSUME ConstantsAssumption, NoStoreFault, TypeInv, TypeInv', SlotInv,
           BalanceInv, [Next]_vars
    PROVE  BalanceInv'
<1>0. TypeOK /\ TypeOK'
  BY DEF TypeInv
<1>a. ~Fault("db") /\ ~Fault("crash")
  BY NoStoreFaults
<1> USE <1>0
<1>1. CASE UNCHANGED vars
  BY <1>1, BalanceKept DEF vars, Holding
<1>2. CASE Consume
  <2>1. CASE pc' = "idle" /\ used' = used
    BY <1>2, <2>1, BalanceKept DEF Consume, hist, Holding
  <2>2. CASE /\ used' = [used EXCEPT ![day] = @ + 1]
             /\ pc' = "s_build"
             /\ loc' = [loc EXCEPT !.slot = day]
    <3>1. /\ loc'.slot = day /\ Holding' /\ ~Holding
          /\ UNCHANGED <<day, delivered>>
      BY <1>2, <2>2 DEF Consume, hist, Holding, TypeOK, Local
    <3>2. used'[day] = used[day] + 1
      BY <2>2 DEF TypeOK
    <3>3. Held(day) = 0 /\ Held(day)' = 1
      BY <3>1 DEF Held
    <3> QED
      BY <3>1, <3>2, <3>3, SlotTypes DEF BalanceInv
  <2> QED
    BY <1>2, <2>1, <2>2 DEF Consume, Return
<1>3. CASE BuildSession
  <2>1. pc = "s_build" /\ UNCHANGED <<day, used, delivered>>
    BY <1>3 DEF BuildSession
  <2>2. loc' = loc
    BY <1>3 DEF BuildSession, Goto
  <2>3. pc' = "s_persist" \/ pc' = "s_release" \/ pc' = "s_clear"
    BY <1>3 DEF BuildSession, Goto
  <2> QED
    BY <2>1, <2>2, <2>3, BalanceKept DEF Holding
<1>4. CASE StartPersist
  <2>1. /\ pc = "s_persist" /\ pc' \in {"s_send", "s_clear"}
        /\ UNCHANGED <<day, used, delivered, loc>>
    BY <1>4 DEF StartPersist, Goto, hist
  <2> QED
    BY <2>1, BalanceKept DEF Holding
<1>5. CASE SendFirst
  <2>0. pc = "s_send" /\ Holding /\ UNCHANGED <<day, used>>
    BY <1>5 DEF SendFirst, Holding
  <2>1. CASE delivered' = delivered /\ pc' = "s_clear" /\ loc' = loc
    BY <2>0, <2>1, BalanceKept DEF Holding
  <2>2. CASE /\ delivered' = [delivered EXCEPT ![loc.slot] = @ + 1]
             /\ pc' = "s_sent"
    <3>1. ~Holding'
      BY <2>2 DEF Holding
    <3>2. /\ Held(day) = IF day = loc.slot THEN 1 ELSE 0
          /\ Held(day)' = 0
      BY <2>0, <3>1 DEF Held
    <3>3. delivered'[day] = IF day = loc.slot THEN delivered[day] + 1
                                              ELSE delivered[day]
      BY <2>2 DEF TypeOK
    <3> QED
      BY <2>0, <3>2, <3>3, SlotTypes DEF BalanceInv
  <2> QED
    BY <1>5, <2>1, <2>2 DEF SendFirst, Goto
<1>6. CASE StartCleanup
  <2>1. /\ pc = "s_clear" /\ pc' = "s_release"
        /\ UNCHANGED <<day, used, delivered, loc>>
    BY <1>6 DEF StartCleanup, Goto, hist
  <2> QED
    BY <2>1, BalanceKept DEF Holding
<1>7. CASE ReleaseSlot
  <2>1. /\ used' = [used EXCEPT ![day] = IF @ > 0 THEN @ - 1 ELSE 0]
        /\ pc = "s_release" /\ pc' = "idle" /\ UNCHANGED <<day, delivered>>
    BY <1>7, <1>a DEF ReleaseSlot, Return, hist
  <2>2. Holding /\ ~Holding'
    BY <2>1 DEF Holding
  <2>3. /\ Held(day) = IF day = loc.slot THEN 1 ELSE 0
        /\ Held(day)' = 0
    BY <2>1, <2>2 DEF Held
  <2>4. used'[day] = IF used[day] > 0 THEN used[day] - 1 ELSE 0
    BY <2>1 DEF TypeOK
  <2>5. day # loc.slot => used[day] = 0
    BY <2>2, SlotTypes DEF SlotInv
  <2> QED
    BY <2>1, <2>3, <2>4, <2>5, SlotTypes DEF BalanceInv
<1>8. CASE StudyTap \/ StartGate
  <2>1. /\ pc \in {"idle", "s_gate"} /\ pc' \in {"s_gate", "r_send", "s_consume"}
        /\ UNCHANGED <<day, used, delivered>>
    BY <1>8 DEF StudyTap, StartGate, Goto, hist
  <2> QED
    BY <2>1, BalanceKept DEF Holding
<1>9. CASE FirstPersist \/ ResumeSend
  <2>1. /\ pc \in {"s_sent", "r_persist", "r_send"}
        /\ pc' \in {"r_persist", "idle"}
        /\ UNCHANGED <<day, used, delivered>>
    BY <1>9 DEF FirstPersist, ResumeSend, Goto, Return, hist
  <2> QED
    BY <2>1, BalanceKept DEF Holding
<1>10. CASE Advance
  <2>1. /\ pc = "adv" /\ pc' \in {"a_persist", "a_clear", "idle"}
        /\ UNCHANGED <<day, used, delivered>>
    BY <1>10 DEF Advance, AdvanceToCard, Finish, Goto, Return
  <2> QED
    BY <2>1, BalanceKept DEF Holding
<1>11. CASE AdvancePersist \/ FinishClear
  <2>1. /\ pc \in {"a_persist", "a_clear"} /\ pc' = "idle"
        /\ UNCHANGED <<day, used, delivered>>
    BY <1>11 DEF AdvancePersist, FinishClear, Return, hist
  <2> QED
    BY <2>1, BalanceKept DEF Holding
<1>12. CASE \E m \in Msgs : GradeTap(m)
  <2>1. /\ pc = "idle" /\ pc' \in {"g_check", "idle"}
        /\ UNCHANGED <<day, used, delivered>>
    BY <1>12 DEF GradeTap, Return, hist
  <2> QED
    BY <2>1, BalanceKept DEF Holding
<1>13. CASE GradeCheck
  <2>1. /\ pc = "g_check" /\ pc' \in {"adv", "g_txn", "idle"}
        /\ UNCHANGED <<day, used, delivered>>
    BY <1>13 DEF GradeCheck, Duplicate, Goto, Return, hist
  <2> QED
    BY <2>1, BalanceKept DEF Holding
<1>14. CASE GradeTxn
  <2>1. /\ pc = "g_txn" /\ pc' \in {"g_persist", "adv", "idle"}
        /\ UNCHANGED <<day, used, delivered>>
    BY <1>14 DEF GradeTxn, Goto, Return
  <2> QED
    BY <2>1, BalanceKept DEF Holding
<1>15. CASE GradePersist \/ RevealPersist \/ DeletePersist
  <2>1. /\ pc \in {"g_persist", "v_persist", "d_persist"}
        /\ pc' \in {"adv", "idle"} /\ UNCHANGED <<day, used, delivered>>
    BY <1>15 DEF GradePersist, RevealPersist, DeletePersist, Goto, Return, hist
  <2> QED
    BY <2>1, BalanceKept DEF Holding
<1>16. CASE \E m \in Msgs : RevealTap(m)
  <2>1. /\ pc = "idle" /\ pc' \in {"v_persist", "idle"}
        /\ UNCHANGED <<day, used, delivered>>
    BY <1>16 DEF RevealTap, Return, hist
  <2> QED
    BY <2>1, BalanceKept DEF Holding
<1>17. CASE \E m \in Msgs : DeleteTap(m) \/ DeleteNo(m)
  BY <1>17, BalanceKept DEF DeleteTap, DeleteNo, SwapButtons, hist, Holding
<1>18. CASE \E m \in Msgs : DeleteYes(m)
  <2>1. /\ pc = "idle" /\ pc' \in {"d_persist", "idle"}
        /\ UNCHANGED <<day, used, delivered>>
    BY <1>18 DEF DeleteYes, Goto, Return, hist
  <2> QED
    BY <2>1, BalanceKept DEF Holding
<1>19. CASE Midnight
  <2>1. /\ day' = day + 1 /\ day' \in Days /\ UNCHANGED <<used, delivered>>
        /\ (Holding' <=> Holding) /\ UNCHANGED loc
    BY <1>19 DEF Midnight, hist, Holding, TypeOK
  <2>2. day' > day
    BY <2>1, SlotTypes
  <2>3. used[day'] = 0 /\ delivered[day'] + Held(day') <= used[day']
    BY <2>1, <2>2, SlotTypes DEF SlotInv
  <2>4. Held(day)' = Held(day')
    BY <2>1 DEF Held
  <2>5. Held(day') \in Nat
    BY DEF Held
  <2>6. delivered[day'] = 0 /\ Held(day') = 0
    BY <2>1, <2>3, <2>5, SlotTypes
  <2> QED
    BY <2>1, <2>3, <2>4, <2>6 DEF BalanceInv
<1>20. CASE \E w \in Words : ComesDue(w) \/ Unsave(w)
  BY <1>20, BalanceKept DEF ComesDue, Unsave, hist, Holding
<1>21. CASE PurgeSessions
  BY <1>21, BalanceKept DEF PurgeSessions, hist, Holding
<1>22. CASE PurgeSlots
  <2>1. /\ UNCHANGED <<day, delivered, loc>>
        /\ (Holding' <=> Holding)
        /\ used'[day] = IF day < day - 1 THEN 0 ELSE used[day]
    BY <1>22 DEF PurgeSlots, hist, Holding, TypeOK
  <2>2. Held(day)' = Held(day)
    BY <2>1 DEF Held
  <2> QED
    BY <2>1, <2>2, SlotTypes DEF BalanceInv
<1>23. CASE Crash
  BY <1>23, <1>a DEF Crash
<1> QED
  BY <1>1, <1>2, <1>3, <1>4, <1>5, <1>6, <1>7, <1>8, <1>9, <1>10, <1>11,
     <1>12, <1>13, <1>14, <1>15, <1>16, <1>17, <1>18, <1>19, <1>20, <1>21,
     <1>22, <1>23
     DEF Next, HandlerStep, Tap, Environment

(* Between two taps the counter of today is the number of sessions         *)
(* delivered on it, whatever Telegram calls are lost, late or refused and  *)
(* wherever midnight falls: a start that fails, or finds no card, gives    *)
(* its slot back once (the except branch of handle_study_start).  A        *)
(* database failure or a crash may keep a slot for good.                   *)
THEOREM SlotsAreBalanced ==
    ASSUME NoStoreFault
    PROVE  Spec => []SlotsBalance
<1>1. Init => SlotInv
  BY SlotInit
<1>2. TypeInv /\ TypeInv' /\ SlotInv /\ [Next]_vars => SlotInv'
  BY SlotStep, ConstantsAssumption
<1>3. Init => BalanceInv
  <2> SUFFICES ASSUME Init PROVE BalanceInv
    OBVIOUS
  <2>1. used[day] = 0 /\ delivered[day] = 0 /\ Held(day) = 0
    BY ConstantsAssumption
       DEF Init, Held, Holding, Days, ConstantsAssumption
  <2> QED
    BY <2>1 DEF BalanceInv
<1>4. TypeInv /\ TypeInv' /\ SlotInv /\ BalanceInv /\ [Next]_vars
         => BalanceInv'
  BY BalanceStep, ConstantsAssumption
<1>5. TypeInv /\ BalanceInv => SlotsBalance
  <2> SUFFICES ASSUME TypeInv, BalanceInv, pc = "idle"
               PROVE  used[day] = delivered[day]
    BY DEF SlotsBalance
  <2>1. Held(day) = 0
    BY DEF Held, Holding
  <2> QED
    BY <2>1, SlotTypes, ConstantsAssumption DEF BalanceInv, TypeInv
<1> QED
  BY <1>1, <1>2, <1>3, <1>4, <1>5, TypeInvariant, PTL DEF Spec

---------------------------------------------------------------------------
(* A reveal is durable.                                                    *)

(* What a session in memory would redraw as revealed, a row that is there  *)
(* would redraw too; while a reveal is being stored this is so of what     *)
(* memory goes back to if that fails.                                      *)
Kept(prompt, revealed, frozen) ==
    prompt /\ revealed /\ Present(row) => /\ row.state.prompt
                                          /\ row.state.revealed
                                          /\ row.state.frozen = frozen

RevealInv ==
    /\ pc # "v_persist" => Kept(mem.prompt, mem.revealed, mem.frozen)
    /\ pc = "v_persist" => Kept(mem.prompt, loc.revealed, loc.frozen)

(* A session that is as revealed as another one at most.                   *)
NoMore(s, t) ==
    s.revealed => s.prompt = t.prompt /\ t.revealed /\ s.frozen = t.frozen

(* Sessions in memory and in the row; the empty ones reveal nothing.       *)
LEMMA RevealTypes ==
    ASSUME TypeOK
    PROVE  /\ mem \in Session /\ row.state \in Session
           /\ ~NoSession.revealed /\ ~Present(NoRow)
  BY DEF TypeOK, Row, NoSession, NoRow, Present

(* The row stays or goes, and memory reveals no more than it did.          *)
LEMMA RevealKept ==
    ASSUME RevealInv, pc # "v_persist", pc' # "v_persist",
           row' = row \/ ~Present(row'), NoMore(mem', mem)
    PROVE  RevealInv'
  BY DEF RevealInv, Kept, NoMore

(* Memory is empty.                                                        *)
LEMMA RevealGone ==
    ASSUME mem' = NoSession, pc' # "v_persist"
    PROVE  RevealInv'
  BY DEF RevealInv, Kept, NoSession

(* The row stores memory.                                                  *)
LEMMA RevealStored ==
    ASSUME row'.state = mem', pc' # "v_persist"
    PROVE  RevealInv'
  BY DEF RevealInv, Kept

(* A session that passes the gate, restored or not, reveals no more than   *)
(* the row.                                                                *)
LEMMA GateReveal ==
    ASSUME TypeOK, RevealInv, pc # "v_persist", GateOpen
    PROVE  Kept(Gated.prompt, Gated.revealed, Gated.frozen)
<1>1. CASE Present(mem)
  BY <1>1 DEF Gated, RevealInv
<1>2. CASE ~Present(mem)
  <2>1. Gated = FromJson(row.state) /\ row.state \in Session
    BY <1>2, RevealTypes DEF Gated
  <2>2. /\ Gated.prompt = row.state.prompt
        /\ Gated.revealed => row.state.revealed
        /\ Gated.prompt => Gated.frozen = row.state.frozen
    BY <2>1 DEF FromJson, Session
  <2>3. QED
    BY <2>2 DEF Kept
<1> QED
  BY <1>1, <1>2

(* The gate opens and memory reveals no more than what passed it.          *)
LEMMA RevealGated ==
    ASSUME TypeOK, RevealInv, pc # "v_persist", pc' # "v_persist", GateOpen,
           row' = row, NoMore(mem', Gated)
    PROVE  RevealInv'
  BY GateReveal DEF RevealInv, Kept, NoMore

(* Drawing, popping and refilling reveal nothing.                          *)
LEMMA DrawnReveal ==
    ASSUME NEW s \in Session
    PROVE  NoMore(Drawn(s), s)
  BY DEF NoMore, Drawn, Session

LEMMA PopNextReveal ==
    ASSUME NEW s \in Session
    PROVE  ~PopNext(s).revealed
  BY DEF PopNext, Session

LEMMA RefilledReveal ==
    ASSUME NEW s \in Session, NEW t \in Refilled(s)
    PROVE  NoMore(t, s)
<1>1. \A q : NoMore([s EXCEPT !.nodes = q], s)
  BY DEF NoMore, Session
<1>2. NoMore(s, s)
  BY DEF NoMore
<1> QED
  BY <1>1, <1>2 DEF Refilled

(* Every step keeps the row as revealed as memory.                         *)
LEMMA RevealStep ==
    ASSUME ConstantsAssumption, TypeInv, TypeInv', RevealInv, [Next]_vars
    PROVE  RevealInv'
<1>0. TypeOK /\ TypeOK' /\ NodesReady
  BY DEF TypeInv
<1> USE <1>0, RevealTypes
<1>s. \A s : NoMore(s, s)
  BY DEF NoMore
<1>g. GateNone => mem' = NoSession
  BY DEF GateNone, GateMiss, GateFail
<1>1. CASE UNCHANGED <<mem, row, pc, loc>>
  BY <1>1 DEF RevealInv, Kept, Present
<1>2. CASE StudyTap
  BY <1>2, <1>s, RevealKept DEF StudyTap
<1>3. CASE StartGate
  <2>1. pc # "v_persist" /\ pc' # "v_persist"
    BY <1>3 DEF StartGate, Goto
  <2>2. (GateOpen /\ mem' = Gated /\ UNCHANGED row) \/ GateNone
    BY <1>3 DEF StartGate
  <2>3. QED
    BY <2>1, <2>2, <1>s, <1>g, RevealGated, RevealGone
<1>4. CASE Consume
  BY <1>4, <1>s, RevealKept DEF Consume, Return
<1>5. CASE BuildSession
  <2>1. pc # "v_persist" /\ pc' # "v_persist" /\ UNCHANGED row
    BY <1>5 DEF BuildSession, Goto
  <2>2. ~mem'.revealed \/ UNCHANGED mem
    BY <1>5 DEF BuildSession, NoSession
  <2>3. NoMore(mem', mem)
    BY <2>2 DEF NoMore
  <2>4. QED
    BY <2>1, <2>3, RevealKept
<1>6. CASE StartPersist
  <2>1. pc' # "v_persist" /\ (row'.state = mem' \/ mem' = NoSession)
    BY <1>6 DEF StartPersist, Goto, Persist
  <2>2. QED
    BY <2>1, RevealStored, RevealGone
<1>7. CASE SendFirst
  <2>1. pc # "v_persist" /\ pc' # "v_persist" /\ UNCHANGED row
    BY <1>7 DEF SendFirst, Goto
  <2>2. mem' = NoSession \/ \E m \in Msgs : mem' = [Drawn(mem) EXCEPT !.msg = m]
    BY <1>7 DEF SendFirst, FreshMsgs
  <2>3. CASE mem' = NoSession
    BY <2>1, <2>3, RevealGone
  <2>4. CASE \E m \in Msgs : mem' = [Drawn(mem) EXCEPT !.msg = m]
    <3>1. Drawn(mem) \in Session
      BY <1>7, DrawnType DEF SendFirst, NodesReady
    <3>2. NoMore(mem', Drawn(mem))
      BY <2>4, <3>1 DEF NoMore, Session
    <3>3. NoMore(mem', mem)
      BY <3>2, DrawnReveal DEF NoMore
    <3>4. QED
      BY <2>1, <3>3, RevealKept
  <2>5. QED
    BY <2>2, <2>3, <2>4
<1>8. CASE FirstPersist
  <2>1. pc # "v_persist" /\ pc' # "v_persist" /\ (row'.state = mem' \/ row' = row)
        /\ mem' = mem
    BY <1>8 DEF FirstPersist, Return, Persist
  <2>2. QED
    BY <2>1, <1>s, RevealStored, RevealKept
<1>9. CASE StartCleanup
  BY <1>9, RevealGone DEF StartCleanup, Goto
<1>10. CASE ReleaseSlot
  BY <1>10, <1>s, RevealKept DEF ReleaseSlot, Return
<1>11. CASE ResumeSend
  <2>1. pc # "v_persist" /\ pc' # "v_persist" /\ UNCHANGED row
    BY <1>11 DEF ResumeSend, Goto, Return
  <2>2. \/ UNCHANGED mem \/ mem' = Drawn(mem)
        \/ \E m \in Msgs : mem' = [Drawn(mem) EXCEPT !.msg = m]
    BY <1>11 DEF ResumeSend, FreshMsgs
  <2>3. Drawn(mem) \in Session
    BY <1>11, DrawnType DEF ResumeSend, NodesReady
  <2>4. mem' = mem \/ NoMore(mem', Drawn(mem))
    BY <2>2, <2>3 DEF NoMore, Session
  <2>5. NoMore(mem', mem)
    BY <2>4, DrawnReveal DEF NoMore
  <2>6. QED
    BY <2>1, <2>5, RevealKept
<1>12. CASE Advance
  <2>1. pc # "v_persist" /\ pc' # "v_persist"
    BY <1>12 DEF Advance, AdvanceToCard, Finish, Goto, Return
  <2>2. CASE GateNone
    BY <2>1, <2>2, <1>g, RevealGone
  <2>3. CASE GateOpen /\ (AdvanceToCard(Gated) \/ Finish(Gated)) /\ UNCHANGED row
    <3>1. Gated \in Session
      BY FromJsonType DEF Gated
    <3>2. PopNext(Gated) \in Session /\ ~PopNext(Gated).revealed
      BY <3>1, PopNextType, PopNextReveal
    <3>3. ~Drawn(PopNext(Gated)).revealed
      BY <3>2, DrawnReveal DEF NoMore
    <3>4. \/ mem' = Drawn(PopNext(Gated)) \/ mem' = PopNext(Gated)
          \/ mem' = Gated \/ mem' = NoSession
      BY <2>3 DEF AdvanceToCard, Finish
    <3>5. NoMore(mem', Gated)
      BY <3>2, <3>3, <3>4 DEF NoMore
    <3>6. QED
      BY <2>1, <2>3, <3>5, RevealGated
  <2>4. QED
    BY <1>12, <2>2, <2>3 DEF Advance
<1>13. CASE AdvancePersist
  <2>1. pc # "v_persist" /\ pc' # "v_persist" /\ (row'.state = mem' \/ row' = row)
        /\ mem' = mem
    BY <1>13 DEF AdvancePersist, Return, Persist
  <2>2. QED
    BY <2>1, <1>s, RevealStored, RevealKept
<1>14. CASE FinishClear
  BY <1>14, <1>s, RevealKept DEF FinishClear, Return
<1>15. ASSUME NEW m \in Msgs, GradeTap(m) PROVE RevealInv'
  <2>1. pc # "v_persist" /\ pc' # "v_persist"
    BY <1>15 DEF GradeTap, Return
  <2>2. mem' = NoSession \/ UNCHANGED <<mem, row>>
    BY <1>15 DEF GradeTap
  <2>3. QED
    BY <2>1, <2>2, <1>s, RevealGone, RevealKept
<1>16. CASE GradeCheck
  <2>1. pc # "v_persist" /\ pc' # "v_persist"
    BY <1>16 DEF GradeCheck, Duplicate, Goto, Return
  <2>2. \/ GateMiss \/ GateFail
        \/ /\ GateOpen /\ row' = row
           /\ \/ mem' = Gated
              \/ \E g : mem' = [Gated EXCEPT !.graded = g]
    BY <1>16 DEF GradeCheck, Duplicate
  <2>3. Gated \in Session
    BY FromJsonType DEF Gated
  <2>4. \A g : NoMore([Gated EXCEPT !.graded = g], Gated)
    BY <2>3 DEF NoMore, Session
  <2>5. QED
    BY <2>1, <2>2, <2>4, <1>s, RevealGated, RevealGone DEF GateMiss, GateFail
<1>17. CASE GradeTxn
  BY <1>17, <1>s, RevealKept DEF GradeTxn, Goto, Return
<1>18. CASE GradePersist
  <2>1. pc # "v_persist" /\ pc' # "v_persist" /\ (row'.state = mem' \/ row' = row)
    BY <1>18 DEF GradePersist, Goto, Return, Persist
  <2>2. NoMore(mem', mem)
    BY <1>18 DEF GradePersist, NoMore, Session
  <2>3. QED
    BY <2>1, <2>2, RevealStored, RevealKept
<1>19. ASSUME NEW m \in Msgs, RevealTap(m) PROVE RevealInv'
  <2>1. pc # "v_persist"
    BY <1>19 DEF RevealTap
  <2>2. Gated \in Session
    BY FromJsonType DEF Gated
  <2>3. CASE GateNone /\ Return
    BY <2>3, <1>g, RevealGone DEF Return
  <2>4. CASE GateOpen /\ mem' = Gated /\ Return /\ UNCHANGED row
    BY <2>1, <2>4, <1>s, RevealGated DEF Return
  <2>5. CASE /\ GateOpen /\ UNCHANGED row /\ pc' = "v_persist"
             /\ mem' = [Gated EXCEPT !.revealed = TRUE, !.frozen = chat[m].node.w]
             /\ loc' = [NoLocal EXCEPT !.node = Head(Gated.nodes),
                                       !.revealed = Gated.revealed,
                                       !.frozen = Gated.frozen]
    <3>1. Kept(Gated.prompt, Gated.revealed, Gated.frozen)
      BY <2>1, <2>5, GateReveal
    <3>2. mem'.prompt = Gated.prompt
      BY <2>2, <2>5 DEF Session
    <3>3. loc'.revealed = Gated.revealed /\ loc'.frozen = Gated.frozen
      BY <2>5 DEF NoLocal
    <3>4. QED
      BY <2>5, <3>1, <3>2, <3>3 DEF RevealInv, Kept, Present
  <2>6. QED
    BY <1>19, <2>3, <2>4, <2>5 DEF RevealTap
<1>20. CASE RevealPersist
  <2>1. pc = "v_persist" /\ pc' # "v_persist"
    BY <1>20 DEF RevealPersist, Return
  <2>2. CASE row'.state = mem'
    BY <2>1, <2>2, RevealStored
  <2>3. CASE /\ row' = row
             /\ mem' = [mem EXCEPT !.revealed = loc.revealed, !.frozen = loc.frozen]
    <3>1. /\ mem'.prompt = mem.prompt
          /\ mem'.revealed = loc.revealed /\ mem'.frozen = loc.frozen
      BY <2>3 DEF Session
    <3>2. QED
      BY <2>1, <2>3, <3>1 DEF RevealInv, Kept, Present
  <2>4. QED
    BY <1>20, <2>2, <2>3 DEF RevealPersist, Persist
<1>21. ASSUME NEW m \in Msgs, DeleteTap(m) \/ DeleteNo(m) PROVE RevealInv'
  <2>1. pc # "v_persist" /\ pc' # "v_persist"
    BY <1>21 DEF DeleteTap, DeleteNo, SwapButtons
  <2>2. GateNone \/ (GateOpen /\ mem' = Gated /\ UNCHANGED row)
    BY <1>21 DEF DeleteTap, DeleteNo, SwapButtons
  <2>3. QED
    BY <2>1, <2>2, <1>s, <1>g, RevealGated, RevealGone
<1>22. ASSUME NEW m \in Msgs, DeleteYes(m) PROVE RevealInv'
  <2>1. pc # "v_persist" /\ pc' # "v_persist"
    BY <1>22 DEF DeleteYes, Goto, Return
  <2>2. GateNone \/ (GateOpen /\ mem' = Gated /\ UNCHANGED row)
    BY <1>22 DEF DeleteYes
  <2>3. QED
    BY <2>1, <2>2, <1>s, <1>g, RevealGated, RevealGone
<1>23. CASE DeletePersist
  <2>1. pc # "v_persist" /\ pc' # "v_persist" /\ (row'.state = mem' \/ row' = row)
    BY <1>23 DEF DeletePersist, Goto, Return, Persist
  <2>2. NoMore(mem', mem)
    BY <1>23, <1>s, RefilledReveal DEF DeletePersist
  <2>3. QED
    BY <2>1, <2>2, RevealStored, RevealKept
<1>24. CASE PurgeSessions
  <2>1. (row' = row \/ ~Present(row')) /\ UNCHANGED <<mem, pc, loc>>
    BY <1>24 DEF PurgeSessions
  <2>2. QED
    BY <2>1 DEF RevealInv, Kept, Present
<1>25. CASE Crash
  BY <1>25, RevealGone DEF Crash, Return
<1>26. CASE Midnight \/ PurgeSlots \/ \E w \in Words : ComesDue(w) \/ Unsave(w)
  BY <1>1, <1>26 DEF Midnight, PurgeSlots, ComesDue, Unsave
<1> QED
  BY <1>1, <1>2, <1>3, <1>4, <1>5, <1>6, <1>7, <1>8, <1>9, <1>10, <1>11, <1>12,
     <1>13, <1>14, <1>15, <1>16, <1>17, <1>18, <1>19, <1>20, <1>21, <1>22,
     <1>23, <1>24, <1>25, <1>26
     DEF Next, HandlerStep, Tap, Environment, vars

(* A reveal that memory would redraw is one the row would redraw too, so a *)
(* restart never turns a seen card back to its front                       *)
(* (_handle_srs_reveal commits to memory only after the row has it).       *)
THEOREM RevealIsSafe == Spec => []RevealIsDurable
<1>1. Init => RevealInv
  BY DEF Init, RevealInv, Kept, NoSession
<1>2. TypeInv /\ TypeInv' /\ RevealInv /\ [Next]_vars => RevealInv'
  BY RevealStep, ConstantsAssumption
<1>3. TypeInv /\ RevealInv => RevealIsDurable
  <2> SUFFICES ASSUME TypeInv, RevealInv, GateOpen, Present(mem), pc # "v_persist",
                      mem.nodes # <<>>, Frozen(mem), mem.revealed,
                      row.date = day, row.state.nodes = mem.nodes
               PROVE  /\ Frozen(FromJson(row.state))
                      /\ FromJson(row.state).revealed
    BY DEF RevealIsDurable
  <2>1. mem \in Session /\ row.state \in Session /\ day \in Days
    BY RevealTypes DEF TypeInv, TypeOK
  <2>2. /\ mem.prompt /\ mem.frozen = Head(mem.nodes).w
        /\ Head(mem.nodes).w \in Words
    BY <2>1, HeadType DEF Frozen
  <2>3. Present(row)
    BY <2>1, ConstantsAssumption DEF Present, Days, NoDay, ConstantsAssumption
  <2>4. row.state.prompt /\ row.state.revealed /\ row.state.frozen = mem.frozen
    BY <2>2, <2>3 DEF RevealInv, Kept
  <2>5. /\ FromJson(row.state).prompt /\ FromJson(row.state).frozen = mem.frozen
        /\ FromJson(row.state).nodes = mem.nodes
        /\ FromJson(row.state).revealed
    BY <2>1, <2>2, <2>4, ConstantsAssumption DEF FromJson, Session, ConstantsAssumption
  <2> QED
    BY <2>2, <2>5 DEF Frozen
<1> QED
  BY <1>1, <1>2, <1>3, TypeInvariant, PTL DEF Spec

---------------------------------------------------------------------------
(* The visible card.  While no database call fails, no Telegram call takes *)
(* effect and is reported failed, and the process does not die, memory is  *)
(* never lost before the row: so the gate never restores a row, every card *)
(* edited into the session's message is the head memory keeps, and a lost  *)
(* or refused edit leaves both as they were.                               *)

CleanFaults == FaultKinds \subseteq {"lost", "refused"}

Clearing == pc \in {"s_clear", "a_clear"}

OffersHead == \/ mem.msg = NoMsg
              \/ chat[mem.msg].kind = "none"
              \/ mem.nodes # <<>> /\ chat[mem.msg].node = Head(mem.nodes)

VisibleInv == /\ Present(row) => Present(mem) \/ Clearing
              /\ OffersHead

(* Only clean failures happen then.                                        *)
LEMMA OnlyCleanFaults ==
    ASSUME CleanFaults
    PROVE  ~Fault("db") /\ ~Fault("late") /\ ~Fault("crash")
  BY DEF CleanFaults, Fault

(* A step that leaves the card and the chat alone keeps the invariant.     *)
LEMMA VisibleKept ==
    ASSUME VisibleInv, chat' = chat,
           mem'.msg = mem.msg, mem'.nodes = mem.nodes, mem'.date = mem.date,
           \/ row' = row /\ (~Clearing \/ pc' = pc)
           \/ row'.date = mem'.date
           \/ ~Present(row)'
    PROVE  VisibleInv'
  BY DEF VisibleInv, OffersHead, Present, Clearing

(* A step that empties memory keeps it when the row goes too, or is next.  *)
LEMMA VisibleEmptied ==
    ASSUME mem' = NoSession, ~Present(row)' \/ Clearing'
    PROVE  VisibleInv'
  BY DEF VisibleInv, OffersHead, NoSession

(* A step that shows the head of the session it keeps keeps it.            *)
LEMMA VisibleDrawn ==
    ASSUME VisibleInv, ~Clearing, row' = row, mem'.date = mem.date,
           mem'.nodes # <<>>,
           chat'[mem'.msg].node = Head(mem'.nodes)
    PROVE  VisibleInv'
  BY DEF VisibleInv, OffersHead, Present

(* The gate then hands out memory, or leaves neither memory nor row.       *)
LEMMA GateVisible ==
    ASSUME ConstantsAssumption, CleanFaults, TypeOK, VisibleInv, ~Clearing
    PROVE  /\ GateOpen => Gated = mem /\ mem.date = day
           /\ GateMiss => mem' = NoSession /\ ~Present(row)'
           /\ GateNone => mem' = NoSession /\ ~Present(row)'
           /\ ~GateFail
<1>1. ~GateFail
  BY OnlyCleanFaults DEF GateFail
<1>2. GateMiss => mem' = NoSession /\ ~Present(row)'
  <2>1. ~Present(NoRow)
    BY DEF Present, NoRow
  <2> QED
    BY <2>1 DEF GateMiss, Invalidate, Present
<1>3. ASSUME GateOpen PROVE Present(mem)
  <2> SUFFICES ASSUME ~Present(mem) PROVE FALSE
    OBVIOUS
  <2>1. row.date = day /\ row.state.date = day /\ row.state.nodes # <<>>
    BY <1>3 DEF GateOpen, RowUsable
  <2>2. ~Present(row)
    BY DEF VisibleInv
  <2> QED
    BY <2>1, <2>2, StampTypes DEF Present
<1> QED
  BY <1>1, <1>2, <1>3 DEF GateNone, GateOpen, Gated

(* Appending a card to a session that has one leaves its head.             *)
LEMMA RefilledHead ==
    ASSUME TypeOK, mem' \in Refilled(mem)
    PROVE  /\ mem'.msg = mem.msg /\ mem'.date = mem.date
           /\ mem.nodes # <<>> => /\ mem'.nodes # <<>>
                                  /\ Head(mem'.nodes) = Head(mem.nodes)
<1>1. mem \in Session /\ mem.nodes \in Seq(Node)
  BY HeadType DEF TypeOK
<1>2. CASE mem' = mem
  BY <1>2
<1>3. CASE \E w \in RefillWords(mem) :
              mem' = [mem EXCEPT !.nodes = Append(@, TierNode(w))]
  <2>1. PICK w \in RefillWords(mem) :
                mem' = [mem EXCEPT !.nodes = Append(@, TierNode(w))]
    BY <1>3
  <2>2. w \in Words /\ TierNode(w) \in Node
    BY <2>1 DEF RefillWords, Due, Pre, TierNode, Node, Activities
  <2>3. /\ mem'.msg = mem.msg /\ mem'.date = mem.date
        /\ mem'.nodes = Append(mem.nodes, TierNode(w))
    BY <1>1, <2>1 DEF Session
  <2>4. ASSUME mem.nodes # <<>>
        PROVE  /\ Append(mem.nodes, TierNode(w)) # <<>>
               /\ Head(Append(mem.nodes, TierNode(w))) = Head(mem.nodes)
    BY <1>1, <2>2, <2>4
  <2> QED
    BY <2>3, <2>4
<1> QED
  BY <1>2, <1>3 DEF Refilled

(* Every step keeps the invariant.                                         *)
LEMMA VisibleStep ==
    ASSUME ConstantsAssumption, CleanFaults, TypeInv, TypeInv', StampInv,
           VisibleInv, [Next]_vars
    PROVE  VisibleInv'
<1>0. TypeOK /\ TypeOK' /\ NodesReady /\ mem \in Session /\ mem' \in Session
  BY DEF TypeInv, TypeOK
<1>c. ~Fault("db") /\ ~Fault("late") /\ ~Fault("crash")
  BY OnlyCleanFaults
<1>r. ~Present(NoRow)
  BY DEF Present, NoRow
<1>g. ASSUME ~Clearing
      PROVE  /\ GateOpen => Gated = mem /\ mem.date = day
             /\ GateMiss => mem' = NoSession /\ ~Present(row)'
             /\ GateNone => mem' = NoSession /\ ~Present(row)'
             /\ ~GateFail
  BY <1>0, <1>g, GateVisible
<1>n. ASSUME ~Clearing, GateNone PROVE VisibleInv'
  BY <1>g, <1>n, VisibleEmptied
<1>1. CASE UNCHANGED <<mem, row, chat, pc>>
  BY <1>1, VisibleKept
<1>2. CASE StudyTap
  BY <1>2, VisibleKept DEF StudyTap, Clearing
<1>3. CASE StartGate
  <2>1. ~Clearing
    BY <1>3 DEF StartGate, Clearing
  <2>2. GateNone \/ (GateOpen /\ mem' = Gated /\ UNCHANGED <<row, chat>>)
    BY <1>3 DEF StartGate
  <2> QED
    BY <2>1, <2>2, <1>g, <1>n, VisibleKept
<1>4. CASE Consume
  BY <1>4, VisibleKept DEF Consume, Clearing
<1>5. CASE BuildSession
  <2>1. ~Clearing /\ UNCHANGED <<row, chat>>
    BY <1>5 DEF BuildSession, Clearing
  <2>2. \/ mem'.date = loc.today /\ mem'.msg = NoMsg
        \/ mem' = mem
        \/ mem' = NoSession /\ Clearing'
    BY <1>5 DEF BuildSession, NoSession, Goto, Clearing
  <2>3. loc.today # NoDay
    BY <1>0, StampTypes
  <2>4. CASE mem'.date = loc.today /\ mem'.msg = NoMsg
    BY <2>3, <2>4 DEF VisibleInv, OffersHead, Present
  <2> QED
    BY <2>1, <2>2, <2>4, VisibleKept, VisibleEmptied
<1>6. CASE StartPersist
  <2>1. mem' = mem /\ row'.date = loc.today /\ chat' = chat
    BY <1>6, <1>c DEF StartPersist, Persist
  <2>2. mem.date = loc.today
    BY <1>6 DEF StartPersist, StampInv
  <2> QED
    BY <2>1, <2>2, VisibleKept
<1>7. CASE SendFirst
  <2>1. ~Clearing /\ UNCHANGED row /\ mem.nodes # <<>>
    BY <1>0, <1>7 DEF SendFirst, Clearing, NodesReady
  <2>2. CASE mem' = NoSession /\ pc' = "s_clear"
    BY <2>2, VisibleEmptied DEF Clearing
  <2>3. ASSUME NEW m \in FreshMsgs,
               mem' = [Drawn(mem) EXCEPT !.msg = m],
               chat' = [chat EXCEPT ![m] = DrawnCard(mem)]
        PROVE  VisibleInv'
    <3>1. m \in Msgs
      BY DEF FreshMsgs
    <3>2. /\ mem'.msg = m /\ mem'.nodes = mem.nodes /\ mem'.date = mem.date
      BY <1>0, <2>1, <2>3, DrawnType DEF Session
    <3>3. chat'[m] = DrawnCard(mem)
      BY <1>0, <2>3, <3>1 DEF TypeOK
    <3>4. chat'[m].node = Head(mem.nodes)
      BY <3>3 DEF DrawnCard, CardView
    <3> QED
      BY <2>1, <3>2, <3>4, VisibleDrawn
  <2> QED
    BY <1>7, <2>2, <2>3 DEF SendFirst, Goto
<1>8. CASE FirstPersist
  BY <1>8, <1>c, VisibleKept DEF FirstPersist, Persist
<1>9. CASE StartCleanup
  BY <1>9, <1>c, <1>r, VisibleEmptied DEF StartCleanup
<1>10. CASE ReleaseSlot
  BY <1>10, VisibleKept DEF ReleaseSlot, Clearing
<1>11. CASE ResumeSend
  <2>1. ~Clearing /\ UNCHANGED row /\ mem.nodes # <<>>
    BY <1>0, <1>11 DEF ResumeSend, Clearing, NodesReady
  <2>2. CASE UNCHANGED <<mem, chat>>
    BY <2>1, <2>2, VisibleKept
  <2>3. ASSUME NEW m \in FreshMsgs, NEW off \in BOOLEAN,
               NEW prev,
               prev = IF off /\ mem.msg # NoMsg
                        THEN [chat EXCEPT ![mem.msg] = Blank] ELSE chat,
               \/ /\ chat' = [prev EXCEPT ![m] = DrawnCard(mem)]
                  /\ mem' = [Drawn(mem) EXCEPT !.msg = m]
               \/ chat' = prev /\ mem' = Drawn(mem)
        PROVE  VisibleInv'
    <3>1. m \in Msgs
      BY DEF FreshMsgs
    <3>2. prev \in [Msgs -> Content]
      BY <1>0, <2>3, ConstantTypes DEF TypeOK
    <3>3. /\ Drawn(mem) \in Session
          /\ Drawn(mem).nodes = mem.nodes /\ Drawn(mem).date = mem.date
          /\ Drawn(mem).msg = mem.msg
      <4>1. Drawn(mem).msg = mem.msg
        BY <1>0 DEF Drawn, Session
      <4> QED
        BY <1>0, <2>1, <4>1, DrawnType
    <3>4. CASE /\ chat' = [prev EXCEPT ![m] = DrawnCard(mem)]
               /\ mem' = [Drawn(mem) EXCEPT !.msg = m]
      <4>1. /\ mem'.msg = m /\ mem'.nodes = mem.nodes /\ mem'.date = mem.date
        BY <3>3, <3>4 DEF Session
      <4>2. chat'[m] = DrawnCard(mem)
        BY <3>1, <3>2, <3>4
      <4>3. chat'[m].node = Head(mem.nodes)
        BY <4>2 DEF DrawnCard, CardView
      <4> QED
        BY <2>1, <4>1, <4>3, VisibleDrawn
    <3>5. CASE chat' = prev /\ mem' = Drawn(mem)
      <4>1. CASE prev = chat
        BY <2>1, <3>3, <3>5, <4>1, VisibleKept
      <4>2. CASE mem.msg # NoMsg /\ prev = [chat EXCEPT ![mem.msg] = Blank]
        <5>1. mem.msg \in Msgs
          BY <1>0, <4>2 DEF Session
        <5>2. chat'[mem'.msg].kind = "none"
          BY <1>0, <3>3, <3>5, <4>2, <5>1 DEF TypeOK, Blank
        <5> QED
          BY <2>1, <3>3, <3>5, <5>2 DEF VisibleInv, OffersHead, Present
      <4> QED
        BY <2>3, <4>1, <4>2
    <3> QED
      BY <2>3, <3>4, <3>5
  <2>4. \/ UNCHANGED <<mem, chat>>
        \/ \E m \in FreshMsgs, off \in BOOLEAN :
             LET prev == IF off /\ mem.msg # NoMsg
                           THEN [chat EXCEPT ![mem.msg] = Blank] ELSE chat
             IN \/ /\ chat' = [prev EXCEPT ![m] = DrawnCard(mem)]
                   /\ mem' = [Drawn(mem) EXCEPT !.msg = m]
                \/ chat' = prev /\ mem' = Drawn(mem)
    BY <1>11, <1>c DEF ResumeSend
  <2> QED
    BY <2>2, <2>3, <2>4
<1>12. CASE Advance
  <2>1. ~Clearing
    BY <1>12 DEF Advance, Clearing
  <2>2. ASSUME GateOpen, AdvanceToCard(mem), UNCHANGED row PROVE VisibleInv'
    <3> DEFINE next == PopNext(mem)
    <3>1. /\ next \in Session /\ next.date = mem.date /\ next.msg = mem.msg
          /\ next.nodes # <<>>
      <4>1. next.msg = mem.msg
        BY <1>0 DEF PopNext, Session
      <4> QED
        BY <1>0, <2>2, <4>1, PopNextType DEF AdvanceToCard
    <3>2. CASE EditDone(mem.msg, DrawnCard(next)) /\ mem' = Drawn(next)
      <4>1. /\ mem'.nodes = next.nodes /\ mem'.date = mem.date
            /\ mem'.msg = mem.msg
        <5>1. Drawn(next).msg = next.msg
          BY <3>1 DEF Drawn, Session
        <5> QED
          BY <3>1, <3>2, <5>1, DrawnType
      <4>2. mem.msg \in Msgs
        BY <1>0, <3>2 DEF EditDone, Session
      <4>3. chat'[mem.msg] = DrawnCard(next)
        BY <1>0, <3>2, <4>2 DEF EditDone, TypeOK
      <4>4. chat'[mem.msg].node = Head(next.nodes)
        BY <4>3 DEF DrawnCard, CardView
      <4> HIDE DEF next
      <4> QED
        BY <2>1, <2>2, <3>1, <4>1, <4>4, VisibleDrawn
    <3>3. CASE mem' = mem /\ chat' = chat
      BY <2>1, <2>2, <3>3, VisibleKept
    <3> QED
      BY <2>2, <3>2, <3>3, <1>c DEF AdvanceToCard, EditFails, EditRefused
  <2>3. ASSUME GateOpen, Finish(mem), UNCHANGED row PROVE VisibleInv'
    <3>1. \/ mem' = NoSession /\ pc' = "a_clear"
          \/ mem' = mem /\ chat' = chat
      BY <2>3, <1>c DEF Finish, EditFails, Goto
    <3> QED
      BY <2>1, <2>3, <3>1, VisibleKept, VisibleEmptied DEF Clearing
  <2>4. \/ GateNone
        \/ GateOpen /\ (AdvanceToCard(Gated) \/ Finish(Gated)) /\ UNCHANGED row
    BY <1>12 DEF Advance
  <2> QED
    BY <2>1, <2>2, <2>3, <2>4, <1>g, <1>n
<1>13. CASE AdvancePersist
  <2>1. mem' = mem /\ row'.date = loc.today /\ chat' = chat
    BY <1>13, <1>c DEF AdvancePersist, Persist
  <2>2. mem.date = loc.today
    BY <1>13 DEF AdvancePersist, StampInv
  <2> QED
    BY <2>1, <2>2, VisibleKept
<1>14. CASE FinishClear
  BY <1>14, <1>c, <1>r, VisibleKept DEF FinishClear
<1>15. ASSUME NEW m \in Msgs, GradeTap(m) PROVE VisibleInv'
  <2>1. ~Clearing
    BY <1>15 DEF GradeTap, Clearing
  <2>2. \/ mem' = NoSession /\ row' = NoRow
        \/ UNCHANGED <<mem, row, chat>>
    BY <1>15, <1>c DEF GradeTap, Invalidate
  <2> QED
    BY <2>1, <2>2, <1>r, VisibleKept, VisibleEmptied
<1>16. CASE GradeCheck
  <2>1. ~Clearing /\ chat' = chat
    BY <1>16 DEF GradeCheck, Clearing
  <2>2. \/ GateMiss \/ GateFail
        \/ /\ GateOpen /\ row' = row
           /\ \/ mem' = Gated
              \/ \E g : mem' = [Gated EXCEPT !.graded = g]
    BY <1>16 DEF GradeCheck, Duplicate
  <2>3. CASE GateMiss
    BY <2>1, <2>3, <1>n DEF GateNone
  <2>4. CASE GateOpen /\ row' = row
             /\ (mem' = Gated \/ \E g : mem' = [Gated EXCEPT !.graded = g])
    <3>1. mem' = mem \/ \E g : mem' = [mem EXCEPT !.graded = g]
      BY <2>1, <2>4, <1>g
    <3>2. mem'.msg = mem.msg /\ mem'.nodes = mem.nodes /\ mem'.date = mem.date
      BY <1>0, <3>1 DEF Session
    <3> QED
      BY <2>1, <2>4, <3>2, VisibleKept
  <2> QED
    BY <2>1, <2>2, <2>3, <2>4, <1>g
<1>17. CASE GradeTxn
  BY <1>17, VisibleKept DEF GradeTxn, Clearing
<1>18. CASE GradePersist
  <2>1. ~Clearing /\ chat' = chat
    BY <1>18 DEF GradePersist, Clearing, hist
  <2>2. mem'.msg = mem.msg /\ mem'.nodes = mem.nodes /\ mem'.date = mem.date
    BY <1>0, <1>18 DEF GradePersist, Session
  <2>3. row' = row \/ row'.date = mem.date
    BY <1>18 DEF GradePersist, Persist
  <2> QED
    BY <2>1, <2>2, <2>3, VisibleKept
<1>19. ASSUME NEW m \in Msgs, RevealTap(m) PROVE VisibleInv'
  <2>1. ~Clearing
    BY <1>19 DEF RevealTap, Clearing
  <2>2. CASE GateNone
    BY <2>1, <2>2, <1>n
  <2>3. CASE GateOpen /\ row' = row /\ mem' = Gated /\ chat' = chat
    BY <2>1, <2>3, <1>g, VisibleKept
  <2>4. CASE /\ GateOpen /\ row' = row /\ Gated.nodes # <<>>
             /\ EditDone(Gated.msg, CardView(Head(Gated.nodes), "back"))
             /\ mem' = [Gated EXCEPT !.revealed = TRUE,
                                     !.frozen = chat[m].node.w]
    <3>1. Gated = mem
      BY <2>1, <2>4, <1>g
    <3>2. mem'.msg = mem.msg /\ mem'.nodes = mem.nodes /\ mem'.date = mem.date
      BY <1>0, <2>4, <3>1 DEF Session
    <3>3. mem.msg \in Msgs
      BY <1>0, <2>4, <3>1 DEF EditDone, Session
    <3>4. chat'[mem.msg] = CardView(Head(mem.nodes), "back")
      BY <1>0, <2>4, <3>1, <3>3 DEF EditDone, TypeOK
    <3>5. chat'[mem.msg].node = Head(mem.nodes)
      BY <3>4 DEF CardView
    <3> QED
      BY <2>1, <2>4, <3>1, <3>2, <3>5, VisibleDrawn
  <2> QED
    BY <1>19, <1>c, <2>2, <2>3, <2>4
       DEF RevealTap, Revealable, EditFails, EditRefused
<1>20. CASE RevealPersist
  BY <1>20, <1>c, VisibleKept DEF RevealPersist, Persist
<1>21. ASSUME NEW m \in Msgs, DeleteTap(m) \/ DeleteNo(m) PROVE VisibleInv'
  <2>1. ~Clearing
    BY <1>21 DEF DeleteTap, DeleteNo, SwapButtons, Clearing
  <2>2. CASE GateNone
    BY <2>1, <2>2, <1>n
  <2>3. CASE GateOpen /\ row' = row /\ mem' = Gated /\ chat' = chat
    BY <2>1, <2>3, <1>g, VisibleKept
  <2>4. ASSUME NEW k \in {"back", "confirm"}, GateOpen, row' = row,
               mem' = Gated, Gated.nodes # <<>>,
               EditDone(Gated.msg, CardView(Head(Gated.nodes), k))
        PROVE  VisibleInv'
    <3>1. Gated = mem
      BY <2>1, <2>4, <1>g
    <3>2. mem.msg \in Msgs
      BY <1>0, <2>4, <3>1 DEF EditDone, Session
    <3>3. chat'[mem.msg] = CardView(Head(mem.nodes), k)
      BY <1>0, <2>4, <3>1, <3>2 DEF EditDone, TypeOK
    <3>4. chat'[mem.msg].node = Head(mem.nodes)
      BY <3>3 DEF CardView
    <3> QED
      BY <2>1, <2>4, <3>1, <3>4, VisibleDrawn
  <2> QED
    BY <1>21, <1>c, <2>2, <2>3, <2>4
       DEF DeleteTap, DeleteNo, SwapButtons, Deletable, EditFails, EditRefused
<1>22. ASSUME NEW m \in Msgs, DeleteYes(m) PROVE VisibleInv'
  <2>1. ~Clearing
    BY <1>22 DEF DeleteYes, Clearing
  <2>2. \/ GateNone
        \/ GateOpen /\ row' = row /\ mem' = Gated /\ chat' = chat
    BY <1>22 DEF DeleteYes
  <2> QED
    BY <2>1, <2>2, <1>g, <1>n, VisibleKept
<1>23. CASE DeletePersist
  <2>1. ~Clearing /\ chat' = chat /\ mem' \in Refilled(mem)
        /\ (row' = row \/ row'.date = mem.date)
    BY <1>23, <1>c DEF DeletePersist, Clearing, Persist, hist
  <2>2. /\ mem'.msg = mem.msg /\ mem'.date = mem.date
        /\ mem.nodes # <<>> => /\ mem'.nodes # <<>>
                               /\ Head(mem'.nodes) = Head(mem.nodes)
    BY <1>0, <2>1, RefilledHead
  <2>3. OffersHead'
    BY <2>1, <2>2 DEF VisibleInv, OffersHead
  <2>4. Present(row)' => Present(mem)'
    BY <2>1, <2>2 DEF VisibleInv, Present
  <2> QED
    BY <2>3, <2>4 DEF VisibleInv
<1>24. CASE PurgeSessions
  <2>1. UNCHANGED <<mem, chat, pc>> /\ (row' = row \/ row' = NoRow)
    BY <1>24 DEF PurgeSessions
  <2> QED
    BY <2>1, <1>r, VisibleKept
<1>25. CASE Crash
  BY <1>25, <1>c DEF Crash
<1>26. CASE Midnight \/ PurgeSlots \/ \E w \in Words : ComesDue(w) \/ Unsave(w)
  BY <1>1, <1>26 DEF Midnight, PurgeSlots, ComesDue, Unsave
<1> QED
  BY <1>1, <1>2, <1>3, <1>4, <1>5, <1>6, <1>7, <1>8, <1>9, <1>10, <1>11, <1>12,
     <1>13, <1>14, <1>15, <1>16, <1>17, <1>18, <1>19, <1>20, <1>21, <1>22,
     <1>23, <1>24, <1>25, <1>26
     DEF Next, HandlerStep, Tap, Environment, vars

(* While Telegram calls fail cleanly, the message of today's session       *)
(* offers, between two taps, the card the session would act on, or         *)
(* nothing: advance_session, a resume, a reveal and the delete             *)
(* confirmation all move the message and the head card together.  A failed *)
(* build of the next card breaks it (the study_visible_card run), and so   *)
(* may an edit that takes effect and is reported failed.                   *)
THEOREM VisibleCardIsSafe ==
    ASSUME CleanFaults
    PROVE  Spec => []VisibleCardIsActive
<1>1. Init => VisibleInv
  BY DEF Init, VisibleInv, OffersHead, NoRow, NoSession, Present
<1>2. TypeInv /\ TypeInv' /\ StampInv /\ VisibleInv /\ [Next]_vars
         => VisibleInv'
  BY VisibleStep, ConstantsAssumption
<1>3. VisibleInv => VisibleCardIsActive
  BY DEF VisibleInv, OffersHead, VisibleCardIsActive
<1> QED
  BY <1>1, <1>2, <1>3, TypeInvariant, StampInvariant, PTL DEF Spec
============================================================================
