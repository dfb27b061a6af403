--------------------------- MODULE StudySession ---------------------------
(***************************************************************************)
(* One learner's study session in HamZaboonRobot: starting it, showing and *)
(* revealing cards, grading, deleting a card, advancing and finishing      *)
(* (handlers/study_handler.py, handlers/srs_handler.py), over the session  *)
(* kept in memory (context.user_data), the persisted study_sessions row,   *)
(* the session_grade_ledger and the daily slot counter of the database.    *)
(*                                                                         *)
(* Telegram updates are handled one at a time, so one handler runs at any  *)
(* moment; pc says where it is.  A step ends where the code awaits a       *)
(* database or Telegram call whose effect outlives the step.  Between two  *)
(* steps midnight may pass, the nightly purge may run, a card may come     *)
(* due, or the process may crash and lose everything kept in memory.       *)
(***************************************************************************)
EXTENDS Integers, Sequences, FiniteSets

CONSTANTS
    Words,           \* saved_words ids of the learner
    NoWord,          \* no word (a None active_prompt_word_id)
    MaxDay,          \* bound: app-days 0..MaxDay
    SlotLimit,       \* max_sessions of the learner's plan
    CardsPerSession, \* cards_per_session of the learner's plan
    Msgs,            \* Telegram messages of the chat that are told apart
    NoMsg,           \* no message (a None study_msg_id)
    Staged,          \* activities whose card mode is "staged"
    FaultKinds,      \* failures that may happen
    MaxFaults        \* bound: how many of them

(* A database call raises; a Telegram call fails without or with effect;   *)
(* Telegram refuses the call for good; the process dies.                   *)
AllFaultKinds == {"db", "lost", "late", "refused", "crash"}

ASSUME ConstantsAssumption ==
    /\ IsFiniteSet(Words)
    /\ NoWord \notin Words
    /\ MaxDay \in Nat
    /\ SlotLimit \in Nat
    /\ CardsPerSession \in Nat \ {0}
    /\ NoMsg \notin Msgs
    /\ FaultKinds \subseteq AllFaultKinds
    /\ MaxFaults \in Nat

Activities == {"srs_review", "first_exposure"}

ASSUME StagedAssumption == Staged \subseteq Activities

Node   == [w : Words, a : Activities]
NoNode == [w |-> NoWord, a |-> "none"]
Days   == 0..MaxDay
NoDay  == -1

(* SessionState.  frozen is active_prompt_word_id and prompt tells whether *)
(* active_prompt_type is set.  A session that is absent (None) has no date.*)
Session == [nodes : Seq(Node), total : Nat, graded : SUBSET Words,
            msg : Msgs \cup {NoMsg}, revealed : BOOLEAN, prompt : BOOLEAN,
            frozen : Words \cup {NoWord}, date : Days \cup {NoDay}]
NoSession == [nodes |-> <<>>, total |-> 0, graded |-> {}, msg |-> NoMsg,
              revealed |-> FALSE, prompt |-> FALSE, frozen |-> NoWord,
              date |-> NoDay]

(* The study_sessions row: its date column and the session in state_json.  *)
Row   == [date : Days \cup {NoDay}, state : Session]
NoRow == [date |-> NoDay, state |-> NoSession]

Present(s) == s.date # NoDay

(* What a chat message offers: the front of a card with its reveal button, *)
(* the back with the grade and delete buttons, the delete confirmation, or *)
(* nothing to a study handler (no message, the "not active" button, the    *)
(* report).                                                                *)
Kinds   == {"none", "front", "back", "confirm"}
Blank   == [kind |-> "none", node |-> NoNode]
Content == [kind : Kinds \ {"none"}, node : Node] \cup {Blank}
CardView(n, k) == [kind |-> k, node |-> n]

(* The stages of a word in saved_words: not yet exposed, scheduled in the  *)
(* future, due, or deleted.                                                *)
Stages == {"pre", "sched", "due", "gone"}

PCs == {"idle",
        "s_gate", "s_consume", "s_build", "s_persist", "s_send",
        "s_sent", "s_clear", "s_release",
        "r_send", "r_persist",
        "g_check", "g_txn", "g_persist",
        "adv", "a_persist", "a_clear",
        "v_persist", "d_persist"}

VARIABLES
    day,       \* the app-day
    words,     \* saved_words: the stage of each word
    mem,       \* context.user_data["current_session"]
    peeked,    \* context.user_data["revealed_<word>"] flags
    row,       \* study_sessions
    ledger,    \* session_grade_ledger: the day of each graded (word, activity)
    used,      \* settings sessions_used_<user>_<day>
    chat,      \* the learner's chat, as Telegram shows it
    pc,        \* the step the running handler has reached
    loc,       \* its local variables
    faults,    \* failures so far
    delivered, \* history: sessions delivered on a slot of each day
    grades,    \* history: transitions of each card since the last build
    reports    \* history: reports stored since the last build

vars == <<day, words, mem, peeked, row, ledger, used, chat, pc, loc, faults,
          delivered, grades, reports>>
hist == <<delivered, grades, reports>>

Local == [node : Node \cup {NoNode}, msg : Msgs \cup {NoMsg}, today : Days,
          stale : BOOLEAN, slot : Days, revealed : BOOLEAN,
          frozen : Words \cup {NoWord}]
NoLocal == [node |-> NoNode, msg |-> NoMsg, today |-> 0, stale |-> FALSE,
            slot |-> 0, revealed |-> FALSE, frozen |-> NoWord]

TypeOK ==
    /\ day \in Days
    /\ words \in [Words -> Stages]
    /\ mem \in Session
    /\ peeked \in SUBSET Words
    /\ row \in Row
    /\ ledger \in [Node -> Days \cup {NoDay}]
    /\ used \in [Days -> Nat]
    /\ chat \in [Msgs -> Content]
    /\ pc \in PCs
    /\ loc \in Local
    /\ faults \in Nat
    /\ delivered \in [Days -> Nat]
    /\ grades \in [Node -> Nat]
    /\ reports \in Nat

Init ==
    /\ day = 0
    /\ words \in [Words -> {"pre", "due"}]
    /\ mem = NoSession
    /\ peeked = {}
    /\ row = NoRow
    /\ ledger = [n \in Node |-> NoDay]
    /\ used = [d \in Days |-> 0]
    /\ chat = [m \in Msgs |-> Blank]
    /\ pc = "idle"
    /\ loc = NoLocal
    /\ faults = 0
    /\ delivered = [d \in Days |-> 0]
    /\ grades = [n \in Node |-> 0]
    /\ reports = 0

---------------------------------------------------------------------------
(* Failures.                                                               *)

Fault(k) == /\ k \in FaultKinds
            /\ faults < MaxFaults
            /\ faults' = faults + 1

NoFault == UNCHANGED faults

Goto(l)  == pc' = l /\ UNCHANGED loc
Return   == pc' = "idle" /\ loc' = NoLocal

---------------------------------------------------------------------------
(* The session store.                                                      *)

(* save_session / save_study_session: one upsert of the session mem'.      *)
Persist(date) == row' = [date |-> date, state |-> mem']

(* invalidate_stale_study_session: the row and the ledger in one           *)
(* transaction.                                                            *)
Invalidate == /\ row' = NoRow
              /\ ledger' = [n \in Node |-> NoDay]

(* load_session: the row is of today and holds cards; and is_stale on the  *)
(* session's own stamp.                                                    *)
RowUsable == /\ row.date = day
             /\ row.state.date = day
             /\ row.state.nodes # <<>>

(* state_from_json: a frozen word without a prompt is dropped, and a       *)
(* reveal without both.                                                    *)
FromJson(s) ==
    [s EXCEPT !.revealed = @ /\ s.prompt /\ s.frozen # NoWord,
              !.frozen   = IF s.prompt THEN @ ELSE NoWord]

(* get_active_session_async returns a session: the one in memory when it   *)
(* is of today, else the restored row.                                     *)
GateOpen == IF Present(mem) THEN mem.date = day ELSE RowUsable
Gated    == IF Present(mem) THEN mem ELSE FromJson(row.state)

(* get_active_session_async returns None: no session anywhere, a stale one *)
(* discarded, or a database failure (memory is dropped, the row stays).    *)
GateMiss ==
    /\ ~GateOpen
    /\ mem' = NoSession
    /\ IF Present(mem) \/ Present(row)
         THEN /\ Invalidate
              /\ NoFault
         ELSE UNCHANGED <<row, ledger, faults>>

GateFail ==
    /\ ~(Present(mem) /\ GateOpen)
    /\ mem' = NoSession
    /\ Fault("db")

GateNone == GateMiss \/ (GateFail /\ UNCHANGED <<row, ledger>>)

(* pop_next: drop the head card and its frozen front.                      *)
PopNext(s) == [s EXCEPT !.nodes = IF @ = <<>> THEN <<>> ELSE Tail(@),
                        !.revealed = FALSE, !.prompt = FALSE,
                        !.frozen = NoWord]

---------------------------------------------------------------------------
(* Drawing a card (_build_card_text_and_keyboard).                         *)

(* _frozen_for_word.                                                       *)
Frozen(s) == s.prompt /\ s.frozen = Head(s.nodes).w

(* An immediate card drops a freeze of the same word; a staged card keeps  *)
(* its freeze, or freezes the word on its first drawing.                   *)
Drawn(s) ==
    LET n == Head(s.nodes) IN
    IF n.a \in Staged
      THEN IF Frozen(s) THEN s
           ELSE [s EXCEPT !.frozen = n.w, !.prompt = TRUE, !.revealed = FALSE]
      ELSE IF s.frozen = n.w
             THEN [s EXCEPT !.frozen = NoWord, !.prompt = FALSE,
                            !.revealed = FALSE]
           ELSE s

DrawnKind(s) ==
    IF Head(s.nodes).a \in Staged /\ ~(Frozen(s) /\ s.revealed)
      THEN "front" ELSE "back"

DrawnCard(s) == CardView(Head(s.nodes), DrawnKind(s))

(* _stash_frozen_user_data: the flag follows the frozen stage.             *)
DrawnPeek(s) ==
    LET n == Head(s.nodes) IN
    IF n.a \notin Staged THEN peeked
    ELSE IF Frozen(s) /\ s.revealed THEN peeked \cup {n.w}
    ELSE peeked \ {n.w}

(* A message id Telegram may give to a new message: one that neither the   *)
(* session nor the row refers to (a forgotten message is overwritten).     *)
FreshMsgs == Msgs \ {mem.msg, row.state.msg}

---------------------------------------------------------------------------
(* Starting a session (handle_study_start).                                *)

(* Cards that build_session_list draws from.                               *)
Due == {w \in Words : words[w] = "due"}
Pre == {w \in Words : words[w] = "pre"}
TierNode(w) == [w |-> w, a |-> IF words[w] = "pre" THEN "first_exposure"
                               ELSE "srs_review"]

Least(i, j) == IF i <= j THEN i ELSE j

(* build_session_list: up to CardsPerSession cards, the due ones first (in *)
(* the order of their priority, which is left open), then the ones not yet *)
(* exposed.                                                                *)
SessionLists ==
    {s \in [1..Least(CardsPerSession, Cardinality(Due \cup Pre)) ->
              {TierNode(w) : w \in Due \cup Pre}] :
        /\ \A i, j \in DOMAIN s : i # j => s[i] # s[j]
        /\ \A i \in DOMAIN s :
              s[i].w \in Due <=> i <= Cardinality(Due)}

StudyTap ==
    /\ pc = "idle"
    /\ pc' = "s_gate"
    /\ loc' = [NoLocal EXCEPT !.today = day]
    /\ UNCHANGED <<day, words, mem, peeked, row, ledger, used, chat, faults,
                   hist>>

StartGate ==
    /\ pc = "s_gate"
    /\ \/ /\ GateOpen
          /\ mem' = Gated
          /\ Goto(IF Gated.nodes # <<>> THEN "r_send" ELSE "s_consume")
          /\ UNCHANGED <<row, ledger, faults>>
       \/ GateNone /\ Goto("s_consume")
    /\ UNCHANGED <<day, words, peeked, used, chat, hist>>

(* consume_session_slot: check and increment today's counter atomically.   *)
ConsumeOffByOne ==                                              \* mutant
    /\ pc = "s_consume"
    /\ used[day] <= SlotLimit
    /\ used' = [used EXCEPT ![day] = @ + 1]
    /\ pc' = "s_build"
    /\ loc' = [loc EXCEPT !.slot = day]
    /\ UNCHANGED <<day, words, mem, peeked, row, ledger, chat, faults, hist>>

Consume ==
    /\ pc = "s_consume"
    /\ \/ /\ used[day] < SlotLimit
          /\ used' = [used EXCEPT ![day] = @ + 1]
          /\ pc' = "s_build"
          /\ loc' = [loc EXCEPT !.slot = day]
          /\ NoFault
       \/ /\ used[day] >= SlotLimit
          /\ Return
          /\ UNCHANGED <<used, faults>>
       \/ /\ Fault("db")
          /\ Return
          /\ UNCHANGED used
    /\ UNCHANGED <<day, words, mem, peeked, row, ledger, chat, hist>>

(* build_session_list, clear_session_grades, the new SessionState.         *)
BuildSession ==
    /\ pc = "s_build"
    /\ \/ /\ Due \cup Pre # {}
          /\ \E s \in SessionLists :
                mem' = [NoSession EXCEPT !.nodes = s, !.total = Len(s),
                                         !.date = loc.today]
          /\ ledger' = [n \in Node |-> NoDay]
          /\ grades' = [n \in Node |-> 0]
          /\ reports' = 0
          /\ Goto("s_persist")
          /\ NoFault
       \/ /\ Due \cup Pre = {}
          /\ Goto("s_release")
          /\ UNCHANGED <<mem, ledger, grades, reports, faults>>
       \/ /\ Fault("db") \/ (Due \cup Pre = {} /\ Fault("refused"))
          /\ mem' = NoSession
          /\ Goto("s_clear")
          /\ UNCHANGED <<ledger, grades, reports>>
    /\ UNCHANGED <<day, words, peeked, row, used, chat, delivered>>

(* The new session is stored before its first card is drawn.               *)
StartPersist ==
    /\ pc = "s_persist"
    /\ \/ /\ mem' = mem
          /\ Persist(loc.today)
          /\ Goto("s_send")
          /\ NoFault
       \/ /\ mem' = NoSession
          /\ Fault("db")
          /\ Goto("s_clear")
          /\ UNCHANGED row
    /\ UNCHANGED <<day, words, peeked, ledger, used, chat, hist>>

(* _render_and_send_first_card up to the send.  A send is never repeated:  *)
(* one that failed late has left a card in the chat.                       *)
SendFirst ==
    /\ pc = "s_send"
    /\ \/ \E m \in FreshMsgs :
             /\ mem' = [Drawn(mem) EXCEPT !.msg = m]
             /\ peeked' = DrawnPeek(mem)
             /\ chat' = [chat EXCEPT ![m] = DrawnCard(mem)]
             /\ Goto("s_sent")
             /\ delivered' = [delivered EXCEPT ![loc.slot] = @ + 1]
             /\ NoFault
       \/ /\ mem' = NoSession
          /\ Goto("s_clear")
          /\ UNCHANGED delivered
          /\ \/ /\ Fault("db")
                /\ UNCHANGED <<chat, peeked>>
             \/ /\ Fault("lost") \/ Fault("refused")
                /\ peeked' = DrawnPeek(mem)
                /\ UNCHANGED chat
             \/ /\ Fault("late")
                /\ peeked' = DrawnPeek(mem)
                /\ \E m \in FreshMsgs :
                      chat' = [chat EXCEPT ![m] = DrawnCard(mem)]
    /\ UNCHANGED <<day, words, row, ledger, used, grades, reports>>

(* Store the message id and the frozen front; a failure is only logged.    *)
FirstPersist ==
    /\ pc \in {"s_sent", "r_persist"}
    /\ mem' = mem
    /\ \/ Persist(mem.date) /\ NoFault
       \/ Fault("db") /\ UNCHANGED row
    /\ Return
    /\ UNCHANGED <<day, words, peeked, ledger, used, chat, hist>>

(* The except branch: memory is already dropped, drop the row.             *)
StartCleanupKeepsSlot ==                                        \* mutant
    /\ pc = "s_clear"
    /\ mem' = NoSession
    /\ row' = NoRow
    /\ Return
    /\ UNCHANGED <<day, words, peeked, ledger, used, chat, faults, hist>>

StartCleanup ==
    /\ pc = "s_clear"
    /\ mem' = NoSession
    /\ \/ row' = NoRow /\ NoFault
       \/ Fault("db") /\ UNCHANGED row
    /\ Goto("s_release")
    /\ UNCHANGED <<day, words, peeked, ledger, used, chat, hist>>

(* release_session_slot: decrement the counter of the day it runs on,      *)
(* never below zero.                                                       *)
ReleaseSlotUnclamped ==                                         \* mutant
    /\ pc = "s_release"
    /\ used' = [used EXCEPT ![day] = @ - 1]
    /\ Return
    /\ UNCHANGED <<day, words, mem, peeked, row, ledger, chat, faults, hist>>

ReleaseSlot ==
    /\ pc = "s_release"
    /\ \/ /\ used' = [used EXCEPT ![day] = IF @ > 0 THEN @ - 1 ELSE 0]
          /\ NoFault
       \/ Fault("db") /\ UNCHANGED used
    /\ Return
    /\ UNCHANGED <<day, words, mem, peeked, row, ledger, chat, hist>>

(* _resume_existing_session: redraw the head card in a new message and     *)
(* take the buttons off the previous one.  Failures are only logged.       *)
ResumeSend ==
    /\ pc = "r_send"
    /\ \/ \E m \in FreshMsgs, off \in BOOLEAN :
             LET card == DrawnCard(mem)
                 prev == IF off /\ mem.msg # NoMsg
                           THEN [chat EXCEPT ![mem.msg] = Blank]
                           ELSE chat
             IN  /\ peeked' = DrawnPeek(mem)
                 /\ \/ /\ off /\ NoFault
                       /\ chat' = [prev EXCEPT ![m] = card]
                       /\ mem' = [Drawn(mem) EXCEPT !.msg = m]
                       /\ Goto("r_persist")
                    \/ /\ ~off /\ (Fault("lost") \/ Fault("refused"))
                       /\ chat' = [prev EXCEPT ![m] = card]
                       /\ mem' = [Drawn(mem) EXCEPT !.msg = m]
                       /\ Goto("r_persist")
                    \/ /\ Fault("late")
                       /\ chat' = [prev EXCEPT ![m] = card]
                       /\ mem' = Drawn(mem)
                       /\ Return
                    \/ /\ Fault("lost") \/ Fault("refused")
                       /\ chat' = prev
                       /\ mem' = Drawn(mem)
                       /\ Return
       \/ /\ Fault("db") \/ Fault("refused")  \* the build, or the answer, raises
          /\ Return
          /\ UNCHANGED <<mem, peeked, chat>>
    /\ UNCHANGED <<day, words, row, ledger, used, hist>>

---------------------------------------------------------------------------
(* Advancing (advance_session), called after a grade or a delete.          *)

(* One edit of the message m into c, as the retrying seam reports it:      *)
(* done; failed with or without effect; refused for good.  An edit of a    *)
(* message that was never recorded is always refused.                      *)
EditDone(m, c)    == m # NoMsg /\ chat' = [chat EXCEPT ![m] = c] /\ NoFault
EditFails(m, c)   == \/ Fault("lost") /\ UNCHANGED chat
                     \/ m # NoMsg /\ Fault("late") /\ chat' = [chat EXCEPT ![m] = c]
EditRefused(m)    == UNCHANGED chat /\ (Fault("refused") \/ (m = NoMsg /\ NoFault))

(* The head is popped in memory before the next card is built and edited   *)
(* in; a failed edit puts it back, a failed build does not.                *)
AdvanceNoRollback(s) ==                                         \* mutant
    LET next == PopNext(s)
    IN  /\ next.nodes # <<>>
        /\ \/ /\ EditDone(s.msg, DrawnCard(next))
              /\ pc' = "a_persist"
              /\ loc' = [NoLocal EXCEPT !.today = day]
           \/ /\ EditFails(s.msg, DrawnCard(next)) \/ EditRefused(s.msg)
              /\ Return
        /\ mem' = Drawn(next)
        /\ peeked' = DrawnPeek(next)
        /\ UNCHANGED reports

AdvanceToCard(s) ==
    LET next == PopNext(s)
    IN  /\ next.nodes # <<>>
        /\ \/ /\ EditDone(s.msg, DrawnCard(next))
              /\ mem' = Drawn(next)
              /\ peeked' = DrawnPeek(next)
              /\ pc' = "a_persist"
              /\ loc' = [NoLocal EXCEPT !.today = day]
           \/ /\ EditFails(s.msg, DrawnCard(next)) \/ EditRefused(s.msg)
              /\ mem' = s
              /\ peeked' = DrawnPeek(next)
              /\ Return
           \/ /\ Fault("db")
              /\ mem' = next
              /\ Return
              /\ UNCHANGED <<chat, peeked>>
        /\ UNCHANGED reports

(* The last card: store a report (a failure is only logged), edit the      *)
(* report in, and end the session unless that edit failed transiently.     *)
Finish(s) ==
    /\ PopNext(s).nodes = <<>>
    /\ UNCHANGED peeked
    /\ \/ /\ EditDone(s.msg, Blank) \/ EditRefused(s.msg)
          /\ reports' = reports + 1
          /\ mem' = NoSession
          /\ Goto("a_clear")
       \/ /\ EditFails(s.msg, Blank)
          /\ reports' = reports + 1
          /\ mem' = s
          /\ Return
       \/ /\ s.msg # NoMsg
          /\ Fault("db")
          /\ chat' = [chat EXCEPT ![s.msg] = Blank]
          /\ mem' = NoSession
          /\ Goto("a_clear")
          /\ UNCHANGED reports

Advance ==
    /\ pc = "adv"
    /\ \/ /\ GateOpen
          /\ AdvanceToCard(Gated) \/ Finish(Gated)
          /\ UNCHANGED <<row, ledger>>
       \/ /\ GateNone
          /\ Return
          /\ UNCHANGED <<chat, peeked, reports>>
    /\ UNCHANGED <<day, words, used, delivered, grades>>

(* The advanced session is stored under the day advance_session began on.  *)
AdvancePersistUnderNow ==                                       \* mutant
    /\ pc = "a_persist"
    /\ mem' = mem
    /\ Persist(day)
    /\ Return
    /\ UNCHANGED <<day, words, peeked, ledger, used, chat, faults, hist>>

AdvancePersist ==
    /\ pc = "a_persist"
    /\ mem' = mem
    /\ \/ Persist(loc.today) /\ NoFault
       \/ Fault("db") /\ UNCHANGED row
    /\ Return
    /\ UNCHANGED <<day, words, peeked, ledger, used, chat, hist>>

(* _clear_persisted_session after the report: the ledger stays.            *)
FinishClear ==
    /\ pc = "a_clear"
    /\ \/ row' = NoRow /\ NoFault
       \/ Fault("db") /\ UNCHANGED row
    /\ Return
    /\ UNCHANGED <<day, words, mem, peeked, ledger, used, chat, hist>>

---------------------------------------------------------------------------
(* Grading (_handle_srs_review, _handle_first_exposure_grade).             *)

(* _is_persisted_stale of the row the handler reads first.                 *)
RowStale == Present(row) /\ ~(row.date = day /\ row.state.date = day)

(* A tap on a grade button of message m: reject it when the session in     *)
(* memory is of another day, else remember whether the row is stale.       *)
GradeTap(m) ==
    /\ pc = "idle"
    /\ chat[m].kind = "back"
    /\ \/ /\ Present(mem) /\ mem.date # day
          /\ mem' = NoSession
          /\ Return
          /\ \/ Invalidate /\ NoFault
             \/ Fault("db") /\ UNCHANGED <<row, ledger>>
       \/ /\ ~(Present(mem) /\ mem.date # day)
          /\ pc' = "g_check"
          /\ \E seen \in {RowStale, FALSE} :
                /\ loc' = [NoLocal EXCEPT !.node = chat[m].node, !.msg = m,
                                          !.stale = seen]
                /\ IF seen = RowStale THEN NoFault ELSE Fault("db")
          /\ UNCHANGED <<mem, row, ledger>>
    /\ UNCHANGED <<day, words, peeked, used, chat, hist>>

(* The card was graded: the session's own list names the word, whatever    *)
(* the activity, or the ledger names the word and the activity.            *)
GradedInSession(s) == loc.node.w \in s.graded                   \* mutant

AlreadyGraded(s) == loc.node.w \in s.graded \/ ledger[loc.node] # NoDay

(* The tapped card is the head of the session.                             *)
Active(s) == s.nodes # <<>> /\ Head(s.nodes) = loc.node

(* A tap on a graded card that was not advanced past: list it as graded    *)
(* and advance.                                                            *)
DuplicateIgnored(s) ==                                          \* mutant
    /\ AlreadyGraded(s) /\ (Active(s) \/ s.nodes = <<>>)
    /\ mem' = s
    /\ Return

Duplicate(s) ==
    /\ AlreadyGraded(s) /\ (Active(s) \/ s.nodes = <<>>)
    /\ mem' = [s EXCEPT !.graded = @ \cup {loc.node.w}]
    /\ Goto("adv")

GradeCheck ==
    /\ pc = "g_check"
    /\ \/ /\ GateOpen
          /\ LET s == Gated IN
             \/ Duplicate(s)
             \/ /\ ~Active(s) /\ ~(AlreadyGraded(s) /\ s.nodes = <<>>)
                /\ mem' = s
                /\ Return
             \/ /\ ~AlreadyGraded(s) /\ Active(s)
                /\ mem' = s
                /\ Goto("g_txn")
          /\ UNCHANGED <<row, ledger, faults>>
       \/ /\ GateOpen              \* is_word_graded, or the answer, raises
          /\ \/ loc.node.w \notin Gated.graded /\ Fault("db")
             \/ AlreadyGraded(Gated) /\ Fault("refused")
          /\ mem' = Gated
          /\ Return
          /\ UNCHANGED <<row, ledger>>
       \/ /\ GateMiss
          /\ IF ledger'[loc.node] = NoDay /\ ~loc.stale
               THEN Goto("g_txn")
               ELSE Return
       \/ /\ GateFail
          /\ \/ /\ ledger[loc.node] = NoDay /\ ~loc.stale
                /\ Goto("g_txn")
                /\ UNCHANGED <<row, ledger>>
             \/ /\ ledger[loc.node] = NoDay /\ loc.stale
                /\ Return
                /\ Invalidate \/ UNCHANGED <<row, ledger>>
             \/ /\ ledger[loc.node] # NoDay
                /\ Return
                /\ UNCHANGED <<row, ledger>>
    /\ UNCHANGED <<day, words, peeked, used, chat, hist>>

(* grade_word_review wants an exposed word, grade_first_exposure one that  *)
(* is not exposed yet.                                                     *)
Gradable(n) == IF n.a = "srs_review" THEN words[n.w] \in {"sched", "due"}
                                     ELSE words[n.w] = "pre"

(* The grade transaction: scheduling fields and ledger entry together.     *)
GradeTxn ==
    /\ pc = "g_txn"
    /\ \/ /\ Gradable(loc.node)
          /\ words' = [words EXCEPT ![loc.node.w] = "sched"]
          /\ ledger' = [ledger EXCEPT ![loc.node] = IF @ = NoDay THEN day ELSE @]
          /\ grades' = [grades EXCEPT ![loc.node] = @ + 1]
          /\ Goto(IF Present(mem) THEN "g_persist" ELSE "adv")
          /\ NoFault
       \/ /\ ~Gradable(loc.node)
          /\ Return
          /\ UNCHANGED <<words, ledger, grades, faults>>
       \/ /\ Fault("db")
          /\ Return
          /\ UNCHANGED <<words, ledger, grades>>
    /\ UNCHANGED <<day, mem, peeked, row, used, chat, delivered, reports>>

(* The graded word enters the session's list, which is stored at once and  *)
(* the tap answered; a failure of either leaves the handler before it      *)
(* advances.                                                               *)
GradePersist ==
    /\ pc = "g_persist"
    /\ mem' = [mem EXCEPT !.graded = @ \cup {loc.node.w}]
    /\ \/ Persist(mem.date) /\ Goto("adv") /\ NoFault
       \/ Persist(mem.date) /\ Fault("refused") /\ Return
       \/ Fault("db") /\ Return /\ UNCHANGED row
    /\ UNCHANGED <<day, words, peeked, ledger, used, chat, hist>>

---------------------------------------------------------------------------
(* Revealing a staged card (_handle_srs_reveal).                           *)

Revealable(s, w) ==
    /\ ~(s.revealed /\ s.frozen = w)
    /\ w \notin peeked
    /\ s.nodes # <<>> /\ Head(s.nodes).w = w
    /\ s.msg # NoMsg

(* The message already shows the back: Telegram answers "not modified".    *)
ShowsBack(s) == chat[s.msg] = CardView(Head(s.nodes), "back")

RevealTap(m) ==
    LET w == chat[m].node.w IN
    /\ pc = "idle"
    /\ chat[m].kind = "front"
    /\ \/ /\ GateOpen
          /\ LET s    == Gated
                 back == CardView(Head(s.nodes), "back")
                 edit == Revealable(s, w) /\ ~ShowsBack(s)
             IN \/ /\ ~edit
                   /\ mem' = s
                   /\ Return
                   /\ UNCHANGED <<chat, faults>>
                \/ /\ edit
                   /\ \/ /\ EditDone(s.msg, back)
                         /\ mem' = [s EXCEPT !.revealed = TRUE, !.frozen = w]
                         /\ pc' = "v_persist"
                         /\ loc' = [NoLocal EXCEPT !.node = Head(s.nodes),
                                                   !.revealed = s.revealed,
                                                   !.frozen = s.frozen]
                      \/ /\ \/ EditFails(s.msg, back)
                            \/ EditRefused(s.msg)
                            \/ Fault("db") /\ UNCHANGED chat
                         /\ mem' = s
                         /\ Return
          /\ UNCHANGED <<row, ledger>>
       \/ GateNone /\ Return /\ UNCHANGED chat
    /\ UNCHANGED <<day, words, peeked, used, hist>>

(* Memory keeps the flip only once the row has it; the flag stays.         *)
RevealPersistKeepsFlip ==                                       \* mutant
    /\ pc = "v_persist"
    /\ mem' = mem
    /\ \/ Persist(mem.date) /\ NoFault
       \/ Fault("db") /\ UNCHANGED row
    /\ peeked' = peeked \cup {loc.node.w}
    /\ Return
    /\ UNCHANGED <<day, words, ledger, used, chat, hist>>

RevealPersist ==
    /\ pc = "v_persist"
    /\ \/ /\ mem' = mem
          /\ Persist(mem.date)
          /\ NoFault
       \/ /\ Fault("db")
          /\ mem' = [mem EXCEPT !.revealed = loc.revealed,
                                !.frozen = loc.frozen]
          /\ UNCHANGED row
    /\ peeked' = peeked \cup {loc.node.w}
    /\ Return
    /\ UNCHANGED <<day, words, ledger, used, chat, hist>>

---------------------------------------------------------------------------
(* Deleting the active card (_handle_srs_delete, _yes, _no).               *)

(* _resolve_delete_context.                                                *)
Deletable(s, w) == /\ s.nodes # <<>> /\ Head(s.nodes).w = w
                   /\ s.msg # NoMsg

(* Swap the buttons of the session's message: ask for confirmation, or     *)
(* put the grade buttons back.                                             *)
SwapButtons(m, from, to) ==
    /\ pc = "idle"
    /\ chat[m].kind = from
    /\ \/ /\ GateOpen
          /\ mem' = Gated
          /\ LET s == Gated
                 c == CardView(Head(s.nodes), to)
             IN \/ /\ ~Deletable(s, chat[m].node.w)
                   /\ UNCHANGED <<chat, faults>>
                \/ /\ Deletable(s, chat[m].node.w)
                   /\ \/ EditDone(s.msg, c)
                      \/ EditFails(s.msg, c)
                      \/ EditRefused(s.msg)
          /\ UNCHANGED <<row, ledger>>
       \/ GateNone /\ UNCHANGED chat
    /\ UNCHANGED <<day, words, peeked, used, pc, loc, hist>>

DeleteTap(m) == SwapButtons(m, "back", "confirm")
DeleteNo(m)  == SwapButtons(m, "confirm", "back")

(* delete_saved_word in its own transaction.                               *)
DeleteYes(m) ==
    LET w == chat[m].node.w IN
    /\ pc = "idle"
    /\ chat[m].kind = "confirm"
    /\ \/ /\ GateOpen
          /\ mem' = Gated
          /\ \/ /\ ~Deletable(Gated, w)
                /\ Return
                /\ UNCHANGED <<words, faults>>
             \/ /\ Deletable(Gated, w)
                /\ words' = [words EXCEPT ![w] = "gone"]
                /\ Goto("d_persist")
                /\ NoFault
             \/ /\ Deletable(Gated, w)
                /\ Fault("db")
                /\ Return
                /\ UNCHANGED words
          /\ UNCHANGED <<row, ledger>>
       \/ GateNone /\ Return /\ UNCHANGED words
    /\ UNCHANGED <<day, peeked, used, chat, hist>>

(* _next_due_node: the cards of the first tier that has one outside the    *)
(* session.                                                                *)
InSession(s) == {s.nodes[i].w : i \in DOMAIN s.nodes}
RefillWords(s) == IF Due \ InSession(s) # {} THEN Due \ InSession(s)
                  ELSE Pre \ InSession(s)

Refilled(s) ==
    IF RefillWords(s) = {} THEN {s}
    ELSE {[s EXCEPT !.nodes = Append(@, TierNode(w))] : w \in RefillWords(s)}

(* _refill_session_from_due, the persist and the answer to the tap; a      *)
(* failure leaves the handler, with the refilled card kept in memory.      *)
DeletePersist ==
    /\ pc = "d_persist"
    /\ \/ /\ mem' \in Refilled(mem)
          /\ \/ Persist(mem.date) /\ Goto("adv") /\ NoFault
             \/ Persist(mem.date) /\ Fault("refused") /\ Return
             \/ Fault("db") /\ Return /\ UNCHANGED row
       \/ /\ Fault("db")
          /\ Return
          /\ UNCHANGED <<mem, row>>
    /\ UNCHANGED <<day, words, peeked, ledger, used, chat, hist>>

---------------------------------------------------------------------------
(* What happens around the handlers.                                       *)

(* Midnight in the app's time zone.                                        *)
Midnight ==
    /\ day < MaxDay
    /\ day' = day + 1
    /\ UNCHANGED <<words, mem, peeked, row, ledger, used, chat, pc, loc,
                   faults, hist>>

(* next_review_at of a scheduled word passes.                              *)
ComesDue(w) ==
    /\ words[w] = "sched"
    /\ words' = [words EXCEPT ![w] = "due"]
    /\ UNCHANGED <<day, mem, peeked, row, ledger, used, chat, pc, loc,
                   faults, hist>>

(* toggle_review_word on a word that is saved: the row is deleted.         *)
Unsave(w) ==
    /\ pc = "idle"
    /\ words[w] # "gone"
    /\ words' = [words EXCEPT ![w] = "gone"]
    /\ UNCHANGED <<day, mem, peeked, row, ledger, used, chat, pc, loc,
                   faults, hist>>

(* purge_stale_study_sessions: rows older than yesterday, ledger entries   *)
(* older than two days to the hour, so some of the third last day.         *)
PurgeSessions ==
    /\ \E cut \in {day - 2, day - 1} :
          ledger' = [n \in Node |-> IF ledger[n] < cut THEN NoDay
                                    ELSE ledger[n]]
    /\ row' = IF row.date < day - 1 THEN NoRow ELSE row
    /\ UNCHANGED <<day, words, mem, peeked, used, chat, pc, loc, faults,
                   hist>>

(* purge_old_session_slot_keys: counters older than yesterday.             *)
PurgeSlots ==
    /\ used' = [d \in Days |-> IF d < day - 1 THEN 0 ELSE used[d]]
    /\ UNCHANGED <<day, words, mem, peeked, row, ledger, chat, pc, loc,
                   faults, hist>>

(* The process dies and comes back: what was in memory is gone.            *)
Crash ==
    /\ Fault("crash")
    /\ mem' = NoSession
    /\ peeked' = {}
    /\ Return
    /\ UNCHANGED <<day, words, row, ledger, used, chat, hist>>

---------------------------------------------------------------------------

(* The steps of a handler that is running.                                 *)
HandlerStep ==
    \/ StartGate \/ Consume \/ BuildSession \/ StartPersist \/ SendFirst
    \/ FirstPersist \/ StartCleanup \/ ReleaseSlot \/ ResumeSend
    \/ Advance \/ AdvancePersist \/ FinishClear
    \/ GradeCheck \/ GradeTxn \/ GradePersist
    \/ RevealPersist \/ DeletePersist

Tap ==
    \/ StudyTap
    \/ \E m \in Msgs : \/ GradeTap(m) \/ RevealTap(m)
                       \/ DeleteTap(m) \/ DeleteNo(m) \/ DeleteYes(m)

Environment ==
    \/ Midnight
    \/ \E w \in Words : ComesDue(w) \/ Unsave(w)
    \/ PurgeSessions \/ PurgeSlots
    \/ Crash

Next == HandlerStep \/ Tap \/ Environment

Spec == Init /\ [][Next]_vars

---------------------------------------------------------------------------
(* Properties.                                                             *)

(* The date column of the study_sessions row is the stamp of the session   *)
(* stored in it, however a start, a grade or an advance straddles midnight *)
(* (_persist_session: "the row date can never differ from the inner date").*)
RowDateIsInnerDate == row.date = row.state.date

(* The learner has a session a tap would act on.                           *)
SessionLive == GateOpen

(* While a session is alive, no card has run its scheduling transition     *)
(* twice since that session was built: not after a lost advance, a failed  *)
(* store, a crash or a tap on a second message with the same card (the     *)
(* grade guards of srs_handler over graded_word_ids and                    *)
(* session_grade_ledger).                                                  *)
GradedOncePerSession == SessionLive => \A n \in Node : grades[n] <= 1

(* Sessions delivered on the slots of a day never exceed the counter of    *)
(* that day, and the counter never exceeds the plan's limit, although a    *)
(* slot taken before midnight is released on the next day's counter        *)
(* (consume_session_slot, release_session_slot).                           *)
SlotsRespectLimit ==
    \A d \in Days : /\ used[d] <= SlotLimit
                    /\ delivered[d] <= SlotLimit
                    /\ d >= day - 1 => delivered[d] <= used[d]

(* A reveal that a redraw from memory would honour is honoured by a redraw *)
(* from the row as well, so a restart never turns a seen card back to its  *)
(* front (_handle_srs_reveal: "only commit to memory after DB confirms").  *)
RevealIsDurable ==
    /\ GateOpen /\ Present(mem) /\ pc # "v_persist"
    /\ mem.nodes # <<>> /\ Frozen(mem) /\ mem.revealed
    /\ row.date = day /\ row.state.nodes = mem.nodes
    => LET s == FromJson(row.state) IN Frozen(s) /\ s.revealed

(* Between two taps, the message of today's session offers the card at the *)
(* head of the session or nothing, so a button the learner sees is never   *)
(* refused as belonging to another card.  advance_session: "Advance only   *)
(* mutates session state AFTER the Telegram edit that renders the next     *)
(* card / report succeeds", "so the visible card stays the active one".    *)
VisibleCardIsActive ==
    pc = "idle" /\ Present(mem) /\ mem.date = day /\ mem.msg # NoMsg
    => \/ chat[mem.msg].kind = "none"
       \/ mem.nodes # <<>> /\ chat[mem.msg].node = Head(mem.nodes)

(* Between two taps the counter of today is exactly the number of sessions *)
(* delivered on it: a start that fails, or finds no card, gives its slot   *)
(* back once, even when its send was refused after the row was stored and  *)
(* midnight passed in between (the except branch of handle_study_start).   *)
SlotsBalance ==
    pc = "idle" => used[day] = delivered[day]

---------------------------------------------------------------------------
(* Liveness.  The event loop always takes the next step of the handler it  *)
(* runs.  The learner goes on tapping: the study button, what the current  *)
(* card offers, and, for a card whose word was unsaved, its delete button. *)

ShowsHead(m) == /\ GateOpen
                /\ Gated.nodes # <<>>
                /\ chat[m].node = Head(Gated.nodes)

HeadIsGone(m) == ShowsHead(m) /\ words[chat[m].node.w] = "gone"

Fairness ==
    /\ WF_vars(HandlerStep)
    /\ SF_vars(StudyTap)
    /\ SF_vars(\E m \in Msgs : ShowsHead(m) /\ RevealTap(m))
    /\ SF_vars(\E m \in Msgs : ShowsHead(m) /\ GradeTap(m))
    /\ SF_vars(\E m \in Msgs : HeadIsGone(m) /\ DeleteTap(m))
    /\ SF_vars(\E m \in Msgs : HeadIsGone(m) /\ DeleteYes(m))

FairSpec == Spec /\ Fairness

(* A learner who goes on tapping gets to the end of every session: no      *)
(* lost edit, failed store, crash or unsaved word leaves a card that can   *)
(* neither be graded nor passed (srs_handler: "Never re-grade (FSRS        *)
(* corruption) and never soft-lock").                                      *)
SessionEnds == SessionLive ~> ~SessionLive
============================================================================
