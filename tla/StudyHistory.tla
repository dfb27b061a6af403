--------------------------- MODULE StudyHistory ---------------------------
(***************************************************************************)
(* StudySession with a history of each chat message: the day its card was  *)
(* put there and whether a tap on it has run the scheduling transition;    *)
(* and the day of the last grade tap.  The history observes steps and      *)
(* restricts none.                                                         *)
(***************************************************************************)
EXTENDS StudySession

VARIABLES shown, tapped

hvars == <<vars, shown, tapped>>

NewlyShown == [on |-> day, graded |-> FALSE]

HInit == /\ Init
         /\ shown = [m \in Msgs |-> NewlyShown]
         /\ tapped = 0

(* A message gets another card, or the other side of its card.  Asking for *)
(* a delete confirmation, and taking it back, leave the card in place.     *)
Redrawn(m) == /\ chat'[m] # chat[m]
              /\ ~(/\ chat'[m].node = chat[m].node
                   /\ {chat[m].kind, chat'[m].kind} = {"back", "confirm"})

(* The running grade handler, started by a tap on m, ran the transition.   *)
GradedFrom(m) == pc = "g_txn" /\ loc.msg = m /\ grades' # grades

HNext ==
    /\ Next
    /\ shown' = [m \in Msgs |->
                   IF Redrawn(m) THEN NewlyShown
                   ELSE IF GradedFrom(m) THEN [shown[m] EXCEPT !.graded = TRUE]
                   ELSE shown[m]]
    /\ tapped' = IF pc = "idle" /\ pc' = "g_check" THEN day ELSE tapped

HSpec == HInit /\ [][HNext]_hvars

(* "a re-tap on a graded card can never re-run the FSRS transition"        *)
(* (services/db/sessions.py, on session_grade_ledger): of all the taps on  *)
(* one card in one message, at most one runs the transition, unless the    *)
(* card has meanwhile become the active card of a later session.           *)
RetapNeverRegrades ==
    [][\A m \in Msgs : GradedFrom(m) /\ ~Present(mem) => ~shown[m].graded]_hvars

(* "a tap on yesterday's card never grades" (srs_handler): the tap that    *)
(* runs the transition was made on the day the card was drawn.             *)
StaleTapNeverGrades ==
    [][\A m \in Msgs : GradedFrom(m) => shown[m].on = tapped]_hvars
============================================================================
