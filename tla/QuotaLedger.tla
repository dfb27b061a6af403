---------------------------- MODULE QuotaLedger ----------------------------
(***************************************************************************)
(* What the daily quota of word queries promises one learner: at most      *)
(* Limit answers are charged to a day, an open reservation is settled      *)
(* once, and a refund gives back only a charge of the day that is running. *)
(*                                                                         *)
(* One reservation is open at a time.  It ends in a delivered card, in a   *)
(* refund, or, when the program dies or the refund itself fails, in a      *)
(* charge nobody gets anything for.                                        *)
(***************************************************************************)
EXTENDS Naturals

CONSTANTS
    Limit,    \* queries the plan allows a day
    MaxDays   \* bound: days

(* What the theorems about the ledger ask of its constants.                *)
LedgerConstants == Limit \in Nat /\ MaxDays \in Nat \ {0}

Days == 1..MaxDays

VARIABLES
    today,
    spent,     \* charges of today
    open,      \* the day of the open reservation, 0 when there is none
    delivered, \* answers delivered, by the day they are charged to
    forfeited  \* charges of each day lost for nothing

ledger == <<today, spent, open, delivered, forfeited>>

Init ==
    /\ today = 1
    /\ spent = 0
    /\ open = 0
    /\ delivered = [d \in Days |-> 0]
    /\ forfeited = [d \in Days |-> 0]

Reserve ==
    /\ open = 0
    /\ spent < Limit
    /\ spent' = spent + 1
    /\ open' = today
    /\ UNCHANGED <<today, delivered, forfeited>>

Deliver ==
    /\ open # 0
    /\ open' = 0
    /\ delivered' = [delivered EXCEPT ![open] = @ + 1]
    /\ UNCHANGED <<today, spent, forfeited>>

Refund ==
    /\ open # 0
    /\ open' = 0
    /\ spent' = IF open = today THEN spent - 1 ELSE spent
    /\ UNCHANGED <<today, delivered, forfeited>>

Forfeit ==
    /\ open # 0
    /\ open' = 0
    /\ forfeited' = [forfeited EXCEPT ![open] = @ + 1]
    /\ UNCHANGED <<today, spent, delivered>>

NextDay ==
    /\ today < MaxDays
    /\ today' = today + 1
    /\ spent' = 0
    /\ UNCHANGED <<open, delivered, forfeited>>

Next == Reserve \/ Deliver \/ Refund \/ Forfeit \/ NextDay

SafeSpec == Init /\ [][Next]_ledger

(* A reservation does not stay open.                                       *)
Settled == (open # 0) ~> (open = 0)

Spec == SafeSpec /\ Settled

-----------------------------------------------------------------------------

TypeOK ==
    /\ today \in Days
    /\ spent \in 0..Limit
    /\ open \in {0} \cup Days
    /\ delivered \in [Days -> Nat]
    /\ forfeited \in [Days -> Nat]

Held(d) == IF open = d THEN 1 ELSE 0

(* Every charge of today is an answer, a loss, or the open reservation.    *)
Balanced == spent = delivered[today] + forfeited[today] + Held(today)

(* No day gives more answers than the plan allows.                         *)
WithinLimit == \A d \in Days : delivered[d] + forfeited[d] <= Limit

(* What makes the two inductive: a reservation counts on its own day, and  *)
(* a day to come has no charges.                                           *)
Accounts ==
    /\ TypeOK
    /\ Balanced
    /\ open <= today
    /\ \A d \in Days :
          /\ delivered[d] + forfeited[d] + Held(d) <= Limit
          /\ d > today => delivered[d] = 0 /\ forfeited[d] = 0
=============================================================================
