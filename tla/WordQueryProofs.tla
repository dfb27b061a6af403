-------------------------- MODULE WordQueryProofs --------------------------
(***************************************************************************)
(* The word query implements the quota ledger, for every limit, number of  *)
(* texts, faults and days; hence the ledger's limit is kept.               *)
(*                                                                         *)
(* The inductive invariant is that a reservation is open exactly in the    *)
(* steps between reserve_word_query and its settlement, and that the       *)
(* counter row still carries the day of an open reservation: no other      *)
(* handler can have reserved in between.                                   *)
(*                                                                         *)
(* Types and the table of cards need more: tokens are handed out in order, *)
(* so the cards of a table differ and the cap finds one that is not to be  *)
(* kept among the two oldest; and every card stored stands for an update   *)
(* that arrived or was handled again, so tokens do not run out.            *)
(***************************************************************************)
EXTENDS WordQuery, SequenceTheorems, TLAPS

Proved == INSTANCE QuotaLedgerProofs
              WITH today <- day, spent <- Spent, open <- held

OpenReservation ==
    /\ (held # 0) = (pc \in Holding)
    /\ held # 0 => held = date /\ count > 0

Counter ==
    /\ day \in Nat \ {0} /\ date \in 0..day
    /\ count \in Nat /\ held \in Nat

QInv == Counter /\ OpenReservation

(* A delivered ask is past the marker that would bring it back.            *)
BInv == billed => pc = "reply" /\ ~pending

quota == <<day, count, date, held, delivered, forfeited>>

-----------------------------------------------------------------------------
(* The steps that settle or open nothing.                                  *)

Plain ==
    \/ Take \/ Throttled \/ Invalid \/ Valid \/ Find \/ Exhausted
    \/ Generate \/ GenerateFails \/ ByWord \/ Alias \/ AliasFails \/ Store
    \/ Streak \/ PersistFails \/ Usage \/ SendCardFails \/ Reply \/ MakeOffer
    \/ Clear \/ Resend \/ Toggle \/ Flag \/ Expire

(* They leave the counter alone and stay on their side of a reservation.   *)
LEMMA PlainSteps ==
    ASSUME Plain
    PROVE  UNCHANGED quota /\ (pc' \in Holding) = (pc \in Holding)
<1>1. CASE Take
  <2>1. UNCHANGED quota /\ pc = "idle"
    BY <1>1 DEF Take, users, quota
  <2>2. pc' \in {"idle", "slot", "toggle", "clear"}
    BY <1>1, <2>1 DEF Take, TakeAnswer, TakeCancel, TakeMenu, TakeOther,
       TakeAdd, TakeOffer, TakeDecline, handler
  <2>3. QED
    BY <2>1, <2>2 DEF Holding
<1>2. CASE Throttled
  BY <1>2 DEF Throttled, Becomes, Asks, users, handler, Holding, quota
<1>3. CASE Invalid
  BY <1>3 DEF Invalid, Becomes, Asks, users, handler, Holding, quota
<1>4. CASE Valid
  BY <1>4 DEF Valid, Becomes, Asks, users, handler, Holding, quota
<1>5. CASE Find
  <2>1. UNCHANGED quota /\ pc = "find"
    BY <1>5 DEF Find, Asks, users, quota
  <2>2. pc' \in {"offer", "reserve"}
    BY <1>5 DEF Find, Becomes
  <2>3. QED
    BY <2>1, <2>2 DEF Holding
<1>6. CASE Exhausted
  BY <1>6 DEF Exhausted, Becomes, Asks, users, handler, Holding, quota
<1>7. CASE Generate
  BY <1>7 DEF Generate, Asks, users, handler, Holding, quota
<1>8. CASE GenerateFails
  BY <1>8 DEF GenerateFails, Becomes, Asks, users, handler, Holding, quota
<1>9. CASE ByWord
  <2>1. UNCHANGED quota /\ pc = "byword"
    BY <1>9 DEF ByWord, Asks, users, quota
  <2>2. pc' \in {"dedup", "store"}
    BY <1>9 DEF ByWord, Becomes
  <2>3. QED
    BY <2>1, <2>2 DEF Holding
<1>10. CASE Alias
  BY <1>10 DEF Alias, Becomes, Asks, users, handler, Holding, quota
<1>11. CASE AliasFails
  BY <1>11 DEF AliasFails, Becomes, Asks, users, handler, Holding, quota
<1>12. CASE Store
  BY <1>12 DEF Store, Asks, users, handler, Holding, quota
<1>13. CASE Streak
  BY <1>13 DEF Streak, Becomes, Asks, users, handler, Holding, quota
<1>14. CASE PersistFails
  BY <1>14 DEF PersistFails, Becomes, Asks, users, handler, Holding, quota
<1>15. CASE Usage
  BY <1>15 DEF Usage, Becomes, Asks, users, handler, Holding, quota
<1>16. CASE SendCardFails
  BY <1>16 DEF SendCardFails, Becomes, Asks, users, handler, Holding, quota
<1>17. CASE Reply
  BY <1>17 DEF Reply, Stop, Finish, Asks, users, handler, Holding, quota
<1>18. CASE MakeOffer
  BY <1>18 DEF MakeOffer, Stop, Finish, Asks, users, handler, Holding, quota
<1>19. CASE Clear
  BY <1>19 DEF Clear, Becomes, Stop, Asks, users, handler, Holding, quota
<1>20. CASE Resend
  BY <1>20 DEF Resend, Becomes, Asks, users, handler, Holding, quota
<1>21. CASE Toggle
  BY <1>21 DEF Toggle, Becomes, users, handler, Holding, quota
<1>22. CASE Flag
  BY <1>22 DEF Flag, Stop, Asks, users, handler, Holding, quota
<1>23. CASE Expire
  BY <1>23 DEF Expire, users, handler, Holding, quota
<1>24. QED
  BY <1>1, <1>2, <1>3, <1>4, <1>5, <1>6, <1>7, <1>8, <1>9, <1>10, <1>11,
     <1>12, <1>13, <1>14, <1>15, <1>16, <1>17, <1>18, <1>19, <1>20, <1>21,
     <1>22, <1>23 DEF Plain

LEMMA ArrivalSteps ==
    ASSUME NEW u, Arrives(u)
    PROVE  UNCHANGED quota /\ pc' = pc
BY DEF Arrives, users, handler, quota

(* Every step is a plain one, an arrival, or one that touches the quota.   *)
LEMMA NextCases ==
    ASSUME [Next]_vars
    PROVE  \/ Plain \/ UNCHANGED vars
           \/ \E u : Arrives(u)
           \/ Reserve \/ Refund \/ RefundDuplicate \/ Undo \/ SendCard
           \/ Raises \/ Crash \/ Midnight
BY DEF Next, Handle, Fail, Environment, Plain, Type, TapAdd, TapOffer

LEMMA QuietSteps ==
    ASSUME QInv, UNCHANGED quota, (pc' \in Holding) = (pc \in Holding)
    PROVE  QInv' /\ UNCHANGED Ledger!ledger
BY DEF QInv, Counter, OpenReservation, quota, Ledger!ledger, Spent

(* A settled or lost reservation.                                          *)
LEMMA Released ==
    ASSUME QInv, Release, pc \in Holding, pc' \notin Holding, day' = day
    PROVE  QInv' /\ Ledger!Refund
<1>1. /\ held # 0 /\ held = date /\ count > 0 /\ count \in Nat
      /\ day \in Nat \ {0} /\ date \in 0..day /\ held \in Nat
  BY DEF QInv, Counter, OpenReservation
<1>2. held' = 0 /\ date' = date /\ UNCHANGED <<delivered, forfeited>>
  BY DEF Release
<1>3. count' = IF date = day THEN count - 1 ELSE count
  BY <1>1 DEF Release
<1>4. count' \in Nat
  BY <1>1, <1>3
<1>5. Spent' = IF held = day THEN Spent - 1 ELSE Spent
  BY <1>1, <1>2, <1>3 DEF Spent
<1>6. QInv'
  BY <1>1, <1>2, <1>4 DEF QInv, Counter, OpenReservation
<1>7. QED
  BY <1>1, <1>2, <1>5, <1>6 DEF Ledger!Refund

LEMMA Lost ==
    ASSUME QInv, Lose, pc' \notin Holding, day' = day
    PROVE  QInv' /\ (Ledger!Forfeit \/ UNCHANGED Ledger!ledger)
<1>1. /\ day \in Nat \ {0} /\ date \in 0..day /\ count \in Nat /\ held \in Nat
  BY DEF QInv, Counter
<1>2. held' = 0 /\ UNCHANGED <<count, date, delivered>> /\ Spent' = Spent
  BY DEF Lose, Spent
<1>3. QInv'
  BY <1>1, <1>2 DEF QInv, Counter, OpenReservation
<1>4. CASE held = 0
  BY <1>2, <1>3, <1>4 DEF Lose, Ledger!ledger
<1>5. CASE held # 0
  BY <1>2, <1>3, <1>5 DEF Lose, Ledger!Forfeit
<1>6. QED
  BY <1>4, <1>5

(* Every step keeps the invariant and is a step of the ledger or none.     *)
LEMMA StepImplements ==
    ASSUME QInv, [Next]_vars
    PROVE  QInv' /\ [Ledger!Next]_Ledger!ledger
<1>1. CASE Plain
  BY <1>1, PlainSteps, QuietSteps
<1>2. CASE UNCHANGED vars
  <2>1. UNCHANGED quota /\ pc' = pc
    BY <1>2 DEF vars, users, handler, quota
  <2>2. QED
    BY <2>1, QuietSteps
<1>3. CASE \E u : Arrives(u)
  BY <1>3, ArrivalSteps, QuietSteps
<1>4. CASE Reserve
  <2>1. /\ Spent < Limit /\ count' = Spent + 1 /\ date' = day /\ held' = day
        /\ day' = day /\ pc = "reserve" /\ pc' = "ai"
        /\ UNCHANGED <<delivered, forfeited>>
    BY <1>4 DEF Reserve, Becomes, Asks
  <2>2. /\ day \in Nat \ {0} /\ held = 0 /\ Spent \in Nat
    BY <2>1 DEF QInv, Counter, OpenReservation, Holding, Spent
  <2>3. Spent' = Spent + 1
    BY <2>1 DEF Spent
  <2>4. QInv'
    BY <2>1, <2>2 DEF QInv, Counter, OpenReservation, Holding
  <2>5. Ledger!Reserve
    BY <2>1, <2>2, <2>3 DEF Ledger!Reserve
  <2>6. QED
    BY <2>4, <2>5 DEF Ledger!Next
<1>5. CASE Refund
  <2>1. Release /\ pc \in Holding /\ pc' \notin Holding /\ day' = day
    BY <1>5 DEF Refund, Becomes, Asks, Holding
  <2>2. QED
    BY <2>1, Released DEF Ledger!Next
<1>6. CASE RefundDuplicate
  <2>1. Release /\ pc \in Holding /\ pc' \notin Holding /\ day' = day
    BY <1>6 DEF RefundDuplicate, Becomes, Asks, Holding
  <2>2. QED
    BY <2>1, Released DEF Ledger!Next
<1>7. CASE Undo
  <2>1. Release /\ pc \in Holding /\ pc' \notin Holding /\ day' = day
    BY <1>7 DEF Undo, Restore, Stop, Asks, Holding
  <2>2. QED
    BY <2>1, Released DEF Ledger!Next
<1>8. CASE SendCard
  <2>1. /\ pc = "send" /\ pc' = "reply" /\ held' = 0 /\ day' = day
        /\ delivered' = [delivered EXCEPT ![held] = @ + 1]
        /\ UNCHANGED <<count, date, forfeited>>
    BY <1>8 DEF SendCard, Asks
  <2>2. held # 0 /\ Spent' = Spent
    BY <2>1 DEF QInv, OpenReservation, Holding, Spent
  <2>3. QInv'
    BY <2>1 DEF QInv, Counter, OpenReservation, Holding
  <2>4. Ledger!Deliver
    BY <2>1, <2>2 DEF Ledger!Deliver
  <2>5. QED
    BY <2>3, <2>4 DEF Ledger!Next
<1>9. CASE Raises
  <2>1. Lose /\ pc' \notin Holding /\ day' = day
    BY <1>9 DEF Raises, Restore, Stop, Asks, Holding
  <2>2. QED
    BY <2>1, Lost DEF Ledger!Next
<1>10. CASE Crash
  <2>1. Lose /\ pc' \notin Holding /\ day' = day
    BY <1>10 DEF Crash, Stop, Holding
  <2>2. QED
    BY <2>1, Lost DEF Ledger!Next
<1>11. CASE Midnight
  <2>1. /\ day < MaxDays /\ day' = day + 1 /\ pc' = pc
        /\ UNCHANGED <<count, date, held, delivered, forfeited>>
    BY <1>11 DEF Midnight, users, handler
  <2>2. day \in Nat \ {0} /\ date \in 0..day
    BY DEF QInv, Counter
  <2>3. QInv'
    BY <2>1, <2>2 DEF QInv, Counter, OpenReservation
  <2>4. Spent' = 0
    BY <2>1, <2>2 DEF Spent
  <2>5. Ledger!NextDay
    BY <2>1, <2>4 DEF Ledger!NextDay
  <2>6. QED
    BY <2>3, <2>5 DEF Ledger!Next
<1>12. QED
  BY <1>1, <1>2, <1>3, <1>4, <1>5, <1>6, <1>7, <1>8, <1>9, <1>10, <1>11,
     NextCases

LEMMA InitImplements == Init => QInv /\ Ledger!Init
BY DEF Init, QInv, Counter, OpenReservation, Holding, Spent, Ledger!Init,
   Days, Ledger!Days

(* The handlers keep the quota invariant.                                  *)
LEMMA QInvHolds == Spec => []QInv
<1>1. QInv /\ [Next]_vars => QInv'
  BY StepImplements
<1>2. QED
  BY <1>1, InitImplements, PTL DEF Spec

(* The word query implements the quota ledger: whatever a handler does and *)
(* whatever fails in it, the ledger sees a settlement or nothing           *)
(* (word_query.ask, _process_ask_word).                                    *)
THEOREM ImplementsLedger == Spec => Ledger!SafeSpec
<1>1. QInv /\ [Next]_vars => [Ledger!Next]_Ledger!ledger
  BY StepImplements
<1>2. QED
  BY <1>1, InitImplements, QInvHolds, PTL DEF Spec, Ledger!SafeSpec

-----------------------------------------------------------------------------
(* What the ledger promises, for the program                               *)

LEMMA SameLedger ==
    /\ Ledger!Init => Proved!Init
    /\ [Ledger!Next]_Ledger!ledger => [Proved!Next]_Proved!ledger
<1>1. Ledger!Init => Proved!Init
  BY DEF Ledger!Init, Proved!Init, Ledger!Days, Proved!Days
<1>2. Ledger!Next => Proved!Next
  BY DEF Ledger!Next, Proved!Next, Ledger!Reserve, Proved!Reserve,
     Ledger!Deliver, Proved!Deliver, Ledger!Refund, Proved!Refund,
     Ledger!Forfeit, Proved!Forfeit, Ledger!NextDay, Proved!NextDay
<1>3. Ledger!ledger = Proved!ledger /\ (Ledger!ledger)' = (Proved!ledger)'
  BY DEF Ledger!ledger, Proved!ledger
<1>4. QED
  BY <1>1, <1>2, <1>3

LEMMA LedgerPromises == Spec => [](Proved!WithinLimit /\ Proved!Balanced)
<1>1. Proved!LedgerConstants
  BY ConstantsAssumption DEF Proved!LedgerConstants
<1>2. Ledger!SafeSpec => Proved!SafeSpec
  BY SameLedger, PTL DEF Ledger!SafeSpec, Proved!SafeSpec
<1>3. Proved!SafeSpec => [](Proved!WithinLimit /\ Proved!Balanced)
  BY <1>1, Proved!LedgerWithinLimit
<1>4. QED
  BY <1>2, <1>3, ImplementsLedger, PTL

(* No day brings more charged answers than the plan allows                 *)
(* (reserve_word_query, release_word_query).                               *)
THEOREM LimitKept == Spec => []DeliveredWithinLimit
<1>1. Proved!WithinLimit => DeliveredWithinLimit
  BY DEF Proved!WithinLimit, DeliveredWithinLimit, Days, Proved!Days
<1>2. QED
  BY <1>1, LedgerPromises, PTL

(* The counter is what was delivered or lost, and a reservation is open    *)
(* only while its handler runs.                                            *)
THEOREM BalanceKept == Spec => []QuotaBalanced
<1>1. QInv /\ Proved!Balanced => QuotaBalanced
  BY DEF QInv, OpenReservation, QuotaBalanced, Proved!Balanced, Proved!Held,
     Ledger!Balanced, Ledger!Held
<1>2. QED
  BY <1>1, LedgerPromises, QInvHolds, PTL

-----------------------------------------------------------------------------
(* A delivered ask is not asked for again                                  *)

LEMMA BilledSteps ==
    ASSUME BInv, [Next]_vars
    PROVE  BInv' /\ (billed /\ ~waiting => ~waiting')
<1>1. CASE Take
  <2>1. pc = "idle" /\ ~billed
    BY <1>1 DEF Take, BInv
  <2>2. billed' = billed
    BY <1>1 DEF Take, TakeAnswer, TakeCancel, TakeMenu, TakeOther, TakeAdd,
       TakeOffer, TakeDecline, handler
  <2>3. QED
    BY <2>1, <2>2 DEF BInv
<1>2. CASE Throttled
  BY <1>2 DEF Throttled, BInv, Becomes, data
<1>3. CASE Invalid
  BY <1>3 DEF Invalid, BInv, Becomes
<1>4. CASE Valid
  BY <1>4 DEF Valid, BInv, Becomes, data
<1>5. CASE Find
  BY <1>5 DEF Find, BInv, Becomes, data
<1>6. CASE Exhausted
  BY <1>6 DEF Exhausted, BInv, Becomes, data
<1>7. CASE Generate
  BY <1>7 DEF Generate, BInv, data
<1>8. CASE GenerateFails
  BY <1>8 DEF GenerateFails, BInv, Becomes, data
<1>9. CASE ByWord
  BY <1>9 DEF ByWord, BInv, Becomes, data
<1>10. CASE Alias
  BY <1>10 DEF Alias, BInv, Becomes, data
<1>11. CASE AliasFails
  BY <1>11 DEF AliasFails, BInv, Becomes, data
<1>12. CASE Store
  BY <1>12 DEF Store, BInv, data
<1>13. CASE Streak
  BY <1>13 DEF Streak, BInv, Becomes, data
<1>14. CASE PersistFails
  BY <1>14 DEF PersistFails, BInv, Becomes, data
<1>15. CASE Usage
  BY <1>15 DEF Usage, BInv, Becomes, data
<1>16. CASE SendCardFails
  BY <1>16 DEF SendCardFails, BInv, Becomes, data
<1>17. CASE Reply
  BY <1>17 DEF Reply, BInv, Stop, Finish
<1>18. CASE MakeOffer
  BY <1>18 DEF MakeOffer, BInv, Stop, Finish
<1>19. CASE Clear
  BY <1>19 DEF Clear, BInv, Becomes, Stop
<1>20. CASE Resend
  BY <1>20 DEF Resend, BInv, Becomes, data
<1>21. CASE Toggle
  BY <1>21 DEF Toggle, BInv, Becomes, data
<1>22. CASE Flag
  BY <1>22 DEF Flag, BInv, Stop, data
<1>23. CASE Reserve
  BY <1>23 DEF Reserve, BInv, Becomes, data
<1>24. CASE Refund
  BY <1>24 DEF Refund, BInv, Becomes, Release, data
<1>25. CASE RefundDuplicate
  BY <1>25 DEF RefundDuplicate, BInv, Becomes, Release, data
<1>26. CASE Undo
  BY <1>26 DEF Undo, BInv, Stop, Restore, Release
<1>27. CASE SendCard
  BY <1>27 DEF SendCard, BInv
<1>28. CASE Raises
  BY <1>28 DEF Raises, BInv, Stop, Restore
<1>29. CASE Crash
  BY <1>29 DEF Crash, BInv, Stop
<1>30. CASE (\E u : Arrives(u)) \/ Midnight \/ Expire
  BY <1>30 DEF Arrives, Midnight, Expire, BInv, data, handler
<1>31. CASE UNCHANGED vars
  BY <1>31 DEF vars, BInv, data, handler
<1>32. QED
  BY <1>1, <1>2, <1>3, <1>4, <1>5, <1>6, <1>7, <1>8, <1>9, <1>10, <1>11,
     <1>12, <1>13, <1>14, <1>15, <1>16, <1>17, <1>18, <1>19, <1>20, <1>21,
     <1>22, <1>23, <1>24, <1>25, <1>26, <1>27, <1>28, <1>29, <1>30, <1>31,
     NextCases DEF Plain

(* Once its card is delivered, an ask is not armed again, whatever fails   *)
(* in the handler after that (mark_awaiting_consumed, _dispatch_awaiting). *)
THEOREM InputConsumedOnce == Spec => DeliveredInputConsumed
<1>1. Init => BInv
  BY DEF Init, BInv
<1>2. BInv /\ [Next]_vars => BInv' /\ [billed /\ ~waiting => ~waiting']_vars
  BY BilledSteps
<1>3. QED
  BY <1>1, <1>2, PTL DEF Spec, DeliveredInputConsumed

-----------------------------------------------------------------------------
(* The table of cards                                                      *)

(* Tokens are handed out in order, so the cards of a table differ.         *)
InOrder(s) == \A i, j \in DOMAIN s : i < j => s[i].tok < s[j].tok

Below(s, n) == \A i \in DOMAIN s : s[i].tok <= n

Names(s, t) == \E i \in DOMAIN s : s[i].tok = t

(* Taking one card out of a table: the others keep their order.            *)
LEMMA RemoveOne ==
    ASSUME NEW s \in Seq(Card), NEW o \in 1..Len(s)
    PROVE  /\ RemoveAt(s, o) \in Seq(Card)
           /\ Len(RemoveAt(s, o)) = Len(s) - 1
           /\ \A i \in 1..(Len(s) - 1) :
                 RemoveAt(s, o)[i] = IF i < o THEN s[i] ELSE s[i + 1]
<1> DEFINE left  == SubSeq(s, 1, o - 1)
           right == SubSeq(s, o + 1, Len(s))
<1>1. Len(s) \in Nat /\ o \in Nat /\ 1 <= o /\ o <= Len(s)
  OBVIOUS
<1>2. \A i \in 1..Len(s) : s[i] \in Card
  OBVIOUS
<1>3. /\ left \in Seq(Card) /\ Len(left) = o - 1
      /\ \A i \in 1..(o - 1) : left[i] = s[i]
  <2>1. \A i \in 1..(o - 1) : s[i] \in Card
    BY <1>1, <1>2
  <2>2. /\ left \in Seq(Card)
        /\ Len(left) = IF 1 <= o - 1 THEN (o - 1) - 1 + 1 ELSE 0
        /\ \A i \in 1..((o - 1) - 1 + 1) : left[i] = s[1 + i - 1]
    BY <1>1, <2>1, SubSeqProperties
  <2>3. QED
    BY <1>1, <2>2
<1>4. /\ right \in Seq(Card) /\ Len(right) = Len(s) - o
      /\ \A i \in 1..(Len(s) - o) : right[i] = s[o + i]
  <2>1. \A i \in (o + 1)..Len(s) : s[i] \in Card
    BY <1>1, <1>2
  <2>2. /\ right \in Seq(Card)
        /\ Len(right) = IF o + 1 <= Len(s) THEN Len(s) - (o + 1) + 1 ELSE 0
        /\ \A i \in 1..(Len(s) - (o + 1) + 1) : right[i] = s[(o + 1) + i - 1]
    BY <1>1, <2>1, SubSeqProperties
  <2>3. QED
    BY <1>1, <2>2
<1>5. RemoveAt(s, o) = left \o right
  BY DEF RemoveAt
<1> HIDE DEF left, right
<1>6. /\ left \o right \in Seq(Card)
      /\ Len(left \o right) = Len(left) + Len(right)
      /\ \A i \in 1..(Len(left) + Len(right)) :
            (left \o right)[i] = IF i <= Len(left) THEN left[i]
                                 ELSE right[i - Len(left)]
  BY <1>3, <1>4, ConcatProperties
<1>7. ASSUME NEW i \in 1..(Len(s) - 1)
      PROVE  (left \o right)[i] = IF i < o THEN s[i] ELSE s[i + 1]
  <2>1. CASE i < o
    BY <1>1, <1>3, <1>4, <1>6, <2>1
  <2>2. CASE ~(i < o)
    <3>1. i - (o - 1) \in 1..(Len(s) - o)
      BY <1>1, <2>2
    <3>2. right[i - (o - 1)] = s[o + (i - (o - 1))]
      BY <1>4, <3>1
    <3>3. (left \o right)[i] = right[i - (o - 1)]
      BY <1>1, <1>3, <1>4, <1>6, <2>2
    <3>4. o + (i - (o - 1)) = i + 1
      BY <1>1
    <3>5. QED
      BY <2>2, <3>2, <3>3, <3>4
  <2>3. QED
    BY <2>1, <2>2
<1>8. QED
  BY <1>1, <1>3, <1>4, <1>5, <1>6, <1>7

(* The card that goes over the cap: one of the two oldest, never the one   *)
(* to keep.                                                                *)
LEMMA OldestOther ==
    ASSUME NEW s \in Seq(Card), InOrder(s), NEW keep, Len(s) >= 2
    PROVE  \E o \in DOMAIN s :
              s[o].tok # keep /\ \A j \in 1..(o - 1) : s[j].tok = keep
<1>1. 1 \in DOMAIN s /\ 2 \in DOMAIN s /\ Len(s) \in Nat /\ DOMAIN s = 1..Len(s)
  OBVIOUS
<1>2. CASE s[1].tok # keep
  BY <1>1, <1>2
<1>3. CASE s[1].tok = keep
  <2>1. s[1] \in Card /\ s[2] \in Card
    BY <1>1
  <2>2. s[1].tok \in Nat /\ s[2].tok \in Nat
    BY <2>1, ConstantsAssumption DEF Card, Tokens
  <2>3. s[1].tok < s[2].tok
    BY <1>1 DEF InOrder
  <2>4. s[2].tok # keep
    BY <1>3, <2>2, <2>3
  <2>5. \A j \in 1..(2 - 1) : s[j].tok = keep
    BY <1>3
  <2>6. QED
    BY <1>1, <2>4, <2>5
<1>4. QED
  BY <1>2, <1>3

(* _enforce_query_results_cap on a table with one card too many at most.   *)
LEMMA CappedTable ==
    ASSUME NEW s \in Seq(Card), InOrder(s), Len(s) <= Cap + 1, NEW keep
    PROVE  LET t == Capped(s, keep)
           IN  /\ t \in Seq(Card) /\ Len(t) <= Cap
               /\ InOrder(t)
               /\ \A n \in Nat : Below(s, n) => Below(t, n)
               /\ Names(s, keep) => Names(t, keep)
<1> DEFINE t == Capped(s, keep)
<1>1. /\ Cap \in Nat /\ 1 <= Cap
      /\ Len(s) \in Nat /\ Len(s) <= Cap + 1 /\ DOMAIN s = 1..Len(s)
  BY ConstantsAssumption
<1>2. CASE Len(s) <= Cap
  <2>1. t = s
    BY <1>2 DEF Capped
  <2>2. QED
    BY <1>2, <2>1
<1>3. CASE ~(Len(s) <= Cap)
  <2> DEFINE size == Len(s)
  <2>1. /\ Cap \in Nat /\ 1 <= Cap /\ size \in Nat
        /\ size <= Cap + 1 /\ ~(size <= Cap)
    BY <1>1, <1>3
  <2> HIDE DEF size
  <2>2. size = Cap + 1 /\ size >= 2
    BY <2>1
  <2>3. Len(s) = Cap + 1 /\ Len(s) >= 2
    BY <2>2 DEF size
  <2>4. PICK o \in DOMAIN s :
            /\ t = RemoveAt(s, o)
            /\ s[o].tok # keep
    <3> DEFINE P(i) == s[i].tok # keep /\ \A j \in 1..(i - 1) : s[j].tok = keep
               c == CHOOSE i \in DOMAIN s : P(i)
    <3>1. \E i \in DOMAIN s : P(i)
      BY <2>3, OldestOther
    <3>2. c \in DOMAIN s /\ P(c)
      BY <3>1
    <3>3. t = RemoveAt(s, c)
      BY <1>3 DEF Capped
    <3>4. QED
      BY <3>2, <3>3
  <2> HIDE DEF t
  <2>5. /\ t \in Seq(Card) /\ Len(t) = Cap
        /\ \A i \in 1..Cap : t[i] = IF i < o THEN s[i] ELSE s[i + 1]
    <3>1. o \in 1..Len(s)
      BY <1>1
    <3>2. Len(s) - 1 = Cap
      BY <1>1, <2>3
    <3>3. QED
      BY <2>4, <3>1, <3>2, RemoveOne
  <2>6. DOMAIN t = 1..Cap
    BY <2>5
  <2>7. ASSUME NEW i \in DOMAIN t
        PROVE  \E k \in DOMAIN s :
                  t[i] = s[k] /\ i <= k /\ k <= i + 1 /\ (k = i) = (i < o)
    <3>1. i \in Nat /\ i \in DOMAIN s /\ i + 1 \in DOMAIN s
      BY <1>1, <2>3, <2>6
    <3>2. QED
      BY <2>5, <2>6, <3>1
  <2>8. InOrder(t)
    <3> SUFFICES ASSUME NEW i \in DOMAIN t, NEW j \in DOMAIN t, i < j
                 PROVE  t[i].tok < t[j].tok
      BY DEF InOrder
    <3>1. PICK k \in DOMAIN s :
             t[i] = s[k] /\ i <= k /\ k <= i + 1 /\ (k = i) = (i < o)
      BY <2>7
    <3>2. PICK m \in DOMAIN s :
             t[j] = s[m] /\ j <= m /\ m <= j + 1 /\ (m = j) = (j < o)
      BY <2>7
    <3>3. k < m
      BY <1>1, <2>6, <3>1, <3>2
    <3>4. QED
      BY <3>1, <3>2, <3>3 DEF InOrder
  <2>9. ASSUME NEW n \in Nat, Below(s, n) PROVE Below(t, n)
    BY <2>7, <2>9 DEF Below
  <2>10. ASSUME Names(s, keep) PROVE Names(t, keep)
    <3>1. PICK k \in DOMAIN s : s[k].tok = keep
      BY <2>10 DEF Names
    <3>2. k # o /\ k \in 1..(Cap + 1) /\ o \in 1..(Cap + 1)
      BY <1>1, <2>3, <2>4, <3>1
    <3>3. CASE k < o
      <4>1. k \in 1..Cap /\ t[k] = s[k]
        BY <1>1, <2>5, <3>2, <3>3
      <4>2. QED
        BY <2>6, <3>1, <4>1 DEF Names
    <3>4. CASE o < k
      <4>1. k - 1 \in 1..Cap /\ ~(k - 1 < o)
        BY <1>1, <3>2, <3>4
      <4>2. t[k - 1] = s[(k - 1) + 1]
        BY <2>5, <4>1
      <4>3. (k - 1) + 1 = k
        BY <3>2
      <4>4. QED
        BY <2>6, <3>1, <4>1, <4>2, <4>3 DEF Names
    <3>5. QED
      BY <3>2, <3>3, <3>4
  <2>11. \A n \in Nat : Below(s, n) => Below(t, n)
    BY <2>9
  <2>12. t \in Seq(Card) /\ Len(t) <= Cap
    BY <1>1, <2>5
  <2>13. QED
    BY <2>8, <2>10, <2>11, <2>12 DEF t
<1>4. QED
  BY <1>2, <1>3

-----------------------------------------------------------------------------
(* What the steps do to the table                                          *)

TableInv ==
    /\ cards \in Seq(Card) /\ Len(cards) <= Cap
    /\ InOrder(cards) /\ Below(cards, minted)
    /\ minted \in Nat /\ expired \subseteq Tokens

(* create_query_result: the new card is the last, and the one to keep      *)
(* stays.                                                                  *)
LEMMA Created ==
    ASSUME TableInv, NEW w \in Words, NEW keep, Create(w, keep),
           text \in AnyText, minted + 1 \in Tokens
    PROVE  TableInv' /\ (HasCard(keep) => HasCard(keep)')
<1> DEFINE s == Append(cards, NewCard(w))
<1>1. NewCard(w) \in Card /\ NewCard(w).tok = minted + 1
  BY DEF NewCard, Card
<1>2. /\ cards \in Seq(Card) /\ Len(cards) \in Nat /\ Len(cards) <= Cap
      /\ minted \in Nat
  BY DEF TableInv
<1>3. /\ s \in Seq(Card) /\ Len(s) = Len(cards) + 1
      /\ \A i \in 1..Len(cards) : s[i] = cards[i]
      /\ s[Len(cards) + 1] = NewCard(w)
  BY <1>1, <1>2, AppendProperties
<1> HIDE DEF s
<1>4. \A i \in DOMAIN s :
         \/ i \in DOMAIN cards /\ s[i] = cards[i]
         \/ i = Len(cards) + 1 /\ s[i].tok = minted + 1
  BY <1>1, <1>2, <1>3
<1>5. \A i \in DOMAIN cards : cards[i].tok \in Nat /\ cards[i].tok <= minted
  <2>1. \A i \in DOMAIN cards : cards[i] \in Card
    BY <1>2
  <2>2. QED
    BY <2>1, ConstantsAssumption DEF Card, Tokens, TableInv, Below
<1>6. InOrder(s)
  <2> SUFFICES ASSUME NEW i \in DOMAIN s, NEW j \in DOMAIN s, i < j
               PROVE  s[i].tok < s[j].tok
    BY DEF InOrder
  <2>1. i \in DOMAIN cards /\ s[i] = cards[i]
    BY <1>2, <1>3, <1>4
  <2>2. CASE j \in DOMAIN cards /\ s[j] = cards[j]
    BY <2>1, <2>2 DEF TableInv, InOrder
  <2>3. CASE s[j].tok = minted + 1
    BY <1>2, <1>5, <2>1, <2>3
  <2>4. QED
    BY <1>4, <2>2, <2>3
<1>7. Below(s, minted + 1)
  BY <1>2, <1>4, <1>5 DEF Below
<1>8. Names(cards, keep) => Names(s, keep)
  BY <1>2, <1>3 DEF Names
<1>9. /\ cards' = Capped(s, keep) /\ minted' = minted + 1
      /\ expired' = expired
  BY DEF Create, s
<1>10. Len(s) <= Cap + 1
  BY <1>2, <1>3, ConstantsAssumption
<1>11. /\ cards' \in Seq(Card) /\ Len(cards') <= Cap /\ InOrder(cards')
       /\ \A n \in Nat : Below(s, n) => Below(cards', n)
       /\ Names(s, keep) => Names(cards', keep)
  BY <1>3, <1>6, <1>9, <1>10, CappedTable
<1>12. Below(cards', minted')
  BY <1>2, <1>7, <1>9, <1>11
<1>13. TableInv'
  BY <1>2, <1>9, <1>11, <1>12 DEF TableInv, InOrder, Below
<1>14. HasCard(keep) => HasCard(keep)'
  BY <1>8, <1>11 DEF HasCard, Names
<1>15. QED
  BY <1>13, <1>14

(* The 30 days of the oldest card are over.                                *)
LEMMA Expired ==
    ASSUME TableInv, Expire
    PROVE  /\ TableInv'
           /\ \A t : HasCard(t) => HasCard(t)' \/ t \in expired'
           /\ expired \subseteq expired'
<1>1. cards \in Seq(Card) /\ cards # <<>> /\ cards' = Tail(cards)
  BY DEF TableInv, Expire
<1>2. /\ Head(cards) \in Card /\ cards' \in Seq(Card)
      /\ Len(cards') = Len(cards) - 1
      /\ \A i \in 1..Len(cards') : cards'[i] = cards[i + 1]
  BY <1>1, HeadTailProperties
<1>3. /\ Len(cards) \in Nat /\ Len(cards) >= 1 /\ Head(cards) = cards[1]
      /\ DOMAIN cards = 1..Len(cards)
  BY <1>1
<1>4. \A i \in DOMAIN cards' :
         i \in Nat /\ i + 1 \in DOMAIN cards /\ cards'[i] = cards[i + 1]
  BY <1>2, <1>3
<1>5. InOrder(cards)' /\ Below(cards, minted)'
  <2>1. minted' = minted
    BY DEF Expire
  <2>2. InOrder(cards) /\ Below(cards, minted)
    BY DEF TableInv
  <2>3. QED
    BY <1>4, <2>1, <2>2 DEF InOrder, Below
<1>6. expired' = expired \cup {cards[1].tok} /\ minted' = minted
  BY <1>3 DEF Expire
<1>7. TableInv'
  <2>1. cards[1].tok \in Tokens
    BY <1>2, <1>3 DEF Card
  <2>2. Len(cards') <= Cap
    BY <1>2, <1>3, ConstantsAssumption DEF TableInv
  <2>3. QED
    BY <1>2, <1>5, <1>6, <2>1, <2>2 DEF TableInv
<1>8. ASSUME NEW t, HasCard(t) PROVE HasCard(t)' \/ t \in expired'
  <2>1. PICK i \in DOMAIN cards : cards[i].tok = t
    BY <1>8 DEF HasCard
  <2>2. CASE i = 1
    BY <1>6, <2>1, <2>2
  <2>3. CASE i # 1
    <3>1. i - 1 \in DOMAIN cards' /\ cards'[i - 1] = cards[(i - 1) + 1]
      BY <1>2, <1>3, <2>3
    <3>2. (i - 1) + 1 = i
      BY <1>3
    <3>3. QED
      BY <2>1, <3>1, <3>2 DEF HasCard
  <2>4. QED
    BY <2>2, <2>3
<1>9. QED
  BY <1>6, <1>7, <1>8

(* mark_query_result_saved and clear_query_result_saved.                   *)
LEMMA Flagged ==
    ASSUME TableInv, Flag
    PROVE  TableInv' /\ \A t : HasCard(t) => HasCard(t)'
<1>1. /\ cards \in Seq(Card) /\ DOMAIN cards = 1..Len(cards)
      /\ Len(cards) \in Nat
  BY DEF TableInv
<1>2. /\ cards' = [i \in DOMAIN cards |->
                     IF cards[i].tok = tok
                     THEN [cards[i] EXCEPT !.saved = (word \in words)]
                     ELSE cards[i]]
      /\ UNCHANGED <<minted, expired>>
  BY DEF Flag
<1>3. \A c \in Card, b \in BOOLEAN :
         [c EXCEPT !.saved = b] \in Card /\ [c EXCEPT !.saved = b].tok = c.tok
  BY DEF Card
<1>4. \A i \in DOMAIN cards : cards'[i] \in Card /\ cards'[i].tok = cards[i].tok
  <2> SUFFICES ASSUME NEW i \in DOMAIN cards
               PROVE  cards'[i] \in Card /\ cards'[i].tok = cards[i].tok
    OBVIOUS
  <2>1. cards[i] \in Card
    BY <1>1
  <2>2. (word \in words) \in BOOLEAN
    OBVIOUS
  <2>3. [cards[i] EXCEPT !.saved = (word \in words)] \in Card
    BY <1>3, <2>1, <2>2
  <2>4. [cards[i] EXCEPT !.saved = (word \in words)].tok = cards[i].tok
    BY <1>3, <2>1, <2>2
  <2>5. QED
    BY <1>2, <2>1, <2>3, <2>4
<1>5. DOMAIN cards' = 1..Len(cards)
  BY <1>1, <1>2
<1>6. cards' \in Seq(Card) /\ Len(cards') = Len(cards)
  <2>1. cards' = [i \in 1..Len(cards) |-> cards'[i]]
    BY <1>1, <1>2
  <2>2. cards' \in [1..Len(cards) -> Card]
    BY <1>1, <1>4, <2>1
  <2>3. QED
    BY <1>1, <2>2
<1>7. QED
  BY <1>1, <1>2, <1>4, <1>5, <1>6 DEF TableInv, InOrder, Below, HasCard

-----------------------------------------------------------------------------
(* The types of the handler, of the quota and of the chat                  *)

(* The steps after which a handler may still store a card.                 *)
Minting == {"clear", "slot", "find", "reserve", "ai", "byword", "dedup",
            "alias", "store"}

(* The steps that use the card, and the word, the handler has read.        *)
WithToken == {"streak", "usage", "send", "dedup", "alias", "offer", "resend"}
WithWord  == {"toggle", "flag", "byword", "dedup", "alias", "store"}

HandlerTypes ==
    /\ pc \in PCs /\ cur \in Update \cup {Idle} /\ (pc = "idle") = (cur = Idle)
    /\ text \in AnyText /\ tok \in {0} \cup Tokens
    /\ word \in Words \cup {NoWord}
    /\ pc \in WithToken => tok \in Tokens
    /\ pc = "clear" /\ cur.kind = "reuse" => tok \in Tokens
    /\ pc \in WithWord => word \in Words

ChatTypes ==
    /\ words \subseteq Words
    /\ waiting \in BOOLEAN /\ pending \in BOOLEAN /\ billed \in BOOLEAN
    /\ shown \subseteq Tokens
    /\ offers \in Seq([tok : Tokens, buttons : BOOLEAN])

QuotaTypes ==
    /\ day \in Days /\ count \in 0..Limit /\ date \in {0} \cup Days
    /\ held \in {0} \cup Days
    /\ delivered \in [Days -> Nat] /\ forfeited \in [Days -> Nat]

(* Every card that is stored stands for an update that has arrived, or for *)
(* a crash that had one handled again.                                     *)
Budget ==
    /\ inbox \in Seq(Update)
    /\ updates \in 0..MaxUpdates /\ faults \in 0..MaxFaults
    /\ minted + Len(inbox) <= updates + faults
    /\ pc \in Minting => minted + Len(inbox) + 1 <= updates + faults

TypeInv == TableInv /\ HandlerTypes /\ ChatTypes /\ QuotaTypes /\ Budget

LEMMA Bounds ==
    /\ Limit \in Nat /\ Cap \in Nat /\ MaxDays \in Nat /\ 1 <= MaxDays
    /\ QueueSize \in Nat /\ MaxUpdates \in Nat /\ MaxFaults \in Nat
    /\ MenuText \in AnyText /\ CancelText \in AnyText
BY ConstantsAssumption DEF AnyText

(* What the kinds of updates carry.                                        *)
LEMMA Updates ==
    /\ \A u \in Update : u # Idle /\ (u.kind = "text" => u.text \in AnyText)
    /\ \A t \in AnyText : [kind |-> "text", text |-> t] \in Update
    /\ \A t \in Tokens : [kind |-> "add", tok |-> t] \in Update
    /\ \A o \in Offers, k \in {"new", "reuse", "cancel"} :
          [kind |-> k, offer |-> o] \in Update
<1>1. ASSUME NEW u \in Update
      PROVE  u.kind # "none" /\ (u.kind = "text" => u.text \in AnyText)
  <2>1. CASE u \in [kind : {"text"}, text : AnyText]
    BY <2>1
  <2>2. CASE u \in [kind : {"add"}, tok : Tokens]
    BY <2>2
  <2>3. CASE u \in [kind : {"new", "reuse", "cancel"}, offer : Offers]
    BY <2>3
  <2>4. QED
    BY <2>1, <2>2, <2>3 DEF Update
<1>2. Idle.kind = "none"
  BY DEF Idle
<1>3. \A t \in AnyText : [kind |-> "text", text |-> t] \in Update
  BY DEF Update
<1>4. \A t \in Tokens : [kind |-> "add", tok |-> t] \in Update
  BY DEF Update
<1>5. \A o \in Offers, k \in {"new", "reuse", "cancel"} :
         [kind |-> k, offer |-> o] \in Update
  BY DEF Update
<1>6. QED
  BY <1>1, <1>2, <1>3, <1>4, <1>5

LEMMA TokenLeft ==
    ASSUME TableInv, Budget, pc \in Minting
    PROVE  minted + 1 \in Tokens
<1>1. minted \in Nat /\ Len(inbox) \in Nat
  BY DEF TableInv, Budget
<1>2. minted + Len(inbox) + 1 <= updates + faults
      /\ updates \in 0..MaxUpdates /\ faults \in 0..MaxFaults
  BY DEF Budget
<1>3. minted + 1 <= MaxUpdates + MaxFaults
  BY <1>1, <1>2, Bounds
<1>4. QED
  BY <1>1, <1>3, Bounds DEF Tokens

(* Every token is the name of a stored card, or past.                      *)
LEMMA CardRead ==
    ASSUME TableInv, NEW t, HasCard(t)
    PROVE  /\ t \in Tokens
           /\ CardOf(t).word \in Words /\ CardOf(t).text \in AnyText
<1> DEFINE c == CHOOSE i \in DOMAIN cards : cards[i].tok = t
<1>1. c \in DOMAIN cards /\ cards[c].tok = t
  BY DEF HasCard
<1>2. cards[c] \in Card
  BY <1>1 DEF TableInv
<1>3. QED
  BY <1>1, <1>2 DEF CardOf, Card

(* The table of cards is written by four steps.                            *)
LEMMA TableSteps ==
    ASSUME [Next]_vars
    PROVE  UNCHANGED results \/ Alias \/ Store \/ Expire \/ Flag
<1>1. CASE Take \/ Throttled \/ Invalid \/ Valid \/ Find \/ Reserve
           \/ Exhausted \/ Generate
  BY <1>1 DEF Take, Throttled, Invalid, Valid, Find, Reserve, Exhausted,
     Generate
<1>2. CASE GenerateFails \/ ByWord \/ Refund \/ RefundDuplicate \/ Streak
           \/ Usage \/ SendCard \/ Undo \/ Reply \/ MakeOffer
  BY <1>2 DEF GenerateFails, ByWord, Refund, RefundDuplicate, Streak, Usage,
     SendCard, Undo, Reply, MakeOffer
<1>3. CASE Clear \/ Resend \/ Toggle \/ Fail
  BY <1>3 DEF Clear, Resend, Toggle, Fail, AliasFails, PersistFails,
     SendCardFails, Raises, Crash
<1>4. CASE (\E u : Arrives(u)) \/ Midnight \/ UNCHANGED vars
  BY <1>4 DEF Arrives, Midnight, vars
<1>5. QED
  BY <1>1, <1>2, <1>3, <1>4 DEF Next, Handle, Environment, Type, TapAdd,
     TapOffer

LEMMA TableStep ==
    ASSUME TypeInv, [Next]_vars
    PROVE  TableInv'
<1>1. CASE UNCHANGED results
  BY <1>1 DEF TypeInv, TableInv, results, InOrder, Below
<1>2. CASE Alias \/ Store
  <2>1. minted + 1 \in Tokens
    BY <1>2, TokenLeft DEF TypeInv, Alias, Store, Minting
  <2>2. word \in Words /\ text \in AnyText
    BY <1>2 DEF TypeInv, HandlerTypes, WithWord, Alias, Store
  <2>3. Create(word, tok) \/ Create(word, 0)
    BY <1>2 DEF Alias, Store
  <2>4. QED
    BY <2>1, <2>2, <2>3, Created DEF TypeInv
<1>3. CASE Expire
  BY <1>3, Expired DEF TypeInv
<1>4. CASE Flag
  BY <1>4, Flagged DEF TypeInv
<1>5. QED
  BY <1>1, <1>2, <1>3, <1>4, TableSteps

-----------------------------------------------------------------------------
(* The handler                                                             *)

LEMMA TakeTypes ==
    ASSUME TypeInv, Take
    PROVE  HandlerTypes'
<1> DEFINE u == Head(inbox)
<1>1. u \in Update /\ u # Idle /\ (u.kind = "text" => u.text \in AnyText)
  <2>1. inbox \in Seq(Update) /\ inbox # <<>>
    BY DEF Take, TypeInv, Budget
  <2>2. u \in Update
    BY <2>1, HeadTailProperties
  <2>3. QED
    BY <2>2, Updates
<1>2. /\ pc = "idle" /\ HandlerTypes
      /\ TakeAnswer(u) \/ TakeCancel(u) \/ TakeMenu(u) \/ TakeOther(u)
         \/ TakeAdd(u) \/ TakeOffer(u) \/ TakeDecline(u)
  BY DEF Take, TypeInv
<1> HIDE DEF u
<1>3. CASE TakeAnswer(u)
  BY <1>1, <1>2, <1>3 DEF TakeAnswer, HandlerTypes, PCs, WithToken, WithWord
<1>4. CASE UNCHANGED handler
  BY <1>2, <1>4 DEF handler, HandlerTypes
<1>5. CASE TakeAdd(u) /\ HasCard(u.tok)
  <2>1. u.tok \in Tokens /\ CardOf(u.tok).word \in Words
    BY <1>5, CardRead DEF TypeInv
  <2>2. pc' = "toggle" /\ cur' = u /\ tok' = u.tok /\ text' = text
        /\ word' = CardOf(u.tok).word
    BY <1>5 DEF TakeAdd
  <2>3. QED
    BY <1>1, <1>2, <2>1, <2>2 DEF HandlerTypes, PCs, WithToken, WithWord
<1>6. CASE TakeOffer(u) /\ HasCard(offers[u.offer].tok)
  <2> DEFINE t == offers[u.offer].tok
  <2>1. t \in Tokens /\ CardOf(t).text \in AnyText
    BY <1>6, CardRead DEF TypeInv
  <2>2. pc' = "clear" /\ cur' = u /\ tok' = t /\ text' = CardOf(t).text
        /\ word' = word
    BY <1>6 DEF TakeOffer
  <2> HIDE DEF t
  <2>3. QED
    BY <1>1, <1>2, <2>1, <2>2 DEF HandlerTypes, PCs, WithToken, WithWord
<1>7. CASE TakeDecline(u)
  <2>1. /\ pc' = "clear" /\ cur' = u /\ UNCHANGED <<text, tok, word>>
        /\ u.kind # "reuse"
    BY <1>7 DEF TakeDecline
  <2>2. QED
    BY <1>1, <1>2, <2>1 DEF HandlerTypes, PCs, WithToken, WithWord
<1>8. QED
  BY <1>2, <1>3, <1>4, <1>5, <1>6, <1>7 DEF TakeCancel, TakeMenu, TakeOther,
     TakeAdd, TakeOffer

(* A handler that ends.                                                    *)
LEMMA StopTypes ==
    ASSUME Stop
    PROVE  HandlerTypes' /\ billed' = FALSE
BY Bounds DEF Stop, HandlerTypes, PCs, WithToken, WithWord

(* The steps that only move on.                                            *)
LEMMA MoveTypes ==
    ASSUME HandlerTypes, NEW step \in PCs \ {"idle", "clear"}, Becomes(step),
           pc # "idle",
           step \in WithToken => pc \in WithToken
                                 \/ (pc = "clear" /\ cur.kind = "reuse"),
           step \in WithWord => pc \in WithWord
    PROVE  HandlerTypes'
BY DEF HandlerTypes, Becomes

LEMMA HandlerStep ==
    ASSUME TypeInv, [Next]_vars
    PROVE  HandlerTypes'
<1>1. HandlerTypes
  BY DEF TypeInv
<1>2. CASE Take
  BY <1>2, TakeTypes
<1>3. CASE Throttled \/ Invalid \/ Valid \/ Exhausted \/ GenerateFails
  BY <1>1, <1>3, MoveTypes DEF Throttled, Invalid, Valid, Exhausted,
     GenerateFails, PCs, WithToken, WithWord
<1>4. CASE Refund \/ RefundDuplicate \/ Streak \/ Usage \/ Resend \/ Toggle
  BY <1>1, <1>4, MoveTypes DEF Refund, RefundDuplicate, Streak, Usage, Resend,
     Toggle, PCs, WithToken, WithWord
<1>5. CASE Reserve \/ Alias \/ AliasFails \/ PersistFails \/ SendCardFails
  BY <1>1, <1>5, MoveTypes DEF Reserve, Alias, AliasFails, PersistFails,
     SendCardFails, PCs, WithToken, WithWord
<1>6. CASE Find
  <2>1. CASE \E t \in Tokens : pc' = "offer" /\ tok' = t
                               /\ UNCHANGED <<cur, text, word, billed>>
    BY <1>1, <1>6, <2>1 DEF Find, HandlerTypes, PCs, WithToken, WithWord
  <2>2. CASE Becomes("reserve")
    BY <1>1, <1>6, <2>2, MoveTypes DEF Find, PCs, WithToken, WithWord
  <2>3. QED
    BY <1>6, <2>1, <2>2 DEF Find
<1>7. CASE ByWord
  <2>1. CASE \E t \in Tokens : pc' = "dedup" /\ tok' = t
                               /\ UNCHANGED <<cur, text, word, billed>>
    BY <1>1, <1>7, <2>1 DEF ByWord, HandlerTypes, PCs, WithToken, WithWord
  <2>2. CASE Becomes("store")
    BY <1>1, <1>7, <2>2, MoveTypes DEF ByWord, PCs, WithToken, WithWord
  <2>3. QED
    BY <1>7, <2>1, <2>2 DEF ByWord
<1>8. CASE Generate
  <2>1. /\ word' \in Words /\ UNCHANGED <<cur, text, tok>>
        /\ pc = "ai" /\ pc' \in {"store", "byword"}
    BY <1>8 DEF Generate
  <2>2. QED
    BY <1>1, <2>1 DEF HandlerTypes, PCs, WithToken, WithWord
<1>9. CASE Store
  <2>1. minted + 1 \in Tokens
    BY <1>9, TokenLeft DEF TypeInv, Store, Minting
  <2>2. /\ pc = "store" /\ pc' = "streak" /\ tok' = minted + 1
        /\ UNCHANGED <<cur, text, word>>
    BY <1>9 DEF Store
  <2>3. QED
    BY <1>1, <2>1, <2>2 DEF HandlerTypes, PCs, WithToken, WithWord
<1>10. CASE SendCard
  <2>1. pc = "send" /\ pc' = "reply" /\ UNCHANGED <<cur, text, tok, word>>
    BY <1>10 DEF SendCard
  <2>2. QED
    BY <1>1, <2>1 DEF HandlerTypes, PCs, WithToken, WithWord
<1>11. CASE Clear
  <2>1. CASE cur.kind = "new" /\ Becomes("slot")
    BY <1>1, <1>11, <2>1, MoveTypes DEF Clear, PCs, WithToken, WithWord
  <2>2. CASE cur.kind = "reuse" /\ Becomes("resend")
    BY <1>1, <1>11, <2>2, MoveTypes DEF Clear, PCs, WithToken, WithWord
  <2>3. CASE Stop
    BY <2>3, StopTypes
  <2>4. QED
    BY <1>11, <2>1, <2>2, <2>3 DEF Clear
<1>12. CASE Undo \/ Reply \/ MakeOffer \/ Flag \/ Raises \/ Crash
  <2>1. Stop
    BY <1>12 DEF Undo, Reply, MakeOffer, Flag, Raises, Crash, Finish, Restore
  <2>2. QED
    BY <2>1, StopTypes
<1>13. CASE (\E u : Arrives(u)) \/ Midnight \/ Expire \/ UNCHANGED vars
  <2>1. UNCHANGED handler
    BY <1>13 DEF Arrives, Midnight, Expire, vars
  <2>2. QED
    BY <1>1, <2>1 DEF HandlerTypes, handler
<1>14. QED
  BY <1>2, <1>3, <1>4, <1>5, <1>6, <1>7, <1>8, <1>9, <1>10, <1>11, <1>12,
     <1>13, NextCases DEF Plain

-----------------------------------------------------------------------------
(* The quota, the chat, the queue                                          *)

(* A settlement goes to the day it was reserved on.                        *)
LEMMA Charged ==
    ASSUME NEW f \in [Days -> Nat], NEW d
    PROVE  [f EXCEPT ![d] = @ + 1] \in [Days -> Nat]
<1> DEFINE g == [f EXCEPT ![d] = @ + 1]
<1>1. g = [e \in Days |-> IF e = d THEN f[e] + 1 ELSE f[e]]
  OBVIOUS
<1>2. \A e \in Days : f[e] \in Nat /\ f[e] + 1 \in Nat
  OBVIOUS
<1>3. QED
  BY <1>1, <1>2

LEMMA QuotaStep ==
    ASSUME TypeInv, [Next]_vars
    PROVE  QuotaTypes'
<1>1. QuotaTypes /\ Limit \in Nat /\ MaxDays \in Nat
  BY Bounds DEF TypeInv
<1>2. CASE UNCHANGED quota
  BY <1>1, <1>2 DEF QuotaTypes, quota
<1>3. CASE Reserve
  <2>1. /\ Spent < Limit /\ count' = Spent + 1 /\ date' = day /\ held' = day
        /\ UNCHANGED <<day, delivered, forfeited>>
    BY <1>3 DEF Reserve, Asks
  <2>2. Spent \in Nat
    BY <1>1 DEF Spent, QuotaTypes
  <2>3. count' \in 0..Limit
    BY <1>1, <2>1, <2>2
  <2>4. QED
    BY <1>1, <2>1, <2>3 DEF QuotaTypes
<1>4. CASE Refund \/ RefundDuplicate \/ Undo
  <2>1. /\ count' = IF date = day /\ count > 0 THEN count - 1 ELSE count
        /\ held' = 0 /\ UNCHANGED <<day, date, delivered, forfeited>>
    BY <1>4 DEF Refund, RefundDuplicate, Undo, Release, Asks
  <2>2. count' \in 0..Limit
    BY <1>1, <2>1 DEF QuotaTypes
  <2>3. QED
    BY <1>1, <2>1, <2>2 DEF QuotaTypes
<1>5. CASE SendCard
  <2>1. /\ delivered' = [delivered EXCEPT ![held] = @ + 1] /\ held' = 0
        /\ UNCHANGED <<day, count, date, forfeited>>
    BY <1>5 DEF SendCard, Asks
  <2>2. delivered' \in [Days -> Nat]
    BY <1>1, <2>1, Charged DEF QuotaTypes
  <2>3. QED
    BY <1>1, <2>1, <2>2 DEF QuotaTypes
<1>6. CASE Raises \/ Crash
  <2>1. /\ held' = 0
        /\ \/ forfeited' = forfeited
           \/ forfeited' = [forfeited EXCEPT ![held] = @ + 1]
        /\ UNCHANGED <<day, count, date, delivered>>
    BY <1>6 DEF Raises, Crash, Lose, Asks
  <2>2. forfeited' \in [Days -> Nat]
    BY <1>1, <2>1, Charged DEF QuotaTypes
  <2>3. QED
    BY <1>1, <2>1, <2>2 DEF QuotaTypes
<1>7. CASE Midnight
  <2>1. day < MaxDays /\ day' = day + 1
        /\ UNCHANGED <<count, date, held, delivered, forfeited>>
    BY <1>7 DEF Midnight, users
  <2>2. day' \in Days
    BY <1>1, <2>1 DEF QuotaTypes, Days
  <2>3. QED
    BY <1>1, <2>1, <2>2 DEF QuotaTypes
<1>8. QED
  <2>1. CASE Plain
    BY <1>2, <2>1, PlainSteps
  <2>2. CASE (\E u : Arrives(u)) \/ UNCHANGED vars
    BY <1>2, <2>2, ArrivalSteps DEF vars, users, quota
  <2>3. QED
    BY <1>3, <1>4, <1>5, <1>6, <1>7, <2>1, <2>2, NextCases

(* An offer more, an offer without its buttons.                            *)
Offered == [tok : Tokens, buttons : BOOLEAN]

LEMMA OfferMade ==
    ASSUME NEW s \in Seq(Offered), NEW t \in Tokens
    PROVE  Append(s, [tok |-> t, buttons |-> TRUE]) \in Seq(Offered)
<1>1. [tok |-> t, buttons |-> TRUE] \in Offered
  BY DEF Offered
<1>2. QED
  BY <1>1

LEMMA OfferCleared ==
    ASSUME NEW s \in Seq(Offered), NEW o
    PROVE  [s EXCEPT ![o].buttons = FALSE] \in Seq(Offered)
<1> DEFINE g == [s EXCEPT ![o].buttons = FALSE]
<1>1. /\ DOMAIN s = 1..Len(s) /\ Len(s) \in Nat
      /\ \A i \in 1..Len(s) : s[i] \in Offered
  OBVIOUS
<1>2. \A c \in Offered : [c EXCEPT !.buttons = FALSE] \in Offered
  BY DEF Offered
<1>3. g = [i \in 1..Len(s) |->
              IF i = o THEN [s[i] EXCEPT !.buttons = FALSE] ELSE s[i]]
  BY <1>1
<1> HIDE DEF g
<1>4. g \in [1..Len(s) -> Offered]
  BY <1>1, <1>2, <1>3
<1>5. QED
  BY <1>1, <1>4 DEF g

LEMMA ChatStep ==
    ASSUME TypeInv, [Next]_vars
    PROVE  ChatTypes'
<1>1. /\ words \subseteq Words /\ shown \subseteq Tokens
      /\ offers \in Seq(Offered)
      /\ waiting \in BOOLEAN /\ pending \in BOOLEAN /\ billed \in BOOLEAN
  BY DEF TypeInv, ChatTypes, Offered
<1>2. HandlerTypes
  BY DEF TypeInv
<1>3. words' \subseteq Words
  <2>1. CASE Toggle
    <3>1. word \in Words
      BY <1>2, <2>1 DEF Toggle, HandlerTypes, WithWord
    <3>2. QED
      BY <1>1, <2>1, <3>1 DEF Toggle
  <2>2. CASE ~Toggle
    <3>1. words' = words
      BY <2>2, NextCases DEF Plain, Asks, Take, Throttled, Invalid, Valid,
         Find, Exhausted, Generate, GenerateFails, ByWord, Alias, AliasFails,
         Store, Streak, PersistFails, Usage, SendCardFails, Reply, MakeOffer,
         Clear, Resend, Flag, Expire, Arrives, Reserve, Refund,
         RefundDuplicate, Undo, SendCard, Raises, Crash, Midnight, vars
    <3>2. QED
      BY <1>1, <3>1
  <2>3. QED
    BY <2>1, <2>2
<1>4. shown' \subseteq Tokens
  <2>1. CASE SendCard \/ SendCardFails \/ Resend \/ Raises
    <3>1. \/ shown' = shown
          \/ shown' = shown \cup {tok} /\ (pc = "send" \/ pc = "resend")
      BY <2>1 DEF SendCard, SendCardFails, Resend, Raises, chat
    <3>2. pc = "send" \/ pc = "resend" => tok \in Tokens
      BY <1>2 DEF HandlerTypes, WithToken
    <3>3. QED
      BY <1>1, <3>1, <3>2
  <2>2. CASE ~(SendCard \/ SendCardFails \/ Resend \/ Raises)
    <3>1. shown' = shown
      BY <2>2, NextCases DEF Plain, Take, Throttled, Invalid, Valid,
         Find, Exhausted, Generate, GenerateFails, ByWord, Alias, AliasFails,
         Store, Streak, PersistFails, Usage, Reply, MakeOffer, Clear, Toggle,
         Flag, Expire, Arrives, Reserve, Refund, RefundDuplicate, Undo, Crash,
         Midnight, vars, chat
    <3>2. QED
      BY <1>1, <3>1
  <2>3. QED
    BY <2>1, <2>2
<1>5. offers' \in Seq(Offered)
  <2>1. CASE MakeOffer \/ Clear \/ Raises
    <3>1. /\ pc = "offer" => tok \in Tokens
          /\ \/ offers' = offers
             \/ /\ offers' = Append(offers, [tok |-> tok, buttons |-> TRUE])
                /\ pc = "offer"
             \/ offers' = [offers EXCEPT ![cur.offer].buttons = FALSE]
      BY <1>2, <2>1 DEF MakeOffer, Clear, Raises, chat, HandlerTypes, WithToken
    <3>2. QED
      BY <1>1, <3>1, OfferMade, OfferCleared
  <2>2. CASE ~(MakeOffer \/ Clear \/ Raises)
    <3>1. offers' = offers
      BY <2>2, NextCases DEF Plain, Take, Throttled, Invalid, Valid,
         Find, Exhausted, Generate, GenerateFails, ByWord, Alias, AliasFails,
         Store, Streak, PersistFails, Usage, SendCardFails, SendCard, Resend,
         Reply, Toggle, Flag, Expire, Arrives, Reserve, Refund,
         RefundDuplicate, Undo, Crash, Midnight, vars, chat
    <3>2. QED
      BY <1>1, <3>1
  <2>3. QED
    BY <2>1, <2>2
<1>6. waiting' \in BOOLEAN /\ pending' \in BOOLEAN /\ billed' \in BOOLEAN
  <2>1. CASE Take
    <3>1. (Spent < Limit) \in BOOLEAN
      OBVIOUS
    <3>2. waiting' \in BOOLEAN
      BY <1>1, <2>1, <3>1 DEF Take, TakeAnswer, TakeCancel, TakeMenu,
         TakeOther, TakeAdd, TakeOffer, TakeDecline, data
    <3>3. (pending' = pending \/ pending' = TRUE) /\ billed' = billed
      BY <2>1 DEF Take, TakeAnswer, TakeCancel, TakeMenu, TakeOther, TakeAdd,
         TakeOffer, TakeDecline, handler, data
    <3>4. QED
      BY <1>1, <3>2, <3>3
  <2>2. CASE Throttled \/ Invalid \/ Valid \/ Find \/ Exhausted \/ Generate
             \/ GenerateFails \/ ByWord \/ Alias \/ AliasFails \/ Store
    BY <1>1, <2>2 DEF Throttled, Invalid, Valid, Find, Exhausted, Generate,
       GenerateFails, ByWord, Alias, AliasFails, Store, Becomes, data
  <2>3. CASE Streak \/ PersistFails \/ Usage \/ SendCardFails \/ Resend
             \/ Toggle \/ Reserve \/ Refund \/ RefundDuplicate \/ SendCard
    BY <1>1, <2>3 DEF Streak, PersistFails, Usage, SendCardFails, Resend,
       Toggle, Reserve, Refund, RefundDuplicate, SendCard, Becomes, data
  <2>4. CASE Reply \/ MakeOffer \/ Clear \/ Flag \/ Undo \/ Raises \/ Crash
    <3>1. /\ waiting' \in {waiting, FALSE, waiting \/ pending}
          /\ pending' \in {pending, FALSE} /\ billed' \in {billed, FALSE}
      BY <2>4 DEF Reply, MakeOffer, Clear, Flag, Undo, Raises, Crash, Finish,
         Restore, Stop, Becomes, data
    <3>2. QED
      BY <1>1, <3>1
  <2>5. CASE (\E u : Arrives(u)) \/ Midnight \/ Expire \/ UNCHANGED vars
    BY <1>1, <2>5 DEF Arrives, Midnight, Expire, vars, data, handler
  <2>6. QED
    BY <2>1, <2>2, <2>3, <2>4, <2>5, NextCases DEF Plain
<1>7. QED
  BY <1>3, <1>4, <1>5, <1>6 DEF ChatTypes, Offered

(* What arrives is an update.                                              *)
LEMMA ArrivalTypes ==
    ASSUME Environment
    PROVE  (\E u \in Update : Arrives(u)) \/ Midnight \/ Expire
BY Updates DEF Environment, Type, TapAdd, TapOffer

LEMMA BudgetStep ==
    ASSUME TypeInv, [Next]_vars
    PROVE  Budget'
<1>1. /\ inbox \in Seq(Update) /\ Len(inbox) \in Nat /\ minted \in Nat
      /\ updates \in 0..MaxUpdates /\ faults \in 0..MaxFaults
      /\ minted + Len(inbox) <= updates + faults
      /\ pc \in Minting => minted + Len(inbox) + 1 <= updates + faults
  BY DEF TypeInv, Budget, TableInv
<1>2. MaxUpdates \in Nat /\ MaxFaults \in Nat
  BY Bounds
<1>3. CASE Take
  <2>1. /\ inbox' = Tail(inbox) /\ inbox # <<>>
        /\ UNCHANGED <<minted, updates, faults>>
    BY <1>3 DEF Take, results
  <2>2. inbox' \in Seq(Update) /\ Len(inbox') = Len(inbox) - 1
    BY <1>1, <2>1, HeadTailProperties
  <2>3. QED
    BY <1>1, <2>1, <2>2 DEF Budget
<1>4. CASE Environment
  <2>1. CASE \E u \in Update : Arrives(u)
    <3>1. PICK u \in Update : Arrives(u)
      BY <2>1
    <3>2. /\ inbox' = Append(inbox, u) /\ updates' = updates + 1
          /\ updates < MaxUpdates /\ UNCHANGED <<minted, faults, pc>>
      BY <3>1 DEF Arrives, results, handler
    <3>3. inbox' \in Seq(Update) /\ Len(inbox') = Len(inbox) + 1
      BY <1>1, <3>2, AppendProperties
    <3>4. QED
      BY <1>1, <1>2, <3>2, <3>3 DEF Budget
  <2>2. CASE Midnight \/ Expire
    <3>1. UNCHANGED <<inbox, minted, updates, faults, pc>>
      BY <2>2 DEF Midnight, Expire, results, handler, learner
    <3>2. QED
      BY <1>1, <3>1 DEF Budget
  <2>3. QED
    BY <1>4, <2>1, <2>2, ArrivalTypes
<1>5. CASE Alias \/ Store
  <2>1. /\ pc \in Minting /\ pc' \notin Minting /\ minted' = minted + 1
        /\ UNCHANGED <<inbox, updates, faults>>
    BY <1>5 DEF Alias, Store, Create, Becomes, Asks, learner, Minting
  <2>2. QED
    BY <1>1, <2>1 DEF Budget
<1>6. CASE Crash
  <2>1. /\ faults < MaxFaults /\ faults' = faults + 1 /\ pc' = "idle"
        /\ UNCHANGED <<minted, updates>>
    BY <1>6 DEF Crash, Costs, Stop, results
  <2>2. \/ inbox' = <<>>
        \/ inbox' = inbox
        \/ pc # "idle" /\ inbox' = <<cur>> \o inbox
    BY <1>6 DEF Crash
  <2>3. pc' \notin Minting
    BY <2>1 DEF Minting
  <2>4. inbox' \in Seq(Update) /\ Len(inbox') \in Nat
        /\ Len(inbox') <= Len(inbox) + 1
    <3>1. CASE inbox' = inbox
      BY <1>1, <3>1
    <3>2. CASE inbox' = <<>>
      <4>1. <<>> \in Seq(Update) /\ Len(<<>>) = 0
        OBVIOUS
      <4>2. QED
        BY <1>1, <3>2, <4>1
    <3>3. CASE pc # "idle" /\ inbox' = <<cur>> \o inbox
      <4>1. cur \in Update
        BY <3>3 DEF TypeInv, HandlerTypes
      <4>2. <<cur>> \in Seq(Update) /\ Len(<<cur>>) = 1
        BY <4>1
      <4>3. inbox' \in Seq(Update) /\ Len(inbox') = 1 + Len(inbox)
        BY <1>1, <3>3, <4>2, ConcatProperties
      <4>4. QED
        BY <1>1, <4>3
    <3>4. QED
      BY <2>2, <3>1, <3>3, <3>2
  <2>5. QED
    BY <1>1, <1>2, <2>1, <2>3, <2>4 DEF Budget
<1>7. CASE AliasFails \/ PersistFails \/ SendCardFails \/ Raises
  <2>1. /\ faults < MaxFaults /\ faults' = faults + 1
        /\ UNCHANGED <<inbox, minted, updates>> /\ pc' \notin Minting
    BY <1>7 DEF AliasFails, PersistFails, SendCardFails, Raises, Costs, Asks,
       Restore, Stop, Becomes, results, learner, Minting
  <2>2. QED
    BY <1>1, <1>2, <2>1 DEF Budget
<1>8. CASE Handle /\ ~(Take \/ Alias \/ Store)
  <2>1. UNCHANGED <<inbox, minted, updates, faults>>
    <3>1. CASE Throttled \/ Invalid \/ Valid \/ Find \/ Reserve \/ Exhausted
               \/ Generate \/ GenerateFails
      BY <3>1 DEF Throttled, Invalid, Valid, Find, Reserve, Exhausted,
         Generate, GenerateFails, Asks, results, learner
    <3>2. CASE ByWord \/ Refund \/ RefundDuplicate \/ Streak \/ Usage
               \/ SendCard \/ Undo \/ Reply
      BY <3>2 DEF ByWord, Refund, RefundDuplicate, Streak, Usage, SendCard,
         Undo, Reply, Asks, results, learner
    <3>3. CASE MakeOffer \/ Clear \/ Resend \/ Toggle \/ Flag
      BY <3>3 DEF MakeOffer, Clear, Resend, Toggle, Flag, Asks, results,
         learner
    <3>4. QED
      BY <1>8, <3>1, <3>2, <3>3 DEF Handle
  <2>2. pc' \in Minting => pc \in Minting
    <3>1. CASE Throttled \/ Invalid \/ Valid \/ Find \/ Reserve \/ Exhausted
               \/ Generate \/ GenerateFails
      BY <3>1 DEF Throttled, Invalid, Valid, Find, Reserve, Exhausted,
         Generate, GenerateFails, Becomes, Minting
    <3>2. CASE ByWord \/ Refund \/ RefundDuplicate \/ Streak \/ Usage
               \/ SendCard \/ Undo \/ Reply
      BY <3>2 DEF ByWord, Refund, RefundDuplicate, Streak, Usage, SendCard,
         Undo, Reply, Becomes, Finish, Restore, Stop, Minting
    <3>3. CASE MakeOffer \/ Clear \/ Resend \/ Toggle \/ Flag
      BY <3>3 DEF MakeOffer, Clear, Resend, Toggle, Flag, Becomes, Finish,
         Stop, Minting
    <3>4. QED
      BY <1>8, <3>1, <3>2, <3>3 DEF Handle
  <2>3. QED
    BY <1>1, <2>1, <2>2 DEF Budget
<1>9. CASE UNCHANGED vars
  BY <1>1, <1>9 DEF vars, results, handler, learner, Budget
<1>10. QED
  BY <1>3, <1>4, <1>5, <1>6, <1>7, <1>8, <1>9 DEF Next, Fail

-----------------------------------------------------------------------------
(* Types                                                                   *)

LEMMA TypeInvInit == Init => TypeInv
<1> SUFFICES ASSUME Init PROVE TypeInv
  OBVIOUS
<1>1. TableInv
  BY Bounds DEF Init, TableInv, InOrder, Below
<1>2. HandlerTypes
  BY Bounds DEF Init, HandlerTypes, PCs, WithToken, WithWord
<1>3. ChatTypes
  <2>1. <<>> \in Seq([tok : Tokens, buttons : BOOLEAN])
    OBVIOUS
  <2>2. QED
    BY <2>1 DEF Init, ChatTypes
<1>4. QuotaTypes
  BY Bounds DEF Init, QuotaTypes, Days
<1>5. Budget
  BY Bounds DEF Init, Budget, Minting
<1>6. QED
  BY <1>1, <1>2, <1>3, <1>4, <1>5 DEF TypeInv

LEMMA TypeInvHolds == Spec => []TypeInv
<1>1. TypeInv /\ [Next]_vars => TypeInv'
  BY TableStep, HandlerStep, ChatStep, QuotaStep, BudgetStep DEF TypeInv
<1>2. QED
  BY <1>1, TypeInvInit, PTL DEF Spec

(* Every variable has its type, the table never holds more cards than the  *)
(* cap (_enforce_query_results_cap), and no token, offer or update is out  *)
(* of range, crashes and updates handled twice included.                   *)
THEOREM TypeCorrect == Spec => []TypeOK
<1>1. TypeInv => TypeOK
  <2> SUFFICES ASSUME TypeInv PROVE TypeOK
    OBVIOUS
  <2>1. minted \in {0} \cup Tokens
    <3>1. minted \in Nat /\ Len(inbox) \in Nat
          /\ minted + Len(inbox) <= updates + faults
          /\ updates \in 0..MaxUpdates /\ faults \in 0..MaxFaults
      BY DEF TypeInv, TableInv, Budget
    <3>2. minted <= MaxUpdates + MaxFaults
      BY <3>1, Bounds
    <3>3. QED
      BY <3>1, <3>2, Bounds DEF Tokens
  <2>2. QED
    BY <2>1 DEF TypeInv, TableInv, HandlerTypes, ChatTypes, QuotaTypes,
       Budget, TypeOK
<1>2. QED
  BY <1>1, TypeInvHolds, PTL

-----------------------------------------------------------------------------
(* An offer names a card that is there                                     *)

(* From the moment the duplicate is found until it is offered.             *)
OfferInv ==
    pc \in {"dedup", "alias", "offer"} => HasCard(tok) \/ tok \in expired

LEMMA OfferStep ==
    ASSUME TypeInv, OfferInv, [Next]_vars
    PROVE  OfferInv'
<1>1. TableInv /\ HandlerTypes
  BY DEF TypeInv
<1>2. CASE Find \/ ByWord
  <2>1. /\ UNCHANGED results
        /\ pc' \in {"dedup", "alias", "offer"} => HasCard(tok')
    BY <1>2 DEF Find, ByWord, Becomes, IsNewest, HasCard
  <2>2. QED
    BY <2>1 DEF OfferInv, HasCard, results
<1>3. CASE RefundDuplicate \/ AliasFails
  BY <1>3 DEF RefundDuplicate, AliasFails, Becomes, OfferInv, HasCard, results
<1>4. CASE Alias
  <2>1. /\ Create(word, tok) /\ tok' = tok /\ expired' = expired
        /\ HasCard(tok) \/ tok \in expired
    BY <1>4 DEF Alias, Create, Becomes, OfferInv
  <2>2. minted + 1 \in Tokens /\ word \in Words /\ text \in AnyText
    BY <1>1, <1>4, TokenLeft DEF TypeInv, Alias, Minting, HandlerTypes,
       WithWord
  <2>3. HasCard(tok) => HasCard(tok)'
    BY <1>1, <2>1, <2>2, Created
  <2>4. QED
    BY <2>1, <2>3 DEF OfferInv, HasCard
<1>5. CASE Expire
  <2>1. /\ UNCHANGED <<pc, tok>> /\ expired \subseteq expired'
        /\ HasCard(tok) => HasCard(tok)' \/ tok \in expired'
    BY <1>1, <1>5, Expired DEF Expire, handler
  <2>2. QED
    BY <2>1 DEF OfferInv, HasCard
<1>6. CASE UNCHANGED <<results, pc, tok>>
  BY <1>6 DEF OfferInv, HasCard, results
<1>7. CASE pc' \notin {"dedup", "alias", "offer"}
  BY <1>7 DEF OfferInv
<1>8. QED
  <2>1. CASE Take
    <3>1. UNCHANGED <<results, pc, tok>>
          \/ pc' \notin {"dedup", "alias", "offer"}
      BY <2>1 DEF Take, TakeAnswer, TakeCancel, TakeMenu, TakeOther, TakeAdd,
         TakeOffer, TakeDecline, handler
    <3>2. QED
      BY <1>6, <1>7, <3>1
  <2>2. CASE (\E u : Arrives(u)) \/ Midnight \/ UNCHANGED vars
    BY <1>6, <2>2 DEF Arrives, Midnight, vars, handler
  <2>3. CASE Throttled \/ Invalid \/ Valid \/ Exhausted \/ Generate
             \/ GenerateFails \/ Store \/ Streak \/ PersistFails \/ Usage
    BY <1>7, <2>3 DEF Throttled, Invalid, Valid, Exhausted, Generate,
       GenerateFails, Store, Streak, PersistFails, Usage, Becomes
  <2>4. CASE SendCardFails \/ Reply \/ MakeOffer \/ Clear \/ Resend \/ Toggle
             \/ Flag \/ Reserve \/ Refund \/ Undo \/ SendCard \/ Raises
             \/ Crash
    BY <1>7, <2>4 DEF SendCardFails, Reply, MakeOffer, Clear, Resend, Toggle,
       Flag, Reserve, Refund, Undo, SendCard, Raises, Crash, Becomes, Finish,
       Restore, Stop
  <2>5. QED
    BY <1>2, <1>3, <1>4, <1>5, <2>1, <2>2, <2>3, <2>4, NextCases DEF Plain

(* A retrieve-or-new offer names a card that is stored still, or has lived *)
(* its days: the alias stored on the way to it does not push that card out *)
(* of the table (exclude_token of the cap), whatever the cap.   *)
THEOREM OfferKept == Spec => []OfferIsLive
<1>1. Init => OfferInv
  BY DEF Init, OfferInv
<1>2. TypeInv /\ OfferInv /\ [Next]_vars => OfferInv'
  BY OfferStep
<1>3. OfferInv => OfferIsLive
  BY DEF OfferInv, OfferIsLive
<1>4. QED
  BY <1>1, <1>2, <1>3, TypeInvHolds, PTL DEF Spec
=============================================================================
