------------------------- MODULE QuotaLedgerProofs -------------------------
(* The quota ledger keeps to the limit, whatever the limit and the number  *)
(* of days.                                                                *)
EXTENDS QuotaLedger, TLAPS

(* What the accounts say of one day.                                       *)
LEMMA AccountsOf ==
    ASSUME Accounts, NEW d \in Days
    PROVE  /\ delivered[d] \in Nat /\ forfeited[d] \in Nat
           /\ delivered[d] + forfeited[d] + Held(d) <= Limit
           /\ d > today => delivered[d] = 0 /\ forfeited[d] = 0
           /\ Held(d) = IF open = d THEN 1 ELSE 0
BY DEF Accounts, TypeOK, Held

(* One step of the ledger keeps the accounts.                              *)
LEMMA AccountsStep ==
    ASSUME LedgerConstants
    PROVE  Accounts /\ [Next]_ledger => Accounts'
<1>1. SUFFICES ASSUME Accounts, [Next]_ledger PROVE Accounts'
  OBVIOUS
<1>2. /\ Limit \in Nat /\ MaxDays \in Nat
      /\ today \in Days /\ today \in Nat /\ spent \in 0..Limit
      /\ open \in {0} \cup Days /\ open <= today
      /\ delivered \in [Days -> Nat] /\ forfeited \in [Days -> Nat]
      /\ 0 \notin Days
  BY <1>1 DEF LedgerConstants, Accounts, TypeOK, Days
<1>3. /\ delivered[today] \in Nat /\ forfeited[today] \in Nat
      /\ spent = delivered[today] + forfeited[today] + (IF open = today THEN 1 ELSE 0)
  BY <1>1, <1>2, AccountsOf DEF Accounts, Balanced, Held
<1>4. CASE Reserve
  <2>1. TypeOK' /\ Balanced' /\ open' <= today'
    <3>1. spent' = spent + 1 /\ open' = today /\ today' = today /\ open # today
          /\ delivered' = delivered /\ forfeited' = forfeited /\ spent < Limit
      BY <1>2, <1>4 DEF Reserve
    <3>2. TypeOK'
      BY <1>2, <3>1 DEF TypeOK
    <3>3. Held(today)' = 1
      BY <3>1 DEF Held
    <3>4. Balanced'
      BY <1>2, <1>3, <3>1, <3>3 DEF Balanced, Held
    <3>5. QED
      BY <1>2, <3>1, <3>2, <3>4
  <2>2. ASSUME NEW d \in Days
        PROVE  /\ delivered'[d] + forfeited'[d] + Held(d)' <= Limit
               /\ d > today' => delivered'[d] = 0 /\ forfeited'[d] = 0
    <3>1. /\ delivered[d] \in Nat /\ forfeited[d] \in Nat
          /\ delivered[d] + forfeited[d] + (IF open = d THEN 1 ELSE 0) <= Limit
          /\ d > today => delivered[d] = 0 /\ forfeited[d] = 0
      BY <1>1, AccountsOf
    <3>2. d \in Nat
      BY <1>2 DEF Days
    <3>3. Held(d)' = IF open' = d THEN 1 ELSE 0
      BY DEF Held
    <3>4. QED
      BY <1>2, <1>3, <1>4, <3>1, <3>2, <3>3 DEF Reserve
  <2>3. QED
    BY <2>1, <2>2 DEF Accounts
<1>5. CASE Deliver
  <2>1. TypeOK' /\ Balanced' /\ open' <= today'
    <3>1. open' = 0 /\ open' # today /\ today' = today /\ spent' = spent
          /\ delivered' = [delivered EXCEPT ![open] = @ + 1] /\ forfeited' = forfeited
          /\ open \in Days
      BY <1>2, <1>5 DEF Deliver
    <3>2. delivered[open] \in Nat
      BY <1>2, <3>1
    <3>3. TypeOK'
      BY <1>2, <3>1, <3>2 DEF TypeOK
    <3>4. delivered'[today] = IF open = today THEN delivered[today] + 1 ELSE delivered[today]
      BY <1>2, <3>1
    <3>5. Held(today)' = 0
      BY <3>1 DEF Held
    <3>6. Balanced'
      BY <1>2, <1>3, <3>1, <3>4, <3>5 DEF Balanced, Held
    <3>7. QED
      BY <1>2, <3>1, <3>3, <3>6 DEF Days
  <2>2. ASSUME NEW d \in Days
        PROVE  /\ delivered'[d] + forfeited'[d] + Held(d)' <= Limit
               /\ d > today' => delivered'[d] = 0 /\ forfeited'[d] = 0
    <3>1. /\ delivered[d] \in Nat /\ forfeited[d] \in Nat
          /\ delivered[d] + forfeited[d] + (IF open = d THEN 1 ELSE 0) <= Limit
          /\ d > today => delivered[d] = 0 /\ forfeited[d] = 0
      BY <1>1, AccountsOf
    <3>2. d \in Nat
      BY <1>2 DEF Days
    <3>3. Held(d)' = IF open' = d THEN 1 ELSE 0
      BY DEF Held
    <3>4. QED
      BY <1>2, <1>3, <1>5, <3>1, <3>2, <3>3 DEF Deliver
  <2>3. QED
    BY <2>1, <2>2 DEF Accounts
<1>6. CASE Refund
  <2>1. TypeOK' /\ Balanced' /\ open' <= today'
    <3>1. /\ open \in Days /\ open' = 0 /\ today' = today
          /\ delivered' = delivered /\ forfeited' = forfeited
          /\ spent' = (IF open = today THEN spent - 1 ELSE spent)
      BY <1>2, <1>6 DEF Refund
    <3>2. delivered[today] \in Nat /\ forfeited[today] \in Nat
      BY <1>2
    <3>3. Held(today)' = 0
      BY <1>2, <3>1 DEF Held, Days
    <3>5. spent' = delivered[today] + forfeited[today] /\ spent' \in 0..Limit
      BY <1>2, <1>3, <3>1, <3>2
    <3>6. TypeOK'
      BY <1>2, <3>1, <3>5 DEF TypeOK
    <3>7. Balanced'
      BY <1>2, <3>1, <3>2, <3>3, <3>5 DEF Balanced
    <3>8. QED
      BY <1>2, <3>1, <3>6, <3>7 DEF Days
  <2>2. ASSUME NEW d \in Days
        PROVE  /\ delivered'[d] + forfeited'[d] + Held(d)' <= Limit
               /\ d > today' => delivered'[d] = 0 /\ forfeited'[d] = 0
    <3>1. /\ delivered[d] \in Nat /\ forfeited[d] \in Nat
          /\ delivered[d] + forfeited[d] + (IF open = d THEN 1 ELSE 0) <= Limit
          /\ d > today => delivered[d] = 0 /\ forfeited[d] = 0
      BY <1>1, AccountsOf
    <3>2. d \in Nat
      BY <1>2 DEF Days
    <3>3. Held(d)' = IF open' = d THEN 1 ELSE 0
      BY DEF Held
    <3>4. QED
      BY <1>2, <1>3, <1>6, <3>1, <3>2, <3>3 DEF Refund
  <2>3. QED
    BY <2>1, <2>2 DEF Accounts
<1>7. CASE Forfeit
  <2>1. TypeOK' /\ Balanced' /\ open' <= today'
    <3>1. open' = 0 /\ open' # today /\ today' = today /\ spent' = spent
          /\ forfeited' = [forfeited EXCEPT ![open] = @ + 1] /\ delivered' = delivered
          /\ open \in Days
      BY <1>2, <1>7 DEF Forfeit
    <3>2. forfeited[open] \in Nat
      BY <1>2, <3>1
    <3>3. TypeOK'
      BY <1>2, <3>1, <3>2 DEF TypeOK
    <3>4. forfeited'[today] = IF open = today THEN forfeited[today] + 1 ELSE forfeited[today]
      BY <1>2, <3>1
    <3>5. Held(today)' = 0
      BY <3>1 DEF Held
    <3>6. Balanced'
      BY <1>2, <1>3, <3>1, <3>4, <3>5 DEF Balanced, Held
    <3>7. QED
      BY <1>2, <3>1, <3>3, <3>6 DEF Days
  <2>2. ASSUME NEW d \in Days
        PROVE  /\ delivered'[d] + forfeited'[d] + Held(d)' <= Limit
               /\ d > today' => delivered'[d] = 0 /\ forfeited'[d] = 0
    <3>1. /\ delivered[d] \in Nat /\ forfeited[d] \in Nat
          /\ delivered[d] + forfeited[d] + (IF open = d THEN 1 ELSE 0) <= Limit
          /\ d > today => delivered[d] = 0 /\ forfeited[d] = 0
      BY <1>1, AccountsOf
    <3>2. d \in Nat
      BY <1>2 DEF Days
    <3>3. Held(d)' = IF open' = d THEN 1 ELSE 0
      BY DEF Held
    <3>4. QED
      BY <1>2, <1>3, <1>7, <3>1, <3>2, <3>3 DEF Forfeit
  <2>3. QED
    BY <2>1, <2>2 DEF Accounts
<1>8. CASE NextDay
  <2>1. TypeOK' /\ Balanced' /\ open' <= today'
    <3>1. today' = today + 1 /\ today' \in Days /\ spent' = 0 /\ open' = open
          /\ delivered' = delivered /\ forfeited' = forfeited
      BY <1>2, <1>8 DEF NextDay, Days
    <3>2. TypeOK'
      BY <1>2, <3>1 DEF TypeOK
    <3>3. delivered[today + 1] = 0 /\ forfeited[today + 1] = 0
      BY <1>1, <1>2, <3>1, AccountsOf
    <3>4. open # today'
      BY <1>2, <3>1 DEF Days
    <3>5. Balanced'
      BY <3>1, <3>3, <3>4 DEF Balanced, Held
    <3>6. QED
      BY <1>2, <3>1, <3>2, <3>5 DEF Days
  <2>2. ASSUME NEW d \in Days
        PROVE  /\ delivered'[d] + forfeited'[d] + Held(d)' <= Limit
               /\ d > today' => delivered'[d] = 0 /\ forfeited'[d] = 0
    <3>1. /\ delivered[d] \in Nat /\ forfeited[d] \in Nat
          /\ delivered[d] + forfeited[d] + (IF open = d THEN 1 ELSE 0) <= Limit
          /\ d > today => delivered[d] = 0 /\ forfeited[d] = 0
      BY <1>1, AccountsOf
    <3>2. d \in Nat
      BY <1>2 DEF Days
    <3>3. Held(d)' = IF open' = d THEN 1 ELSE 0
      BY DEF Held
    <3>4. QED
      BY <1>2, <1>3, <1>8, <3>1, <3>2, <3>3 DEF NextDay
  <2>3. QED
    BY <2>1, <2>2 DEF Accounts
<1>9. CASE UNCHANGED ledger
  BY <1>1, <1>9 DEF ledger, Accounts, TypeOK, Balanced, Held, Days
<1>10. QED
  BY <1>1, <1>4, <1>5, <1>6, <1>7, <1>8, <1>9 DEF Next

LEMMA AccountsInit ==
    ASSUME LedgerConstants
    PROVE  Init => Accounts
BY DEF LedgerConstants, Init, Accounts, TypeOK, Balanced, Held, Days

LEMMA AccountsImply ==
    ASSUME LedgerConstants
    PROVE  Accounts => WithinLimit /\ Balanced
<1>1. SUFFICES ASSUME Accounts PROVE WithinLimit /\ Balanced
  OBVIOUS
<1>2. Balanced
  BY <1>1 DEF Accounts
<1>3. ASSUME NEW d \in Days PROVE delivered[d] + forfeited[d] <= Limit
  <2>1. delivered[d] \in Nat /\ forfeited[d] \in Nat /\ Held(d) \in {0, 1}
    BY <1>1, <1>3 DEF Accounts, TypeOK, Held
  <2>2. delivered[d] + forfeited[d] + Held(d) <= Limit
    BY <1>1, <1>3 DEF Accounts
  <2>3. QED
    BY <2>1, <2>2 DEF LedgerConstants
<1>4. QED
  BY <1>2, <1>3 DEF WithinLimit

(* No day gives more answers than the plan allows, and the spent charges   *)
(* of a day are what it has to show for them.                              *)
THEOREM LedgerWithinLimit ==
    ASSUME LedgerConstants
    PROVE  SafeSpec => [](WithinLimit /\ Balanced)
<1>1. SafeSpec => []Accounts
  BY AccountsInit, AccountsStep, PTL DEF SafeSpec
<1>2. QED
  BY <1>1, AccountsImply, PTL
=============================================================================
