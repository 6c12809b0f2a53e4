--------------------------- MODULE AccountDO_proofs ---------------------------
(***************************************************************************)
(* Proofs about AccountDO, for every configuration of plans, prices, costs *)
(* and windows that ConfigAssumption admits.                               *)
(***************************************************************************)
EXTENDS AccountDO, TLAPS

-----------------------------------------------------------------------------
(***************************************************************************)
(* Proration.                                                              *)
(***************************************************************************)

\* A refund is never negative and never more than the price that was paid.
LEMMA RefundBounds ==
  ASSUME NEW price \in Nat, NEW period \in Nat \ {0}, NEW r \in Nat
  PROVE  ProratedRefund(price, period, r) \in 0..price
BY SMT DEF ProratedRefund, Smaller

\* The refund of an untouched period is the whole price.
LEMMA RefundFull ==
  ASSUME NEW price \in Nat, NEW period \in Nat \ {0}
  PROVE  ProratedRefund(price, period, period) = price
BY SMT DEF ProratedRefund, Smaller

\* The refund shrinks with the remaining time.
LEMMA RefundMonotone ==
  ASSUME NEW price \in Nat, NEW period \in Nat \ {0},
         NEW r \in Nat, NEW s \in Nat, r <= s
  PROVE  ProratedRefund(price, period, r) <= ProratedRefund(price, period, s)
BY SMT DEF ProratedRefund, Smaller

\* What a stored plan can be refunded for at any time.
LEMMA RefundAtType ==
  ASSUME NEW pl \in Plans \cup {None}, NEW end \in Nat, NEW t \in Nat
  PROVE  RefundAt(pl, end, t) \in Nat
<1>1. CASE pl # None /\ end > t
  <2>1. PricePoints[pl] \in Nat /\ PeriodSecs[pl] \in Nat \ {0} /\ end - t \in Nat
    BY <1>1, ConfigAssumption
  <2>2. ProratedRefund(PricePoints[pl], PeriodSecs[pl], end - t)
          \in 0..PricePoints[pl]
    BY <2>1, RefundBounds
  <2> QED BY <1>1, <2>1, <2>2 DEF RefundAt
<1>2. CASE ~(pl # None /\ end > t)
  BY <1>2 DEF RefundAt
<1> QED BY <1>1, <1>2

\* One second later it is no more.
LEMMA RefundAtDecays ==
  ASSUME NEW pl \in Plans \cup {None}, NEW end \in Nat, NEW t \in Nat
  PROVE  RefundAt(pl, end, t + 1) <= RefundAt(pl, end, t)
<1>1. RefundAt(pl, end, t) \in Nat
  BY RefundAtType
<1>2. CASE pl # None /\ end > t + 1
  <2>1. /\ PricePoints[pl] \in Nat /\ PeriodSecs[pl] \in Nat \ {0}
        /\ end - t \in Nat /\ end - (t + 1) \in Nat
        /\ end - (t + 1) <= end - t /\ end > t
    BY <1>2, ConfigAssumption
  <2>2. ProratedRefund(PricePoints[pl], PeriodSecs[pl], end - (t + 1))
          <= ProratedRefund(PricePoints[pl], PeriodSecs[pl], end - t)
    BY <2>1, RefundMonotone
  <2> QED BY <1>2, <2>1, <2>2 DEF RefundAt
<1>3. CASE ~(pl # None /\ end > t + 1)
  <2>1. RefundAt(pl, end, t + 1) = 0
    BY <1>3 DEF RefundAt
  <2> QED BY <1>1, <2>1
<1> QED BY <1>2, <1>3

\* A plan bought just now is worth its price.
LEMMA RefundAtPurchase ==
  ASSUME NEW pl \in Plans, NEW t \in Nat
  PROVE  RefundAt(pl, t + PeriodSecs[pl], t) = PricePoints[pl]
<1>1. PricePoints[pl] \in Nat /\ PeriodSecs[pl] \in Nat \ {0} /\ pl # None
  BY ConfigAssumption
<1>2. t + PeriodSecs[pl] > t /\ (t + PeriodSecs[pl]) - t = PeriodSecs[pl]
  BY <1>1
<1> QED BY <1>1, <1>2, RefundFull DEF RefundAt

-----------------------------------------------------------------------------
(***************************************************************************)
(* Types.                                                                  *)
(***************************************************************************)

LEMMA GrantedType == TypeOK => Granted \in Nat /\ Given \in Nat
BY ConfigAssumption DEF TypeOK, Granted, Given

LEMMA UsageType == TypeOK => Views \in Nat /\ Search \in Nat
BY DEF TypeOK, Views, Search

LEMMA RecordType ==
  ASSUME TypeOK, NEW p \in Paths, Record(p)
  PROVE  seen' \subseteq [day : Nat, path : Paths, at : Nat] /\ lastCharged' \in [Paths -> Nat]
<1>1. Today \in Nat
  BY ConfigAssumption DEF Today, TypeOK
<1>2. [day |-> Today, path |-> p, at |-> now] \in [day : Nat, path : Paths, at : Nat]
  BY <1>1 DEF TypeOK
<1>3. seen' \subseteq [day : Nat, path : Paths, at : Nat]
  BY <1>2 DEF Record, TypeOK
<1> QED BY <1>3 DEF Record, TypeOK

LEMMA InitTypeOK == Init => TypeOK
<1> SUFFICES ASSUME Init PROVE TypeOK
  OBVIOUS
<1>1. lastCharged \in [Paths -> Nat]
  BY DEF Init
<1>2. now \in Nat /\ now >= StartTime
  BY ConfigAssumption DEF Init
<1>3. seen \subseteq [day : Nat, path : Paths, at : Nat] /\ credited \subseteq CreditKeys
  BY DEF Init
<1>4. init \in BOOLEAN /\ banned \in BOOLEAN /\ firing \in BOOLEAN
  BY DEF Init
<1>5. /\ balance \in Nat /\ period_end \in Nat /\ win_views \in Nat
      /\ win_search \in Nat /\ funded \in Int /\ consumed \in Nat
  BY DEF Init
<1>6. plan \in Plans \cup {None} /\ win_start \in Nat \cup {None} /\ alarm \in Nat \cup {None}
  BY DEF Init
<1> QED BY <1>1, <1>2, <1>3, <1>4, <1>5, <1>6 DEF TypeOK

LEMMA NextTypeOK == TypeOK /\ [Next]_vars => TypeOK'
<1> SUFFICES ASSUME TypeOK, [Next]_vars PROVE TypeOK'
  OBVIOUS
<1> USE ConfigAssumption
<1>g. Granted \in Nat /\ Given \in Nat
  BY GrantedType
<1>1. CASE InitAccount
  BY <1>1, <1>g DEF InitAccount, TypeOK
<1>2. ASSUME NEW p \in Paths, Charge(p) PROVE TypeOK'
  <2>c. Cost[KindOf[p]] \in Nat
    BY DEF Kinds
  <2>1. CASE Unrecorded
    BY <2>1, <1>g DEF Unrecorded, TypeOK
  <2>2. CASE ChargeUnlimited(p)
    <3>1. Record(p) /\ StoreRolled
      BY <2>2 DEF ChargeUnlimited
    <3>2. win_start' \in Nat \cup {None} /\ win_views' \in Nat /\ win_search' \in Nat
      BY <3>1 DEF StoreRolled, TypeOK
    <3>3. balance' \in Nat /\ funded' \in Int /\ consumed' \in Nat
      BY <2>2, <1>g DEF ChargeUnlimited, TypeOK
    <3> QED BY <3>1, <3>2, <3>3, RecordType DEF Record, TypeOK
  <2>3. CASE ChargeWindow(p)
    <3>1. win_start' \in Nat \cup {None} /\ win_views' \in Nat /\ win_search' \in Nat
      BY <2>3, <2>c, UsageType DEF ChargeWindow, TypeOK
    <3>2. Record(p)
      BY <2>3 DEF ChargeWindow
    <3>3. balance' \in Nat /\ funded' \in Int /\ consumed' \in Nat
      BY <2>3, <1>g DEF ChargeWindow, TypeOK
    <3> QED BY <3>1, <3>2, <3>3, RecordType DEF Record, TypeOK
  <2>4. CASE ChargeBalance(p)
    <3>1. Record(p) /\ StoreRolled
      BY <2>4 DEF ChargeBalance
    <3>2. win_start' \in Nat \cup {None} /\ win_views' \in Nat /\ win_search' \in Nat
      BY <3>1 DEF StoreRolled, TypeOK
    <3>3. balance' \in Nat /\ funded' \in Int /\ consumed' \in Nat
      BY <2>4, <2>c, <1>g DEF ChargeBalance, TypeOK
    <3> QED BY <3>1, <3>2, <3>3, RecordType DEF Record, TypeOK
  <2> QED
    BY <1>2, <2>1, <2>2, <2>3, <2>4
    DEF Charge, ChargeBanned, ChargeRepeat, ChargeRefused
<1>3. ASSUME NEW key \in CreditKeys, NEW points \in CreditPoints, Credit(key, points)
      PROVE TypeOK'
  BY <1>3 DEF Credit, Larger, TypeOK
<1>4. ASSUME NEW target \in Plans, Subscribe(target) PROVE TypeOK'
  <2>1. Refund \in Nat
    BY RefundAtType DEF Refund, TypeOK
  <2>2. PricePoints[target] \in Nat /\ PeriodSecs[target] \in Nat
    OBVIOUS
  <2>3. balance' \in Nat /\ period_end' \in Nat /\ alarm' \in Nat
    BY <1>4, <2>1, <2>2 DEF Subscribe, Larger, TypeOK
  <2> QED BY <1>4, <2>3 DEF Subscribe, TypeOK, history
<1>5. CASE Unsubscribe
  <2>1. Refund \in Nat
    BY RefundAtType DEF Refund, TypeOK
  <2> QED BY <1>5, <2>1 DEF Unsubscribe, TypeOK, history
<1>6. ASSUME NEW b \in BOOLEAN, Ban(b) PROVE TypeOK'
  BY <1>6 DEF Ban, TypeOK, history
<1>7. CASE AlarmFires
  BY <1>7 DEF AlarmFires, TypeOK, stored, history
<1>8. CASE AlarmRun
  <2>1. CASE AlarmNoPlan
    BY <2>1 DEF AlarmNoPlan, TypeOK, stored, history
  <2>2. CASE AlarmEarly
    BY <2>2 DEF AlarmEarly, TypeOK, stored, history
  <2>3. CASE AlarmLapse
    BY <2>3 DEF AlarmLapse, TypeOK, history
  <2> QED BY <1>8, <2>1, <2>2, <2>3 DEF AlarmRun
<1>9. CASE Tick
  BY <1>9 DEF Tick, TypeOK, stored, history
<1>10. CASE UNCHANGED vars
  BY <1>10 DEF TypeOK, vars, stored, history
<1> QED
  BY <1>1, <1>2, <1>3, <1>4, <1>5, <1>6, <1>7, <1>8, <1>9, <1>10 DEF Next

\* Every stored value keeps its type; in particular the balance is never
\* negative, whatever sequence of operations the account goes through.
THEOREM TypeCorrect == Spec => []TypeOK
BY InitTypeOK, NextTypeOK, PTL DEF Spec

-----------------------------------------------------------------------------
(***************************************************************************)
(* Conservation of value.  An operation brings points in, or spends them,  *)
(* and what the account is worth follows; the first grant may forfeit what *)
(* was credited before it; only time devalues a plan.                      *)
(***************************************************************************)

Funds ==
  /\ now' = now /\ init' = init /\ consumed' = consumed
  /\ Worth' - Worth = funded' - funded

Spends ==
  /\ now' = now /\ init' = init /\ funded' = funded
  /\ consumed' \in Nat /\ consumed' >= consumed
  /\ Worth' - Worth = consumed - consumed'

Opens ==
  /\ now' = now /\ ~init /\ init'
  /\ funded' = funded + FREE_GRANT_POINTS
  /\ consumed' \in Nat /\ consumed' >= consumed
  /\ (Worth' - FREE_GRANT_POINTS) + (consumed' - consumed) \in 0..Worth

Devalues ==
  /\ now' > now
  /\ Worth' \in 0..Worth
  /\ UNCHANGED <<funded, consumed, init>>

Conserves == Funds \/ Spends \/ Opens

LEMMA RefundType == TypeOK => Refund \in Nat /\ Worth \in Nat
<1> SUFFICES ASSUME TypeOK PROVE Refund \in Nat /\ Worth \in Nat
  OBVIOUS
<1>1. Refund \in Nat
  BY RefundAtType DEF TypeOK, Refund
<1> QED BY <1>1 DEF TypeOK, Worth

LEMMA RefundTypeNext == TypeOK' => Refund' \in Nat /\ Worth' \in Nat
<1> SUFFICES ASSUME TypeOK' PROVE Refund' \in Nat /\ Worth' \in Nat
  OBVIOUS
<1>1. Refund' \in Nat
  BY RefundAtType DEF TypeOK, Refund
<1>2. balance' \in Nat
  BY DEF TypeOK
<1>3. Worth' = balance' + Refund'
  BY DEF Worth
<1>4. \A m, n \in Nat : m + n \in Nat
  OBVIOUS
<1>5. Worth' \in Nat
  BY <1>1, <1>2, <1>3, <1>4, Zenon
<1> QED BY <1>1, <1>5

\* A step that leaves the clock and the plan alone leaves the refund alone.
LEMMA SameRefund ==
  ASSUME UNCHANGED <<now, plan, period_end>>
  PROVE  Refund' = Refund
BY DEF Refund, RefundAt

\* A step that leaves all of it alone.
LEMMA Untouched ==
  ASSUME TypeOK, UNCHANGED <<now, init, plan, period_end, balance, funded, consumed>>
  PROVE  Spends
<1>1. Refund \in Nat /\ Refund' = Refund
  BY RefundType, SameRefund
<1> QED BY <1>1 DEF TypeOK, Worth, Spends

\* A step that runs ensure_init and may spend from the balance that leaves.
LEMMA GrantStep ==
  ASSUME TypeOK, UNCHANGED <<now, plan, period_end>>, init' = TRUE,
         funded' = funded + Given, NEW spent \in Nat, spent <= Granted,
         balance' = Granted - spent, consumed' = consumed + spent
  PROVE  Spends \/ Opens
<1>1. Refund \in Nat /\ Refund' = Refund /\ FREE_GRANT_POINTS \in Nat
  BY RefundType, SameRefund, ConfigAssumption
<1>2. /\ balance \in Nat /\ consumed \in Nat /\ funded \in Int /\ init \in BOOLEAN
  BY DEF TypeOK
<1>3. Worth = balance + Refund /\ Worth' = balance' + Refund'
  BY DEF Worth
<1>4. CASE init
  <2>1. funded' = funded /\ balance' = balance - spent /\ init' = init
    BY <1>2, <1>4 DEF Given, Granted
  <2>2. consumed' \in Nat /\ consumed' >= consumed
    BY <1>2
  <2>3. Worth' - Worth = consumed - consumed'
    BY <1>1, <1>2, <1>3, <2>1
  <2> QED BY <2>1, <2>2, <2>3 DEF Spends
<1>5. CASE ~init
  <2>1. funded' = funded + FREE_GRANT_POINTS /\ balance' = FREE_GRANT_POINTS - spent
    BY <1>5 DEF Given, Granted
  <2>2. consumed' \in Nat /\ consumed' >= consumed
    BY <1>2
  <2>3. (Worth' - FREE_GRANT_POINTS) + (consumed' - consumed) \in 0..Worth
    BY <1>1, <1>2, <1>3, <2>1
  <2> QED BY <1>5, <2>1, <2>2, <2>3 DEF Opens
<1> QED BY <1>4, <1>5

LEMMA ChargeConserves ==
  ASSUME TypeOK, NEW p \in Paths, Charge(p)
  PROVE  Conserves
<1> USE ConfigAssumption
<1>g. Granted \in Nat /\ consumed \in Nat
  BY GrantedType DEF TypeOK
<1>c. Cost[KindOf[p]] \in Nat
  BY DEF Kinds
<1>0. ASSUME /\ UNCHANGED <<now, plan, period_end, consumed>> /\ init' = TRUE
             /\ funded' = funded + Given /\ balance' = Granted
      PROVE  Conserves
  <2>1. 0 \in Nat /\ 0 <= Granted /\ balance' = Granted - 0 /\ consumed' = consumed + 0
    BY <1>0, <1>g
  <2> QED BY <1>0, <2>1, GrantStep DEF Conserves
<1>1. CASE Unrecorded
  BY <1>0, <1>1 DEF Unrecorded
<1>2. CASE ChargeUnlimited(p)
  BY <1>0, <1>2 DEF ChargeUnlimited, Record
<1>3. CASE ChargeWindow(p)
  BY <1>0, <1>3 DEF ChargeWindow, Record
<1>4. CASE ChargeBalance(p)
  <2>1. UNCHANGED <<now, plan, period_end>> /\ init' = TRUE
    BY <1>4 DEF ChargeBalance, Record
  <2>2. /\ Cost[KindOf[p]] <= Granted /\ funded' = funded + Given
        /\ balance' = Granted - Cost[KindOf[p]]
        /\ consumed' = consumed + Cost[KindOf[p]]
    BY <1>4, <1>c, <1>g DEF ChargeBalance
  <2> QED BY <1>c, <2>1, <2>2, GrantStep DEF Conserves
<1> QED
  BY <1>1, <1>2, <1>3, <1>4 DEF Charge, ChargeBanned, ChargeRepeat, ChargeRefused

\* Buying, renewing or switching: what is refunded and paid is exactly what the
\* new plan is worth.
LEMMA SubscribeConserves ==
  ASSUME TypeOK, NEW target \in Plans, Subscribe(target)
  PROVE  Conserves
<1>1. Refund \in Nat /\ PricePoints[target] \in Nat /\ PeriodSecs[target] \in Nat
  BY RefundType, ConfigAssumption
<1>2. Refund' = PricePoints[target]
  <2>1. Refund' = RefundAt(target, now + PeriodSecs[target], now)
    BY DEF Subscribe, Refund, RefundAt
  <2> QED BY <2>1, RefundAtPurchase DEF TypeOK
<1>3. balance' = balance - (PricePoints[target] - Refund)
  BY <1>1 DEF Subscribe, Larger, TypeOK
<1> QED BY <1>1, <1>2, <1>3 DEF Subscribe, Conserves, Spends, Worth, TypeOK, history

LEMMA UnsubscribeConserves ==
  ASSUME TypeOK, Unsubscribe
  PROVE  Conserves
<1>1. Refund \in Nat
  BY RefundType
<1>2. Refund' = 0
  BY DEF Unsubscribe, Refund, RefundAt
<1> QED BY <1>1, <1>2 DEF Unsubscribe, Conserves, Spends, Worth, TypeOK, history

\* The alarm takes a plan away only when nothing is left to refund.
LEMMA AlarmConserves ==
  ASSUME TypeOK, AlarmRun
  PROVE  Conserves
<1>1. Refund' = Refund /\ now' = now /\ balance' = balance /\ init' = init
  <2>1. CASE AlarmNoPlan
    BY <2>1, SameRefund DEF AlarmNoPlan, stored
  <2>2. CASE AlarmEarly
    BY <2>2, SameRefund DEF AlarmEarly, stored
  <2>3. CASE AlarmLapse
    BY <2>3 DEF AlarmLapse, Refund, RefundAt, TypeOK
  <2> QED BY <2>1, <2>2, <2>3 DEF AlarmRun
<1>2. UNCHANGED <<funded, consumed>>
  BY DEF AlarmRun, AlarmNoPlan, AlarmEarly, AlarmLapse, history
<1>3. Refund \in Nat
  BY RefundType
<1> QED BY <1>1, <1>2, <1>3 DEF Conserves, Spends, Worth, TypeOK

LEMMA TickDevalues ==
  ASSUME TypeOK, Tick
  PROVE  Devalues
<1>1. Refund \in Nat /\ Refund' \in Nat
  <2>1. TypeOK'
    BY NextTypeOK DEF Next
  <2> QED BY <2>1, RefundType, RefundTypeNext
<1>2. Refund' <= Refund
  BY RefundAtDecays DEF Tick, stored, Refund, TypeOK
<1>3. balance \in Nat /\ balance' = balance
  BY DEF Tick, stored, TypeOK
<1>4. Worth = balance + Refund /\ Worth' = balance' + Refund'
  BY DEF Worth
<1>a. \A b, r, s \in Nat : s <= r => b + s \in 0..(b + r)
  OBVIOUS
<1>5. Worth' \in 0..Worth
  BY <1>1, <1>2, <1>3, <1>4, <1>a, Zenon
<1>6. now' > now /\ UNCHANGED <<funded, consumed, init>>
  BY DEF Tick, stored, history, TypeOK
<1> QED BY <1>5, <1>6 DEF Devalues

LEMMA StepConserves == TypeOK /\ Next => Conserves \/ Devalues
<1> SUFFICES ASSUME TypeOK, Next PROVE Conserves \/ Devalues
  OBVIOUS
<1>1. CASE InitAccount
  <2>1. /\ 0 \in Nat /\ 0 <= Granted /\ balance' = Granted - 0 /\ consumed' = consumed + 0
        /\ UNCHANGED <<now, plan, period_end>> /\ init' = TRUE
        /\ funded' = funded + Given
    BY <1>1, GrantedType DEF InitAccount, TypeOK
  <2> QED BY <2>1, GrantStep DEF Conserves
<1>2. ASSUME NEW p \in Paths, Charge(p) PROVE Conserves
  BY <1>2, ChargeConserves
<1>3. ASSUME NEW key \in CreditKeys, NEW points \in CreditPoints, Credit(key, points)
      PROVE Conserves
  <2>1. points \in Int
    BY ConfigAssumption
  <2>2. Refund \in Nat /\ Refund' = Refund
    BY <1>3, RefundType, SameRefund DEF Credit
  <2>3. Worth' - Worth = funded' - funded
    BY <1>3, <2>1, <2>2 DEF Credit, Larger, TypeOK, Worth
  <2> QED BY <1>3, <2>3 DEF Credit, Funds, Conserves
<1>4. ASSUME NEW target \in Plans, Subscribe(target) PROVE Conserves
  BY <1>4, SubscribeConserves
<1>5. CASE Unsubscribe
  BY <1>5, UnsubscribeConserves
<1>6. ASSUME NEW b \in BOOLEAN, Ban(b) PROVE Conserves
  BY <1>6, Untouched DEF Ban, Conserves, history
<1>7. CASE AlarmFires
  BY <1>7, Untouched DEF AlarmFires, Conserves, stored, history
<1>8. CASE AlarmRun
  BY <1>8, AlarmConserves
<1>9. CASE Tick
  BY <1>9, TickDevalues
<1> QED
  BY <1>1, <1>2, <1>3, <1>4, <1>5, <1>6, <1>7, <1>8, <1>9 DEF Next

\* The points held, the refund due and the points spent never exceed the points
\* that came in, for every configuration and every sequence of operations.
THEOREM ValueIsBacked == Spec => []WorthBacked
<1>1. Init => WorthBacked
  BY DEF Init, WorthBacked, Worth, Refund, RefundAt
<1>2. TypeOK /\ TypeOK' /\ WorthBacked /\ [Next]_vars => WorthBacked'
  <2> SUFFICES ASSUME TypeOK, TypeOK', WorthBacked, [Next]_vars
               PROVE  WorthBacked'
    OBVIOUS
  <2>1. Worth \in Nat /\ Worth' \in Nat
    BY RefundType, RefundTypeNext
  <2>2. CASE Next
    <3>1. /\ funded \in Int /\ consumed \in Nat /\ funded' \in Int /\ consumed' \in Nat
          /\ Worth + consumed <= funded
      BY DEF TypeOK, WorthBacked
    <3>2. CASE Conserves
      <4>1. /\ Worth \in Int /\ Worth' \in Int /\ consumed \in Int /\ consumed' \in Int
            /\ FREE_GRANT_POINTS \in Int
        BY <2>1, <3>1, ConfigAssumption
      <4>2. CASE Funds
        <5>1. \A w1, w2, f1, f2, c \in Int :
                w2 - w1 = f2 - f1 /\ w1 + c <= f1 => w2 + c <= f2
          OBVIOUS
        <5> QED BY <3>1, <4>1, <4>2, <5>1, Zenon DEF Funds, WorthBacked
      <4>3. CASE Spends
        <5>1. \A w1, w2, f, c1, c2 \in Int :
                w2 - w1 = c1 - c2 /\ w1 + c1 <= f => w2 + c2 <= f
          OBVIOUS
        <5> QED BY <3>1, <4>1, <4>3, <5>1, Zenon DEF Spends, WorthBacked
      <4>4. CASE Opens
        <5>1. \A w1, w2, f, g, c1, c2 \in Int :
                (w2 - g) + (c2 - c1) \in 0..w1 /\ w1 + c1 <= f => w2 + c2 <= f + g
          OBVIOUS
        <5> QED BY <3>1, <4>1, <4>4, <5>1, Zenon DEF Opens, WorthBacked
      <4> QED BY <3>2, <4>2, <4>3, <4>4 DEF Conserves
    <3>3. CASE Devalues
      <4>1. \A w1, c1, f1 \in Int, w2 \in Int :
              w2 \in 0..w1 /\ w1 + c1 <= f1 => w2 + c1 <= f1
        OBVIOUS
      <4>2. Worth' \in Int /\ Worth \in Int /\ consumed \in Int
        BY <2>1, <3>1
      <4>3. consumed' = consumed /\ funded' = funded /\ Worth' \in 0..Worth
        BY <3>3 DEF Devalues
      <4> QED BY <4>1, <4>2, <4>3, <3>1, Zenon DEF WorthBacked
    <3> QED BY <2>2, <3>2, <3>3, StepConserves
  <2>3. CASE UNCHANGED vars
    BY <2>3 DEF vars, stored, history, WorthBacked, Worth, Refund, RefundAt
  <2> QED BY <2>2, <2>3
<1> QED BY <1>1, <1>2, TypeCorrect, PTL DEF Spec

\* The account implements the prepaid account: seen from outside, its value is
\* what was put in less what was spent, and only the clock takes from it, or,
\* once, the grant that replaces what was credited before it.
THEOREM AccountImplementsPrepaid == Spec => ImplementsPrepaid
<1>1. Init => Prepaid!Init
  BY ConfigAssumption DEF Init, Prepaid!Init, Worth, Refund, RefundAt
<1>2. TypeOK /\ TypeOK' /\ [Next]_vars => [Prepaid!Next]_(Prepaid!vars)
  <2> SUFFICES ASSUME TypeOK, TypeOK', [Next]_vars
               PROVE  [Prepaid!Next]_(Prepaid!vars)
    OBVIOUS
  <2>1. Worth \in Nat /\ Worth' \in Nat
    BY RefundType, RefundTypeNext
  <2>2. CASE Next
    <3>1. CASE Funds
      BY <2>1, <3>1 DEF Funds, Prepaid!Next, Prepaid!Fund
    <3>2. CASE Spends
      BY <2>1, <3>2 DEF Spends, Prepaid!Next, Prepaid!Spend
    <3>3. CASE Opens
      BY <2>1, <3>3 DEF Opens, Prepaid!Next, Prepaid!Open
    <3>4. CASE Devalues
      BY <3>4 DEF Devalues, Prepaid!Next, Prepaid!Elapse
    <3> QED BY <2>2, <3>1, <3>2, <3>3, <3>4, StepConserves DEF Conserves
  <2>3. CASE UNCHANGED vars
    BY <2>3 DEF vars, stored, history, Prepaid!vars, Worth, Refund, RefundAt
  <2> QED BY <2>2, <2>3
<1> QED BY <1>1, <1>2, TypeCorrect, PTL DEF Spec, ImplementsPrepaid, Prepaid!Spec

-----------------------------------------------------------------------------
(***************************************************************************)
(* The plan: its alarm, its length and its allowance.                      *)
(***************************************************************************)

LEMMA AlarmArmedStep == AlarmArmed /\ [Next]_vars => AlarmArmed'
<1> SUFFICES ASSUME AlarmArmed, [Next]_vars PROVE AlarmArmed'
  OBVIOUS
<1>1. CASE UNCHANGED <<plan, period_end, alarm, firing>>
  BY <1>1 DEF AlarmArmed
<1>2. CASE InitAccount
  BY <1>1, <1>2 DEF InitAccount
<1>3. ASSUME NEW p \in Paths, Charge(p) PROVE AlarmArmed'
  BY <1>1, <1>3 DEF Charge, ChargeBanned, ChargeRepeat, ChargeRefused, Unrecorded,
                    ChargeUnlimited, ChargeWindow, ChargeBalance, Record
<1>4. ASSUME NEW key \in CreditKeys, NEW points \in CreditPoints, Credit(key, points)
      PROVE AlarmArmed'
  BY <1>1, <1>4 DEF Credit
<1>5. ASSUME NEW target \in Plans, Subscribe(target) PROVE AlarmArmed'
  BY <1>5 DEF Subscribe, AlarmArmed
<1>6. CASE Unsubscribe
  BY <1>6 DEF Unsubscribe, AlarmArmed
<1>7. ASSUME NEW b \in BOOLEAN, Ban(b) PROVE AlarmArmed'
  BY <1>1, <1>7 DEF Ban
<1>8. CASE AlarmFires
  BY <1>8 DEF AlarmFires, AlarmArmed
<1>9. CASE AlarmRun
  BY <1>9 DEF AlarmRun, AlarmNoPlan, AlarmEarly, AlarmLapse, AlarmArmed, stored
<1>10. CASE Tick
  BY <1>1, <1>10 DEF Tick, stored
<1>11. CASE UNCHANGED vars
  BY <1>1, <1>11 DEF vars, stored
<1> QED
  BY <1>2, <1>3, <1>4, <1>5, <1>6, <1>7, <1>8, <1>9, <1>10, <1>11 DEF Next

\* A stored plan always has its alarm set, or about to run.
THEOREM PlanHasAlarm == Spec => []AlarmArmed
<1>1. Init => AlarmArmed
  BY DEF Init, AlarmArmed
<1> QED BY <1>1, AlarmArmedStep, PTL DEF Spec

LEMMA NoStackingStep == TypeOK /\ NoStacking /\ [Next]_vars => NoStacking'
<1> SUFFICES ASSUME TypeOK, NoStacking, [Next]_vars PROVE NoStacking'
  OBVIOUS
<1> USE ConfigAssumption
<1>1. CASE UNCHANGED <<now, plan, period_end>>
  BY <1>1 DEF NoStacking
<1>2. CASE InitAccount
  BY <1>1, <1>2 DEF InitAccount
<1>3. ASSUME NEW p \in Paths, Charge(p) PROVE NoStacking'
  BY <1>1, <1>3 DEF Charge, ChargeBanned, ChargeRepeat, ChargeRefused, Unrecorded,
                    ChargeUnlimited, ChargeWindow, ChargeBalance, Record
<1>4. ASSUME NEW key \in CreditKeys, NEW points \in CreditPoints, Credit(key, points)
      PROVE NoStacking'
  BY <1>1, <1>4 DEF Credit
<1>5. ASSUME NEW target \in Plans, Subscribe(target) PROVE NoStacking'
  <2>1. /\ plan' = target /\ now' = now
        /\ period_end' = now + PeriodSecs[target]
    BY <1>5 DEF Subscribe
  <2>2. now + PeriodSecs[target] <= now + PeriodSecs[target]
    BY DEF TypeOK
  <2> QED BY <2>1, <2>2, Zenon DEF NoStacking
<1>6. CASE Unsubscribe
  BY <1>6 DEF Unsubscribe, NoStacking
<1>7. ASSUME NEW b \in BOOLEAN, Ban(b) PROVE NoStacking'
  BY <1>1, <1>7 DEF Ban
<1>8. CASE AlarmFires
  BY <1>1, <1>8 DEF AlarmFires, stored
<1>9. CASE AlarmRun
  BY <1>1, <1>9 DEF AlarmRun, AlarmNoPlan, AlarmEarly, AlarmLapse, NoStacking, stored
<1>10. CASE Tick
  <2>1. /\ plan' = plan /\ period_end' = period_end /\ now' = now + 1
    BY <1>10 DEF Tick, stored
  <2>2. plan # None => period_end <= (now + 1) + PeriodSecs[plan]
    BY DEF TypeOK, NoStacking
  <2> QED BY <2>1, <2>2, Zenon DEF NoStacking
<1>11. CASE UNCHANGED vars
  BY <1>1, <1>11 DEF vars, stored
<1> QED
  BY <1>2, <1>3, <1>4, <1>5, <1>6, <1>7, <1>8, <1>9, <1>10, <1>11 DEF Next

\* Renewing never stacks days: the plan ends within one period from now.
THEOREM PlanNeverStacks == Spec => []NoStacking
<1>1. Init => NoStacking
  BY DEF Init, NoStacking
<1> QED BY <1>1, NoStackingStep, TypeCorrect, PTL DEF Spec

LEMMA QuotaStep == TypeOK /\ QuotaRespected /\ [Next]_vars => QuotaRespected'
<1> SUFFICES ASSUME TypeOK, QuotaRespected, [Next]_vars PROVE QuotaRespected'
  OBVIOUS
<1> USE ConfigAssumption
<1>1. CASE UNCHANGED <<now, plan, win_start, win_views, win_search>>
  BY <1>1 DEF QuotaRespected
<1>2. CASE InitAccount
  BY <1>1, <1>2 DEF InitAccount
<1>3. ASSUME NEW p \in Paths, Charge(p) PROVE QuotaRespected'
  <2>1. CASE Unrecorded
    BY <1>1, <2>1 DEF Unrecorded
  <2>2. CASE Record(p) /\ StoreRolled
    <3>1. CASE Rolls
      <4>1. /\ plan' = plan /\ plan \in Plans /\ now' = now
            /\ win_start' = now /\ win_views' = 0 /\ win_search' = 0
        BY <2>2, <3>1 DEF Record, StoreRolled, Rolls, Active, TypeOK
      <4>2. now # None /\ now <= now
        BY DEF TypeOK
      <4>3. 0 <= SearchesPerWindow[plan] /\ (ViewsPerWindow[plan] # None => 0 <= ViewsPerWindow[plan])
        BY <4>1
      <4> QED BY <4>1, <4>2, <4>3 DEF QuotaRespected
    <3>2. CASE ~Rolls
      BY <1>1, <2>2, <3>2 DEF Record, StoreRolled
    <3> QED BY <3>1, <3>2
  <2>3. CASE ChargeWindow(p)
    <3>1. plan' = plan /\ plan \in Plans /\ now' = now /\ InQuota(KindOf[p]) /\ plan # None
      BY <2>3 DEF ChargeWindow, Record, InQuota, Active, TypeOK
    <3>2. win_start' # None /\ win_start' <= now
      BY <2>3, <3>1 DEF ChargeWindow, QuotaRespected, TypeOK
    <3>3. Search <= SearchesPerWindow[plan] /\ Search \in Nat
      BY <3>1 DEF Search, QuotaRespected, TypeOK
    <3>4. Views <= (IF ViewsPerWindow[plan] = None THEN 0 ELSE ViewsPerWindow[plan]) /\ Views \in Nat
      BY <3>1 DEF Views, QuotaRespected, TypeOK
    <3>5. CASE KindOf[p] = "Search"
      <4>1. Search + 1 <= SearchesPerWindow[plan]
        BY <3>1, <3>3, <3>5 DEF InQuota
      <4>2. win_search' = Search + 1 /\ win_views' = Views
        BY <2>3, <3>5 DEF ChargeWindow
      <4> QED BY <3>1, <3>2, <3>4, <4>1, <4>2, Zenon DEF QuotaRespected
    <3>6. CASE KindOf[p] # "Search"
      <4>1. ViewsPerWindow[plan] # None /\ Views + Cost[KindOf[p]] <= ViewsPerWindow[plan]
        BY <3>1, <3>6 DEF InQuota
      <4>2. win_search' = Search /\ win_views' = Views + Cost[KindOf[p]]
        BY <2>3, <3>6 DEF ChargeWindow
      <4> QED BY <3>1, <3>2, <3>3, <4>1, <4>2, Zenon DEF QuotaRespected
    <3> QED BY <3>5, <3>6
  <2> QED
    BY <1>3, <2>1, <2>2, <2>3
    DEF Charge, ChargeBanned, ChargeRepeat, ChargeRefused, ChargeUnlimited, ChargeBalance
<1>4. ASSUME NEW key \in CreditKeys, NEW points \in CreditPoints, Credit(key, points)
      PROVE QuotaRespected'
  BY <1>1, <1>4 DEF Credit
<1>5. ASSUME NEW target \in Plans, Subscribe(target) PROVE QuotaRespected'
  <2>1. /\ plan' = target /\ now' = now /\ win_start' = now
        /\ win_views' = 0 /\ win_search' = 0
    BY <1>5 DEF Subscribe
  <2>2. now # None /\ now <= now /\ target # None
    BY DEF TypeOK
  <2>3. 0 <= SearchesPerWindow[target] /\ (ViewsPerWindow[target] # None => 0 <= ViewsPerWindow[target])
    OBVIOUS
  <2> QED BY <2>1, <2>2, <2>3 DEF QuotaRespected
<1>6. CASE Unsubscribe
  BY <1>6 DEF Unsubscribe, QuotaRespected
<1>7. ASSUME NEW b \in BOOLEAN, Ban(b) PROVE QuotaRespected'
  BY <1>1, <1>7 DEF Ban
<1>8. CASE AlarmFires
  BY <1>1, <1>8 DEF AlarmFires, stored
<1>9. CASE AlarmRun
  BY <1>1, <1>9 DEF AlarmRun, AlarmNoPlan, AlarmEarly, AlarmLapse, QuotaRespected, stored
<1>10. CASE Tick
  <2>1. UNCHANGED <<plan, win_start, win_views, win_search>> /\ now' = now + 1
    BY <1>10 DEF Tick, stored
  <2>2. plan # None => win_start <= now + 1
    BY DEF TypeOK, QuotaRespected
  <2> QED BY <2>1, <2>2, Zenon DEF QuotaRespected
<1>11. CASE UNCHANGED vars
  BY <1>1, <1>11 DEF vars, stored
<1> QED
  BY <1>2, <1>3, <1>4, <1>5, <1>6, <1>7, <1>8, <1>9, <1>10, <1>11 DEF Next

\* A plan's window never holds more usage than the plan allows, across rolls,
\* switches, lapses and late alarms.
THEOREM QuotaNeverExceeded == Spec => []QuotaRespected
<1>1. Init => QuotaRespected
  BY DEF Init, QuotaRespected
<1> QED BY <1>1, QuotaStep, TypeCorrect, PTL DEF Spec

-----------------------------------------------------------------------------
(***************************************************************************)
(* Dedupe.  The two day maps a charge looks at hold every charge that is   *)
(* younger than the dedupe window, although a map is dropped as a whole.   *)
(***************************************************************************)

SeenCovers ==
  \A p \in Paths :
    /\ lastCharged[p] <= now
    /\ lastCharged[p] + DEDUPE_WINDOW_SECS > now =>
         \E e \in seen : /\ e.path = p
                         /\ e.at = lastCharged[p]
                         /\ e.day = lastCharged[p] \div DAY

\* A moment younger than the dedupe window is of today or of yesterday.
LEMMA RecentDays ==
  ASSUME NEW at \in Nat, NEW t \in Nat, at <= t, at + DEDUPE_WINDOW_SECS > t
  PROVE  at \div DAY \in {t \div DAY, t \div DAY - 1}
<1>1. DAY \in Nat \ {0} /\ DEDUPE_WINDOW_SECS \in Nat /\ DEDUPE_WINDOW_SECS <= DAY
  BY ConfigAssumption
<1>2. at \div DAY \in Nat /\ t \div DAY \in Nat
  BY <1>1
<1>3. at \div DAY <= t \div DAY
  BY <1>1
<1>4. t < at + DAY
  BY <1>1
<1>5. t \div DAY <= (at + DAY) \div DAY
  BY <1>1, <1>4
<1>6. (at + DAY) \div DAY = at \div DAY + 1
  BY <1>1
<1> QED BY <1>2, <1>3, <1>5, <1>6

\* A path that is not a recent view was last charged a full window ago.
LEMMA NotRecent ==
  ASSUME TypeOK, SeenCovers, NEW p \in Paths, ~IsRecentView(p)
  PROVE  lastCharged[p] + DEDUPE_WINDOW_SECS <= now
<1> DEFINE at == lastCharged[p]
<1>1. at \in Nat /\ now \in Nat /\ at <= now /\ DEDUPE_WINDOW_SECS \in Nat
  BY ConfigAssumption DEF TypeOK, SeenCovers
<1> SUFFICES ASSUME at + DEDUPE_WINDOW_SECS > now PROVE FALSE
  BY <1>1
<1>2. PICK e \in seen : e.path = p /\ e.at = at /\ e.day = at \div DAY
  BY DEF SeenCovers
<1>3. e.day \in {Today, Today - 1}
  BY <1>1, <1>2, RecentDays DEF Today
<1>4. now >= 2 * DAY /\ DAY \in Nat \ {0} /\ DEDUPE_WINDOW_SECS <= DAY
  BY ConfigAssumption DEF TypeOK
<1>5. at > Larger(now - DEDUPE_WINDOW_SECS, 0)
  BY <1>1, <1>4 DEF Larger
<1> QED BY <1>2, <1>3, <1>5 DEF IsRecentView

\* Recording a charge forgets nothing that is still inside the window.
LEMMA RecordCovers ==
  ASSUME TypeOK, SeenCovers, NEW p \in Paths, Record(p)
  PROVE  SeenCovers'
<1>0. now \in Nat /\ DEDUPE_WINDOW_SECS \in Nat /\ DAY \in Nat \ {0} /\ now' = now
  BY ConfigAssumption DEF TypeOK, Record
<1> SUFFICES ASSUME NEW q \in Paths
             PROVE  /\ lastCharged'[q] <= now
                    /\ lastCharged'[q] + DEDUPE_WINDOW_SECS > now =>
                         \E e \in seen' : /\ e.path = q
                                          /\ e.at = lastCharged'[q]
                                          /\ e.day = lastCharged'[q] \div DAY
  BY <1>0 DEF SeenCovers
<1>1. CASE q = p
  <2>1. lastCharged'[q] = now
    BY <1>1 DEF Record, TypeOK
  <2>2. [day |-> Today, path |-> p, at |-> now] \in seen'
    BY DEF Record
  <2> QED BY <1>0, <1>1, <2>1, <2>2 DEF Today
<1>2. CASE q # p
  <2>1. lastCharged'[q] = lastCharged[q] /\ lastCharged[q] <= now /\ lastCharged[q] \in Nat
    BY <1>2 DEF Record, TypeOK, SeenCovers
  <2>2. ASSUME lastCharged[q] + DEDUPE_WINDOW_SECS > now
        PROVE  \E e \in seen' : /\ e.path = q
                                /\ e.at = lastCharged[q]
                                /\ e.day = lastCharged[q] \div DAY
    <3>1. PICK e \in seen : /\ e.path = q
                            /\ e.at = lastCharged[q]
                            /\ e.day = lastCharged[q] \div DAY
      BY <2>2 DEF SeenCovers
    <3>2. e.day \in {Today, Today - 1}
      BY <1>0, <2>1, <2>2, <3>1, RecentDays DEF Today
    <3>3. Today \in Int
      BY <1>0 DEF Today
    <3>4. e.day # Today - 2
      BY <3>2, <3>3
    <3>5. e \in seen'
      BY <1>2, <3>1, <3>4 DEF Record
    <3> QED BY <3>1, <3>5
  <2> QED BY <2>1, <2>2
<1> QED BY <1>1, <1>2

LEMMA SeenCoversStep == TypeOK /\ SeenCovers /\ [Next]_vars => SeenCovers'
<1> SUFFICES ASSUME TypeOK, SeenCovers, [Next]_vars PROVE SeenCovers'
  OBVIOUS
<1>1. CASE UNCHANGED <<now, seen, lastCharged>>
  BY <1>1 DEF SeenCovers
<1>2. CASE InitAccount
  BY <1>1, <1>2 DEF InitAccount
<1>3. ASSUME NEW p \in Paths, Charge(p) PROVE SeenCovers'
  <2>1. CASE Unrecorded
    BY <1>1, <2>1 DEF Unrecorded
  <2>2. CASE Record(p)
    BY <2>2, RecordCovers
  <2> QED
    BY <1>3, <2>1, <2>2
    DEF Charge, ChargeBanned, ChargeRepeat, ChargeRefused,
        ChargeUnlimited, ChargeWindow, ChargeBalance
<1>4. ASSUME NEW key \in CreditKeys, NEW points \in CreditPoints, Credit(key, points)
      PROVE SeenCovers'
  BY <1>1, <1>4 DEF Credit
<1>5. ASSUME NEW target \in Plans, Subscribe(target) PROVE SeenCovers'
  BY <1>1, <1>5 DEF Subscribe, history
<1>6. CASE Unsubscribe
  BY <1>1, <1>6 DEF Unsubscribe, history
<1>7. ASSUME NEW b \in BOOLEAN, Ban(b) PROVE SeenCovers'
  BY <1>1, <1>7 DEF Ban, history
<1>8. CASE AlarmFires
  BY <1>1, <1>8 DEF AlarmFires, stored, history
<1>9. CASE AlarmRun
  BY <1>1, <1>9 DEF AlarmRun, AlarmNoPlan, AlarmEarly, AlarmLapse, stored, history
<1>10. CASE Tick
  <2>1. now' = now + 1 /\ UNCHANGED <<seen, lastCharged>>
    BY <1>10 DEF Tick, stored, history
  <2>2. \A p \in Paths :
          /\ lastCharged[p] <= now + 1
          /\ lastCharged[p] + DEDUPE_WINDOW_SECS > now + 1 =>
               lastCharged[p] + DEDUPE_WINDOW_SECS > now
    BY ConfigAssumption DEF TypeOK, SeenCovers
  <2> QED BY <2>1, <2>2, Zenon DEF SeenCovers
<1>11. CASE UNCHANGED vars
  BY <1>1, <1>11 DEF vars, stored, history
<1> QED
  BY <1>2, <1>3, <1>4, <1>5, <1>6, <1>7, <1>8, <1>9, <1>10, <1>11 DEF Next

LEMMA ChargedOnceStep == TypeOK /\ TypeOK' /\ SeenCovers /\ [Next]_vars => [ChargeIsDue]_vars
<1> SUFFICES ASSUME TypeOK, TypeOK', SeenCovers, Next PROVE ChargeIsDue
  OBVIOUS
<1> DEFINE Free == /\ lastCharged' = lastCharged
                   /\ consumed' = consumed
                   /\ (win_views' = win_views \/ win_views' = 0)
                   /\ (win_search' = win_search \/ win_search' = 0)
<1>1. ASSUME Free PROVE ChargeIsDue
  BY <1>1 DEF ChargeIsDue, TypeOK
<1>2. ASSUME NEW p \in Paths, Charge(p) PROVE ChargeIsDue
  <2>1. CASE Unrecorded
    BY <1>1, <2>1 DEF Unrecorded
  <2>2. CASE Record(p) /\ ~IsRecentView(p)
    <3>1. lastCharged[p] + DEDUPE_WINDOW_SECS <= now
      BY <2>2, NotRecent
    <3>2. lastCharged' = [lastCharged EXCEPT ![p] = now]
      BY <2>2 DEF Record
    <3>3. lastCharged'[p] = now /\ \A q \in Paths : q # p => lastCharged'[q] = lastCharged[q]
      BY <3>2 DEF TypeOK
    <3> QED BY <3>1, <3>3, Zenon DEF ChargeIsDue
  <2> QED
    BY <1>2, <2>1, <2>2
    DEF Charge, ChargeBanned, ChargeRepeat, ChargeRefused,
        ChargeUnlimited, ChargeWindow, ChargeBalance
<1>3. CASE Free
  BY <1>1, <1>3
<1>4. InitAccount => Free
  BY DEF InitAccount
<1>5. ASSUME NEW key \in CreditKeys, NEW points \in CreditPoints, Credit(key, points) PROVE Free
  BY <1>5 DEF Credit
<1>6. ASSUME NEW target \in Plans, Subscribe(target) PROVE Free
  BY <1>6 DEF Subscribe, history
<1>7. Unsubscribe => Free
  BY DEF Unsubscribe, history
<1>8. ASSUME NEW b \in BOOLEAN, Ban(b) PROVE Free
  BY <1>8 DEF Ban, history
<1>9. AlarmFires \/ Tick => Free
  BY DEF AlarmFires, Tick, stored, history
<1>10. AlarmRun => Free
  BY DEF AlarmRun, AlarmNoPlan, AlarmEarly, AlarmLapse, stored, history
<1> QED
  BY <1>2, <1>3, <1>4, <1>5, <1>6, <1>7, <1>8, <1>9, <1>10 DEF Next

\* No path is charged twice within a dedupe window, in points or in allowance,
\* wherever the charges fall relative to the day boundaries the maps are cut at.
THEOREM NeverChargedTwice == Spec => ChargedOncePerWindow
<1>1. Init => SeenCovers
  <2> SUFFICES ASSUME Init PROVE SeenCovers
    OBVIOUS
  <2>1. \A p \in Paths : lastCharged[p] = 0
    BY DEF Init
  <2>2. 0 <= now /\ ~(0 + DEDUPE_WINDOW_SECS > now)
    BY ConfigAssumption DEF Init
  <2> QED BY <2>1, <2>2 DEF SeenCovers
<1>2. Spec => [](TypeOK /\ SeenCovers)
  BY <1>1, SeenCoversStep, TypeCorrect, PTL DEF Spec
<1> QED
  BY <1>2, ChargedOnceStep, PTL DEF Spec, ChargedOncePerWindow
=============================================================================
