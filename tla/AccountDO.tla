------------------------------ MODULE AccountDO ------------------------------
(***************************************************************************)
(* The per-user account of lets_embed: the `UserAccount` Durable Object    *)
(* of user_worker/src/account_do.rs.                                       *)
(*                                                                         *)
(* A Durable Object handles one request at a time: every await inside a    *)
(* handler is a storage operation, during which the runtime delivers no    *)
(* other event, and the writes of a handler commit together.  So each      *)
(* handler (charge, credit, subscribe, unsubscribe, ban, init, alarm) is   *)
(* one action, and the interleaving that remains is that of the handlers,  *)
(* of the alarm and of the clock.                                          *)
(*                                                                         *)
(* Definitions named Bug... are seeded faults: what a plausible mistake    *)
(* would make of the definition that follows.  Each breaks a property.     *)
(***************************************************************************)
EXTENDS Integers

CONSTANTS
  Paths,             \* media paths and search keys a user is charged for
  KindOf,            \* the ChargeKind the gateway asks for with each of them
  Plans,             \* ids in config::PLANS
  CreditKeys,        \* idempotency keys of /credit
  CreditPoints,      \* amounts of /credit; negative is an admin deduction
  None,              \* an absent key of the storage, Rust's Option::None
  Cost,              \* points per ChargeKind
  PricePoints,       \* price per plan
  ViewsPerWindow,    \* view units per window and plan; None is unlimited
  SearchesPerWindow, \* searches per window and plan
  PeriodSecs,        \* length of a subscription period, per plan
  FREE_GRANT_POINTS,
  WINDOW_SECS,
  DEDUPE_WINDOW_SECS,
  DAY,               \* the literal 86_400 the seen maps are keyed by
  StartTime,         \* the clock when the account is first touched
  MaxTime            \* bound of the clock

Kinds == {"Image", "Video", "Search", "EmbedSearch"}

ASSUME ConfigAssumption ==
  /\ None \notin Int /\ None \notin Plans
  /\ KindOf \in [Paths -> Kinds]
  /\ CreditPoints \subseteq Int
  /\ Cost \in [Kinds -> Nat]
  /\ PricePoints \in [Plans -> Nat]
  /\ ViewsPerWindow \in [Plans -> Nat \cup {None}]
  /\ SearchesPerWindow \in [Plans -> Nat]
  /\ PeriodSecs \in [Plans -> Nat \ {0}]
  /\ FREE_GRANT_POINTS \in Nat
  /\ WINDOW_SECS \in Nat
  /\ DAY \in Nat \ {0}
  /\ DEDUPE_WINDOW_SECS \in 0..DAY
  /\ StartTime \in Nat /\ StartTime >= 2 * DAY
  /\ MaxTime \in Nat

VARIABLES
  now,        \* the clock, in seconds since the epoch
  init,       \* "init": the free grant was given
  balance,    \* "balance": points
  plan,       \* "plan": a plan id, or None
  period_end, \* "period_end", 0 when absent
  win_start,  \* "win_start": when the usage window opened, or None
  win_views,  \* "win_views", 0 when absent
  win_search, \* "win_search", 0 when absent
  seen,       \* the maps "seen:{day}", as records [day, path, at]
  banned,     \* "banned"
  credited,   \* the keys that have a "credit:{key}" marker
  alarm,      \* the time the alarm is set for, or None
  firing      \* the runtime has taken the alarm and will call alarm()

stored == <<init, balance, plan, period_end, win_start, win_views,
            win_search, seen, banned, credited>>

(***************************************************************************)
(* Three history variables, for the properties only.                       *)
(***************************************************************************)
VARIABLES
  funded,     \* points that ever came in, less those a deduction took back
  consumed,   \* points that ever left it for a view or a search
  lastCharged \* per path, when it was last charged; 0 is never

history == <<funded, consumed, lastCharged>>
vars == <<now, stored, alarm, firing, history>>

-----------------------------------------------------------------------------
(***************************************************************************)
(* The pure decision logic.                                                *)
(***************************************************************************)

Smaller(a, b) == IF a < b THEN a ELSE b
Larger(a, b)  == IF a > b THEN a ELSE b

Today == now \div DAY

IsRecentView(p) ==
  \E e \in seen : /\ e.path = p
                  /\ e.day \in {Today, Today - 1}
                  /\ e.at > Larger(now - DEDUPE_WINDOW_SECS, 0)

ShouldRoll == win_start = None \/ now >= win_start + WINDOW_SECS

Active == plan # None /\ period_end > now

ProratedRefund(price, period, remaining) ==
  (price * Smaller(remaining, period)) \div period

\* Points the unused remainder of the active plan is worth at time t.
RefundAt(pl, end, t) ==
  IF pl # None /\ end > t
  THEN ProratedRefund(PricePoints[pl], PeriodSecs[pl], end - t)
  ELSE 0

Refund == RefundAt(plan, period_end, now)

\* Usage of the window a charge is decided in: a fresh one once it elapsed.
Rolls  == Active /\ ShouldRoll
Views  == IF Rolls THEN 0 ELSE win_views
Search == IF Rolls THEN 0 ELSE win_search

Unlimited(kind) == Active /\ kind # "Search" /\ ViewsPerWindow[plan] = None

InQuota(kind) ==
  /\ Active
  /\ IF kind = "Search"
     THEN Search < SearchesPerWindow[plan]
     ELSE /\ ViewsPerWindow[plan] # None
          /\ Views + Cost[kind] <= ViewsPerWindow[plan]

-----------------------------------------------------------------------------
Init ==
  /\ now = StartTime
  /\ init = FALSE /\ balance = 0 /\ banned = FALSE
  /\ plan = None /\ period_end = 0
  /\ win_start = None /\ win_views = 0 /\ win_search = 0
  /\ seen = {} /\ credited = {}
  /\ alarm = None /\ firing = FALSE
  /\ funded = 0 /\ consumed = 0
  /\ lastCharged = [p \in Paths |-> 0]

\* ensure_init: what the balance is after it.  The grant replaces whatever
\* "balance" held: points credited before it are lost.
Granted == IF init THEN balance ELSE FREE_GRANT_POINTS

\* The points the grant brings in, once.
Given == IF init THEN 0 ELSE FREE_GRANT_POINTS

\* POST /init, sent on every login.
InitAccount ==
  /\ init' = TRUE
  /\ balance' = Granted
  /\ funded' = funded + Given
  /\ UNCHANGED <<now, plan, period_end, win_start, win_views, win_search, seen,
                 banned, credited, alarm, firing, consumed, lastCharged>>

\* A charge that is answered without recording the view: 403 when banned, free
\* when the path is a repeat, 402 when nothing can pay for it.  Only
\* ensure_init has written; a rolled window is not stored.
Unrecorded ==
  /\ init' = TRUE
  /\ balance' = Granted
  /\ funded' = funded + Given
  /\ UNCHANGED <<now, plan, period_end, win_start, win_views, win_search, seen,
                 banned, credited, alarm, firing, consumed, lastCharged>>

ChargeBanned(p) == banned /\ Unrecorded

ChargeRepeat(p) == ~banned /\ IsRecentView(p) /\ Unrecorded

ChargeRefused(p) ==
  /\ ~banned /\ ~IsRecentView(p)
  /\ ~Unlimited(KindOf[p]) /\ ~InQuota(KindOf[p])
  /\ Granted < Cost[KindOf[p]]
  /\ Unrecorded

\* Drops yesterday's map, which still holds views of the dedupe window.
BugRecord(p) ==
  /\ seen' = {e \in seen : e.day # Today - 1 /\ ~(e.day = Today /\ e.path = p)}
               \cup {[day |-> Today, path |-> p, at |-> now]}
  /\ init' = TRUE
  /\ lastCharged' = [lastCharged EXCEPT ![p] = now]
  /\ UNCHANGED <<now, plan, period_end, banned, credited, alarm, firing>>

\* The writes every recorded charge ends with: the view joins today's map, and
\* the first view of a day drops the map of the day before yesterday.
Record(p) ==
  LET newDay == ~\E e \in seen : e.day = Today
      kept   == {e \in seen : /\ ~(e.day = Today /\ e.path = p)
                              /\ ~(newDay /\ e.day = Today - 2)}
  IN /\ seen' = kept \cup {[day |-> Today, path |-> p, at |-> now]}
     /\ init' = TRUE
     /\ lastCharged' = [lastCharged EXCEPT ![p] = now]
     /\ UNCHANGED <<now, plan, period_end, banned, credited, alarm, firing>>

\* The window counters are stored when the window rolled or was drawn from.
StoreRolled == IF Rolls
               THEN win_start' = now /\ win_views' = 0 /\ win_search' = 0
               ELSE UNCHANGED <<win_start, win_views, win_search>>

\* An unlimited plan pays for a view-class charge.
ChargeUnlimited(p) ==
  /\ ~banned /\ ~IsRecentView(p)
  /\ Unlimited(KindOf[p])
  /\ Record(p)
  /\ StoreRolled
  /\ balance' = Granted
  /\ funded' = funded + Given
  /\ UNCHANGED consumed

\* The plan's allowance for the current window pays.
ChargeWindow(p) ==
  LET kind == KindOf[p] IN
  /\ ~banned /\ ~IsRecentView(p)
  /\ ~Unlimited(kind) /\ InQuota(kind)
  /\ Record(p)
  /\ win_start' = IF Rolls THEN now ELSE win_start
  /\ win_views' = IF kind = "Search" THEN Views ELSE Views + Cost[kind]
  /\ win_search' = IF kind = "Search" THEN Search + 1 ELSE Search
  /\ balance' = Granted
  /\ funded' = funded + Given
  /\ UNCHANGED consumed

\* The points balance pays.
ChargeBalance(p) ==
  LET cost == Cost[KindOf[p]] IN
  /\ ~banned /\ ~IsRecentView(p)
  /\ ~Unlimited(KindOf[p]) /\ ~InQuota(KindOf[p])
  /\ Granted >= cost
  /\ Record(p)
  /\ StoreRolled
  /\ balance' = Granted - cost
  /\ funded' = funded + Given
  /\ consumed' = consumed + cost

Charge(p) ==
  \/ ChargeBanned(p) \/ ChargeRepeat(p) \/ ChargeRefused(p)
  \/ ChargeUnlimited(p) \/ ChargeWindow(p) \/ ChargeBalance(p)

\* Forgets that a deduction stops at zero.
BugCredit(key, points) ==
  /\ key \notin credited
  /\ balance' = balance + points
  /\ credited' = credited \cup {key}
  /\ funded' = funded + points
  /\ UNCHANGED <<now, init, plan, period_end, win_start, win_views, win_search,
                 seen, banned, alarm, firing, consumed, lastCharged>>

\* POST /credit.  A marked key is a no-op; a deduction stops at zero.
Credit(key, points) ==
  /\ key \notin credited
  /\ balance' = Larger(balance + points, 0)
  /\ credited' = credited \cup {key}
  /\ funded' = funded + (balance' - balance)
  /\ UNCHANGED <<now, init, plan, period_end, win_start, win_views, win_search,
                 seen, banned, alarm, firing, consumed, lastCharged>>

\* Adds the period to what is left of the active one.
BugSubscribeStacks(target) ==
  LET net == PricePoints[target] IN
  /\ balance >= net
  /\ balance' = balance - net
  /\ plan' = target
  /\ period_end' = Larger(period_end, now) + PeriodSecs[target]
  /\ win_start' = now /\ win_views' = 0 /\ win_search' = 0
  /\ alarm' = period_end'
  /\ UNCHANGED <<now, init, seen, banned, credited, firing, history>>

\* Neither refunds the remainder of the plan it replaces nor moves the alarm.
BugSubscribeForgets(target) ==
  /\ balance >= PricePoints[target]
  /\ balance' = balance - PricePoints[target]
  /\ plan' = target
  /\ period_end' = now + PeriodSecs[target]
  /\ win_start' = now /\ win_views' = 0 /\ win_search' = 0
  /\ alarm' = IF alarm = None THEN period_end' ELSE alarm
  /\ UNCHANGED <<now, init, seen, banned, credited, firing, history>>

\* POST /subscribe: the active plan's remainder is refunded and the target is
\* bought for a full period; 402 when the balance does not cover the difference.
Subscribe(target) ==
  LET net == PricePoints[target] - Refund IN
  /\ ~(net > 0 /\ balance < net)
  /\ balance' = Larger(balance - net, 0)
  /\ plan' = target
  /\ period_end' = now + PeriodSecs[target]
  /\ win_start' = now /\ win_views' = 0 /\ win_search' = 0
  /\ alarm' = period_end'
  /\ UNCHANGED <<now, init, seen, banned, credited, firing, history>>

\* Refunds, and keeps the plan to its end.
BugUnsubscribe ==
  /\ balance' = balance + Refund
  /\ UNCHANGED <<now, init, plan, period_end, win_start, win_views, win_search,
                 seen, banned, credited, alarm, firing, history>>

\* POST /unsubscribe.  The result of delete_alarm is ignored: the alarm may stay.
Unsubscribe ==
  /\ balance' = balance + Refund
  /\ plan' = None /\ period_end' = 0
  /\ win_start' = None /\ win_views' = 0 /\ win_search' = 0
  /\ alarm' \in {alarm, None}
  /\ UNCHANGED <<now, init, seen, banned, credited, firing, history>>

\* POST /ban, for a ban and for its lifting.
Ban(b) ==
  /\ banned' = b
  /\ UNCHANGED <<now, init, balance, plan, period_end, win_start, win_views,
                 win_search, seen, credited, alarm, firing, history>>

\* The runtime delivers the alarm, at its time or ahead of it ("fired early",
\* account_do.rs:194).  A request that is already queued may still be handled
\* before alarm() runs.
AlarmFires ==
  /\ alarm # None /\ ~firing
  /\ alarm' = None /\ firing' = TRUE
  /\ UNCHANGED <<now, stored, history>>

\* alarm() finds no plan.
AlarmNoPlan ==
  /\ firing /\ plan = None
  /\ firing' = FALSE
  /\ UNCHANGED <<now, stored, alarm, history>>

\* Does not set the alarm again.
BugAlarmEarly ==
  /\ firing /\ plan # None /\ period_end > now
  /\ firing' = FALSE
  /\ UNCHANGED <<now, stored, alarm, history>>

\* alarm() finds a plan that still runs: it came early, or the plan was renewed.
AlarmEarly ==
  /\ firing /\ plan # None /\ period_end > now
  /\ firing' = FALSE
  /\ alarm' = period_end
  /\ UNCHANGED <<now, stored, history>>

\* Lapses the plan and leaves its window open.
BugAlarmLapse ==
  /\ firing /\ plan # None /\ period_end <= now
  /\ firing' = FALSE
  /\ plan' = None
  /\ UNCHANGED <<now, init, balance, period_end, win_start, win_views, win_search,
                 seen, banned, credited, alarm, history>>

\* alarm() lapses the plan to pay-as-you-go and closes the window.
AlarmLapse ==
  /\ firing /\ plan # None /\ period_end <= now
  /\ firing' = FALSE
  /\ plan' = None
  /\ win_start' = None /\ win_views' = 0 /\ win_search' = 0
  /\ UNCHANGED <<now, init, balance, period_end, seen, banned, credited, alarm,
                 history>>

AlarmRun == AlarmNoPlan \/ AlarmEarly \/ AlarmLapse

\* Time passes.
Tick ==
  /\ now < MaxTime
  /\ now' = now + 1
  /\ UNCHANGED <<stored, alarm, firing, history>>

Next ==
  \/ InitAccount
  \/ \E p \in Paths : Charge(p)
  \/ \E key \in CreditKeys, points \in CreditPoints : Credit(key, points)
  \/ \E target \in Plans : Subscribe(target)
  \/ Unsubscribe
  \/ \E b \in BOOLEAN : Ban(b)
  \/ AlarmFires
  \/ AlarmRun
  \/ Tick

Spec == Init /\ [][Next]_vars

\* The platform delivers a due alarm and runs its handler ("at least once" in
\* the Durable Objects contract).
AlarmDue == alarm # None /\ now >= alarm /\ AlarmFires
FairSpec == Spec /\ WF_vars(AlarmDue) /\ WF_vars(AlarmRun)

-----------------------------------------------------------------------------
(***************************************************************************)
(* Properties.                                                             *)
(***************************************************************************)

\* What every variable holds.
TypeOK ==
  /\ now \in Nat /\ now >= StartTime
  /\ init \in BOOLEAN /\ banned \in BOOLEAN /\ firing \in BOOLEAN
  /\ balance \in Nat
  /\ plan \in Plans \cup {None}
  /\ period_end \in Nat
  /\ win_start \in Nat \cup {None}
  /\ win_views \in Nat /\ win_search \in Nat
  /\ seen \subseteq [day : Nat, path : Paths, at : Nat]
  /\ credited \subseteq CreditKeys
  /\ alarm \in Nat \cup {None}
  /\ funded \in Int /\ consumed \in Nat
  /\ lastCharged \in [Paths -> Nat]

\* What the account is worth: its points and the refund an unsubscribe would pay.
Worth == balance + Refund

\* Whatever the order of credits, charges, subscriptions, switches, renewals,
\* cancellations and lapses, the points held plus the points a refund would
\* return plus the points spent never exceed the points that came in: proration
\* and clamping create nothing.
WorthBacked == Worth + consumed <= funded

\* The active plan never runs past one period from now, however often it is
\* renewed ("never stacks past one period", account_do.rs:477).
NoStacking == plan # None => period_end <= now + PeriodSecs[plan]

\* A stored plan always has an open window within its own allowance, also after
\* a switch from a larger plan; without a plan nothing of a window is left.
QuotaRespected ==
  IF plan = None
  THEN win_start = None /\ win_views = 0 /\ win_search = 0
  ELSE /\ win_start # None /\ win_start <= now
       /\ win_search <= SearchesPerWindow[plan]
       /\ win_views <= IF ViewsPerWindow[plan] = None THEN 0
                       ELSE ViewsPerWindow[plan]

\* A stored plan is never without the alarm that will lapse it, whatever order
\* renewals, cancellations and a late alarm come in.
AlarmArmed == plan # None => firing \/ alarm = period_end

\* In a step that charges: every path charged, in points or in allowance, was
\* last charged a full dedupe window ago.
ChargeIsDue ==
  /\ \A p \in Paths : lastCharged'[p] # lastCharged[p] =>
        lastCharged[p] + DEDUPE_WINDOW_SECS <= now
  /\ (consumed' > consumed \/ win_views' > win_views \/ win_search' > win_search)
       => \E p \in Paths : /\ lastCharged'[p] = now
                           /\ lastCharged[p] + DEDUPE_WINDOW_SECS <= now

\* A repeat within the dedupe window is free: the two day maps that are kept
\* are enough, at every offset from the day boundary.
ChargedOncePerWindow == [][ChargeIsDue]_vars

\* A plan whose period is over is eventually cleared, or renewed.
PlanLapses == (plan # None /\ period_end <= now) ~> (plan = None \/ period_end > now)

\* The account implements a prepaid account: credits, charges, purchases,
\* switches, renewals, cancellations and lapses neither create nor destroy value,
\* and only time devalues the plan that was bought.  The one operation that
\* destroys points is the free grant: ensure_init overwrites what was credited
\* before it (account_do.rs:217-224), at most once per account.
Prepaid == INSTANCE PrepaidAccount
             WITH worth <- Worth, clock <- now, opened <- init,
                  Grant <- FREE_GRANT_POINTS
ImplementsPrepaid == Prepaid!Spec
=============================================================================
