\* Credits, purchases, switches, cancellations, lapses and the alarm.
SPECIFICATION FairSpec
CONSTANTS
  img = img
  vid = vid
  q1 = q1
  q2 = q2
  basic = basic
  pro = pro
  k1 = k1
  k2 = k2
  None = None
  Paths = {img, q1}
  Plans = {basic, pro}
  CreditKeys = {k1}
  KindOf <- MCKindOf
  CreditPoints <- MCCreditPoints
  Cost <- MCCost
  PricePoints <- MCPricePoints
  ViewsPerWindow <- MCViewsPerWindow
  SearchesPerWindow <- MCSearchesPerWindow
  PeriodSecs <- MCPeriodSecs
  FREE_GRANT_POINTS = 3
  WINDOW_SECS = 2
  DEDUPE_WINDOW_SECS = 3
  DAY = 3
  StartTime = 6
  MaxTime = 11
INVARIANTS TypeOK WorthBacked NoStacking AlarmArmed
PROPERTIES ImplementsPrepaid PlanLapses
