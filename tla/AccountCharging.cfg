\* The allowances of a window and the free repeats: used up, rolled, and carried
\* through switches, renewals and lapses, across the day boundaries.
SPECIFICATION Spec
CONSTANTS
  img = img
  vid = vid
  q1 = q1
  q2 = q2
  basic = basic
  pro = pro
  k1 = k1
  k2 = k2
  None = None
  Paths = {img, vid, q1}
  Plans = {basic, pro}
  CreditKeys = {}
  KindOf <- MCKindOf
  CreditPoints <- MCCreditPoints
  Cost <- MCCost
  PricePoints <- MCPricePoints
  ViewsPerWindow <- MCViewsPerWindow
  SearchesPerWindow <- MCSearchesPerWindow
  PeriodSecs <- MCPeriodSecs
  FREE_GRANT_POINTS = 8
  WINDOW_SECS = 2
  DEDUPE_WINDOW_SECS = 3
  DAY = 3
  StartTime = 6
  MaxTime = 10
INVARIANTS QuotaRespected
PROPERTIES ChargedOncePerWindow
