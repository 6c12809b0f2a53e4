\* Searches, pictures and pages overlapping, with late answers, errors and a growing table.
SPECIFICATION FairSpec
CONSTANTS
  None = None
  title = title
  near = near
  photo1 = photo1
  photo2 = photo2
  dice = dice
  catPic = catPic
  dogPic = dogPic
  Searches = {title, near, photo1, dice}
  ModeOf <- MCModeOf
  LimitOf <- MCLimitOf
  SamePost = {2}
  Coverless = {3}
  Pictures = {catPic, dogPic}
  Start <- MCStart
  MaxRows = 3
  Draw <- MCDraw
  Height <- MCHeight
  ColumnCounts = {1, 2}
  MaxVisits = 2
  MaxPages = 2
INVARIANTS PagesOfOneSearch NothingSkipped EndMeansEnd LayoutKeepsAll
PROPERTIES ReachesEnd
