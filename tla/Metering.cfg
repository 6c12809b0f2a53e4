\* Two clients of one user, an image and two searches that take the model: shared keys, loads, idle unloading.
SPECIFICATION FairSpec
CONSTANTS
  None = None
  clip = clip
  ann = ann
  bob = bob
  tab1 = tab1
  tab2 = tab2
  photo = photo
  near = near
  dog = dog
  cat = cat
  Callers = {tab1, tab2}
  Keys = {dog, cat, photo}
  Models = {clip}
  ModelOf <- MCModelOf
  IdleTimeout = 1
  MaxAbandoned = 1
  Users = {ann}
  UserOf <- MCUserOf
  KindOf <- MCKindOf
  Asks <- MCAsks
  Dedupe = 1
  Points = 1
INVARIANTS NothingUnpaid LiveSessions ComputedOnce
PROPERTIES Answered
