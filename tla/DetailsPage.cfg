\* One button and the viewer next to other windows of the account; pages of two likes.
SPECIFICATION Spec
CONSTANTS
  None = None
  Closed = Closed
  star = star
  cat = cat
  dog = dog
  owl = owl
  Targets = {cat, dog, owl}
  Buttons = {star}
  TargetOf <- MCTargetOf
  Limit = 2
  MaxTime = 3
  MaxLate = 1
  Pulls <- MCPulls
  PostImages = 2
  Position = 1
INVARIANTS ButtonTellsTruth ListedOnce StuckOnlyAfterCancel
