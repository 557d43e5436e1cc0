SPECIFICATION Spec
CONSTANTS
  a = a
  b = b
  f = f
  Names = {a, b, f}
  Starts <- MCStarts
  Admin = a
  Special = f
  Requests = {r1, r2}
  MaxRequests = 3
  MaxRestarts = 1
  MaxFeeds = 1
SYMMETRY Symmetry
INVARIANTS
  TypeOK
  NamesTaken
  FeedsOwned
  FollowersAgree
CHECK_DEADLOCK FALSE
