SPECIFICATION FairSpec
CONSTANTS
  a = a
  b = b
  x = x
  xNew = xNew
  a1 = a1
  a2 = a2
  b1 = b1
  x1 = x1
  Feed = {b, x}
  Local = {b}
  Twt = {b1, x1}
  FeedOf <- TwoTwtsOf
  Poster <- OwnFeeds
  URL = {b, x, xNew}
  NewURL <- Moves
  MaxItems = 0
  TTL = 0
  MaxClock = 2
  MaxRestarts = 0
  Deletable = {b}
  NoEntry = NoEntry
INVARIANT
  CrashNeedsRace
PROPERTY
  Converges
