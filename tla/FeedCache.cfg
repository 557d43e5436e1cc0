SPECIFICATION Spec
CONSTANTS
  a = a
  b = b
  x = x
  xNew = xNew
  a1 = a1
  a2 = a2
  b1 = b1
  x1 = x1
  Feed = {a}
  Local = {a}
  Twt = {a1, a2}
  FeedOf <- OwnTwtsOf
  Poster <- OwnFeeds
  URL = {a}
  NewURL <- NoMoves
  MaxItems = 1
  TTL = 1
  MaxClock = 4
  MaxRestarts = 0
  Deletable = {}
  NoEntry = NoEntry
INVARIANTS
  TypeOK
  DateCoversEntry
