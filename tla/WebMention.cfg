\* Two mentions by other pods, no posts, a channel of two; the program runs on.
SPECIFICATION PostingSpec
CONSTANTS
  old1 = old1
  old2 = old2
  new1 = new1
  new2 = new2
  Twt = {old1, old2}
  Mention = {old1, old2, m1, m2}
  NoMention = NoMention
  NoTwt = NoTwt
  Hole = Hole
  Junk = Junk
  Requests = {r1, r2}
  OldTwts <- MCOldTwts
  Mentions <- MCMentions
  Capacity = 2
  MaxPanics = 0
  MaxRequests = 0
PROPERTY EnqueuedProcessed
CHECK_DEADLOCK FALSE
