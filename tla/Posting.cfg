\* Two old twts and two new ones, the first of which mentions three pods; a
\* mention by another pod; channels of one; the program may end once.
SPECIFICATION PostingSpec
CONSTANTS
  old1 = old1
  old2 = old2
  new1 = new1
  new2 = new2
  Twt = {old1, old2, new1, new2}
  Mention = {old1, old2, new1, new2, m1}
  NoMention = NoMention
  NoTwt = NoTwt
  Hole = Hole
  Junk = Junk
  Requests = {r1, r2}
  OldTwts <- MCOldTwts
  Mentions <- MCMentions
  Capacity = 1
  MaxPanics = 1
  MaxRequests = 2
INVARIANT PostingTypeOK
PROPERTIES
  OnlyLastGoes
  PostsEnd
CHECK_DEADLOCK FALSE
