\* Either a reader of pages, two fetchers of three twts and two requests to
\* mute; or a visitor for one twt, two fetchers, the job and a restart.
SPECIFICATION Spec
CONSTANTS
  a = a
  b = b
  a1 = a1
  a2 = a2
  b1 = b1
  x1 = x1
  x2 = x2
  m1 = m1
  m2 = m2
  n1 = n1
  n2 = n2
  Feed = {a, b}
  Local = {a}
  Fetcher = {x1, x2}
  Job = Job
  Twt = {a1, a2, b1}
  FeedOf <- FeedOfTwt
  DateOf <- DateOfTwt
  Tagged = {a1, b1}
  Mentioning = {a2}
  Retractable = {b1}
  PageSize = 1
  MaxItems = 0
  Nick = {n1, n2}
  Muting = {m1, m2}
  NoFeed = NoFeed
  NoTwt = NoTwt
  Cast <- CastOf
  MaxAge = 1
  MaxRestarts = 1
SYMMETRY Alike
INVARIANTS
  TypeOK
  PagesTrue
  PermalinkFound
CHECK_DEADLOCK FALSE
