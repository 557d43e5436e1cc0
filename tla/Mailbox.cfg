SPECIFICATION Spec
CONSTANTS
  r1 = r1
  r2 = r2
  m1 = m1
  m2 = m2
  x1 = x1
  Letter = {m1, m2}
  Mail = {x1}
  BadMail = {x1}
  Request = {r1, r2}
  File = {1, 2, 3, 4, 5, 6}
  MaxRequests = 2
  MaxRestarts = 1
  NoFile = 0
SYMMETRY AnyRequest
CHECK_DEADLOCK FALSE
INVARIANTS
  TypeOK
  NothingDoubled
  BadgeCoversUnread
PROPERTIES
  OnlyChosenGo
  NothingComesBack
