\* Three requests, which are alike, on two posts, and a restart.
SPECIFICATION Spec
CONSTANTS
  r1 = r1
  r2 = r2
  r3 = r3
  p1 = p1
  p2 = p2
  Request = {r1, r2, r3}
  Post = {p1, p2}
  NoFile = NoFile
  Garbled = Garbled
  MaxRestarts = 1
SYMMETRY Alike
INVARIANTS
  TypeOK
  TextIsLast
  ListingHolds
  AnnouncedEditable
CHECK_DEADLOCK FALSE
