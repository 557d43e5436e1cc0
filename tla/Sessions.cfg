SPECIFICATION Spec
CONSTANTS
  u1 = u1
  s1 = s1
  s2 = s2
  r1 = r1
  r2 = r2
  User = {u1}
  Sid = {s1, s2}
  Request = {r1, r2}
  MaxFailedLogins = 1
  MaxRequests = 4
  MaxRestarts = 1
  NoUser = NoUser
  NoSid = NoSid
  Absent = Absent
SYMMETRY Alike
CHECK_DEADLOCK FALSE
INVARIANTS
  TypeOK
  OnlyRememberedPersist
  RememberedStaysIn
  LockDeserved
PROPERTIES
  LogoutHolds
