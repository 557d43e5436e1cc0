\* Two uploads of one kind, two encoders, two seconds, one crash.
SPECIFICATION Spec
CONSTANTS
  u1 = u1
  u2 = u2
  ogg = ogg
  mp3 = mp3
  Upload = {u1, u2}
  Encoder = {ogg, mp3}
  NoFile = NoFile
  Empty = Empty
  MaxClock = 2
  MaxCrashes = 1
INVARIANTS
  TypeOK
  FailuresTold
  FormatsAgree
  FreshUnlessTwice
PROPERTY EncodersEnd
CHECK_DEADLOCK FALSE
