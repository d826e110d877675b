\* Liveness.
SPECIFICATION FairSpec
CONSTANTS
  None = None
  User = {u1}
  Device = {d1}
  Media = {m1}
  Sid = {s1}
  Task = {t1, t2}
  Op = {"open", "heartbeat", "unpublish", "crash"}
  MaxStreams = 1
  SessionTtl = 1
  LockTtl = 1
PROPERTY LockIsFreed
PROPERTY RequestsReturn
PROPERTY WithdrawnMediaDrains
CHECK_DEADLOCK FALSE
