\* One request at a time.
SPECIFICATION Spec
CONSTANTS
  None = None
  User = {u1}
  Device = {d1}
  Media = {m1, m2}
  Sid = {s1, s2}
  Task = {t1}
  Op = {"open", "heartbeat"}
  MaxStreams = 1
  SessionTtl = 1
  LockTtl = 100
SYMMETRY Symmetry
INVARIANT StreamLimit
CHECK_DEADLOCK FALSE
