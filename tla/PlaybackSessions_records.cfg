\* Two accounts; the revocations and the sweep, which work from the Mongo rows.
SPECIFICATION Spec
CONSTANTS
  None = None
  User = {u1, u2}
  Device = {d1}
  Media = {m1}
  Sid = {s1, s2}
  Task = {t1, t2}
  Op = {"open", "tracks", "stop", "unpublish", "publish", "remove", "sweep"}
  MaxStreams = 1
  SessionTtl = 1
  LockTtl = 1
SYMMETRY Symmetry
CONSTRAINT NoHazard
INVARIANT LiveIsRecorded
PROPERTY OnlyTheOwnerActs
CHECK_DEADLOCK FALSE
