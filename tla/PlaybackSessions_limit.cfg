\* Openings, heartbeats, stops and listings of one account, with failures.
SPECIFICATION Spec
CONSTANTS
  None = None
  User = {u1}
  Device = {d1}
  Media = {m1, m2}
  Sid = {s1, s2}
  Task = {t1, t2}
  Op = {"open", "heartbeat", "stop", "list", "stopDevice", "stopAll", "abort", "crash"}
  MaxStreams = 1
  SessionTtl = 1
  LockTtl = 2
SYMMETRY Symmetry
CONSTRAINT NoHazard
INVARIANT TypeOK
INVARIANT OneOpenerPerUser
INVARIANT StreamLimitUnlessHazard
INVARIANT CountedOrCreating
PROPERTY ImplementsSlots
CHECK_DEADLOCK FALSE
