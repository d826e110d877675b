\* One request at a time; payments required, no trials.
SPECIFICATION Spec
CONSTANTS
  None = None
  Ref = {"none", "admin"}
  Row = {s1}
  Req = {r1}
  Plan = {1}
  Op = {"start", "cancel", "me"}
  PatchTo = {}
  PatchDay = {}
  RequirePayment = TRUE
  TrialDays = 0
  Cycle = 1
  GraceDays = 1
  LastDay = 3
INVARIANT PendingStaysLocked
CHECK_DEADLOCK FALSE
