\* Two requests at once, two plans, a trial; no payments required.
SPECIFICATION Spec
CONSTANTS
  None = None
  Ref = {"none", "admin"}
  Row = {s1, s2}
  Req = {r1, r2}
  Plan = {1, 2}
  Op = {"start", "change", "cancel", "resume", "renew", "entitlement", "lose"}
  PatchTo = {}
  PatchDay = {}
  RequirePayment = FALSE
  TrialDays = 1
  Cycle = 1
  GraceDays = 1
  LastDay = 3
CONSTRAINT FirstTrouble
SYMMETRY Symmetry
INVARIANT TypeOK
INVARIANT OneCurrent
INVARIANT OneTrial
INVARIANT CacheIsTrue
PROPERTY PlanFallsWhenDue
PROPERTY AccessIsKept
CHECK_DEADLOCK FALSE
