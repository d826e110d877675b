\* One request at a time, up to the first of an administrator; payments required.
SPECIFICATION Spec
CONSTANTS
  None = None
  Ref = {"none", "admin"}
  Row = {s1, s2}
  Req = {r1}
  Plan = {1, 2}
  Op = {"start", "change", "cancel", "resume", "renew", "me", "entitlement", "lose",
        "grant", "suspend", "unsuspend", "activate", "patch", "delete"}
  PatchTo = {"active", "cancelled", "expired"}
  PatchDay = {}
  RequirePayment = TRUE
  TrialDays = 2
  Cycle = 2
  GraceDays = 1
  LastDay = 4
CONSTRAINT FirstAdmin
PROPERTY AccessIsKept
CHECK_DEADLOCK FALSE
