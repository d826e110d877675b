\* Two requests at once, two payments; payments required, with and without transactions.
SPECIFICATION BillSpec
CONSTANTS
  None = None
  Ref = {"none", "admin", "session", p1, p2}
  Row = {s1}
  Req = {r1, r2}
  Plan = {1}
  Op = {"start", "lose"}
  PatchTo = {}
  PatchDay = {}
  RequirePayment = TRUE
  TrialDays = 0
  Cycle = 1
  GraceDays = 1
  LastDay = 1
  Pay = {p1, p2}
  PayOp = {"checkout", "verify", "webhook", "refund"}
  Header = {}
CONSTRAINT FewEvents
SYMMETRY Symmetry
INVARIANT BillTypeOK
INVARIANT PaymentBuysOnce
INVARIANT SuccessIsServed
INVARIANT CapturedIsSettled
PROPERTY PaidStaysPaid
CHECK_DEADLOCK FALSE
