\* Every call returns, whatever overlaps.
SPECIFICATION FairSpec
CONSTANTS
  None = None
  Asked <- Positions
  Plan = {copy}
  Child = {c1}
  Task = {t1, t2}
  MayCrash = FALSE
PROPERTY CallsReturn
CHECK_DEADLOCK FALSE
