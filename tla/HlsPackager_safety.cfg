\* Two calls at once, a seek, a failing process, and an API that restarts.
SPECIFICATION Spec
CONSTANTS
  None = None
  Asked <- Positions
  Plan = {copy, encode}
  Child = {c1, c2}
  Task = {t1, t2}
  MayCrash = TRUE
SYMMETRY Symmetry
CONSTRAINT OneRace
INVARIANT TypeOK
INVARIANT OneTrackedChild
INVARIANT StartingIsPending
INVARIANT TrackedIsAlive
PROPERTY ServedAsAsked
CHECK_DEADLOCK FALSE
