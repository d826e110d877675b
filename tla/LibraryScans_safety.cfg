\* Two files that may be versions of one film, and two events of any kind.
SPECIFICATION FairSpec
CONSTANTS
  None = None
  p1 = p1
  p2 = p2
  t1 = t1
  t2 = t2
  Path = {p1, p2}
  Content = {c1, c2}
  Title = {t1, t2}
  Movie = {m1, m2, m3}
  Scan = {s1, s2}
  Named <- Names
  Meta <- Service
  MaxEvent = 2
INVARIANT LibTypeOK
PROPERTY ScanIsTrue
PROPERTY PurgedWasGone
PROPERTY RemovedStaysOut
PROPERTY ScanEnds
CHECK_DEADLOCK FALSE
