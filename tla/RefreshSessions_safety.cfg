\* Two browsers, every kind of request, two at once; lost requests, a copied cookie.
SPECIFICATION Spec
CONSTANTS
  None = None
  Browser = {b1, b2}
  Session = {s1}
  Token = {t1, t2, t3}
  Op = {o1, o2}
  MaxPw = 1
  Sent = {"refresh", "login", "logout", "revoke", "change", "reset", "logoutAll"}
  MayLose = TRUE
  MayCopy = TRUE
CONSTRAINT OneTrouble
SYMMETRY Symmetry
INVARIANT TypeOK
INVARIANT CookieWorks
INVARIANT NoFalseAlarm
INVARIANT TokensAreEarned
INVARIANT OldPasswordIsOut
PROPERTY RevokedForGood
PROPERTY ImplementsFamilies
CHECK_DEADLOCK FALSE
