SPECIFICATION Spec
CONSTANTS
  Users = {u1}
  Bindings = {b1, b2}
  Tokens = {t1, t2, t3}
  Handlers = {h1, h2}
  NoToken = NoToken
  Grace = 2
  RefreshTTL = 1
  MaxTime = 3
SYMMETRY MCSymmetry
INVARIANTS TypeOK NoFalseTheft SealedStayDead NoOrphanSession RotationBound
PROPERTIES RevokedForGood ImplementsTokenLife
CHECK_DEADLOCK FALSE
