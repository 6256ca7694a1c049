SPECIFICATION Spec
CONSTANTS
  Secrets = {e1, e2, e3}
  NoSecret = NoSecret
  Numbers = {n1}
  Handlers = {h1, h2}
  MaxFailures = 2
  MaxLost = 1
SYMMETRY MCSymmetry
INVARIANTS TypeOK EnabledIsProven SettledStays CodesFollowSecret RecoveryCodeOnce FailuresBound
CHECK_DEADLOCK FALSE
