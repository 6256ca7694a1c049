SPECIFICATION Spec
CONSTANTS
  Keys = {k1, k2}
  Perms = {p1}
  Handlers = {h1, h2}
  TTL = 2
  MaxTime = 2
SYMMETRY MCSymmetry
INVARIANTS TypeOK WithinTTL AfterInvalidation
