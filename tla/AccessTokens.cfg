SPECIFICATION Spec
CONSTANTS
  Tokens = {j1}
  Replicas = {r1, r2}
  Handlers = {h1, h2}
  RedisURL = TRUE
  AccessTTL = 2
  Leeway = 2
  MaxTime = 5
SYMMETRY MCSymmetry
INVARIANTS TypeOK NoStaleAcceptance DurableDenylistHonored
