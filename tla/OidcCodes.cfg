SPECIFICATION Spec
CONSTANTS
  Users = {u1}
  Tenants = {t1, t2}
  Default = t1
  Clients = {console, app}
  Console = console
  Codes = {c1}
  Handlers = {h1, h2, h3}
  CodeTTL = 0
  MaxTime = 1
SYMMETRY MCSymmetry
INVARIANTS TypeOK NothingOnceBarred
PROPERTIES ImplementsTicket
CHECK_DEADLOCK FALSE
