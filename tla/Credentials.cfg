SPECIFICATION Spec
CONSTANTS
  Users = {u1}
  Logins = {l1, l2}
  Tickets = {t1}
  NoTicket = NoTicket
  Handlers = {h1, h2}
  MaxChanges = 2
SYMMETRY MCSymmetry
INVARIANTS TypeOK OldPasswordShutOut
PROPERTIES ImplementsTicket
CHECK_DEADLOCK FALSE
