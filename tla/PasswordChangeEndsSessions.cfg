SPECIFICATION Spec
CONSTANTS
  Users = {u1}
  Bindings = {b1}
  Tokens = {t1, t2}
  Handlers = {h1, h2}
  NoToken = NoToken
  Grace = 2
  RefreshTTL = 2
  MaxTime = 4
PROPERTIES PasswordChangeEndsSessions
CHECK_DEADLOCK FALSE
