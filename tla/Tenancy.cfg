SPECIFICATION TenancySpec
CONSTANTS
  t1 = t1
  p1 = p1
  Users = {u1}
  Tenants = {t1, t2}
  Projects = {p1}
  Perms = {perm}
  Wide = Wide
  TenantOf <- MCTenantOf
  Keys = {k1}
  Handlers = {h1, h2}
SYMMETRY MCSymmetry
INVARIANTS TenancyTypeOK NothingOnceBarred BoundWhereAdmitted
CHECK_DEADLOCK FALSE
