SPECIFICATION Spec
CONSTANTS
  Tenants = {t1, t2}
  Default = t1
  Users = {u1}
  Projects = {p0, p1}
  DefaultProject = p0
  Names = {admin, viewer, editor}
  Perms = {perm}
  Shared = Shared
  Wide = Wide
  Admin = admin
  Builtin = {admin}
  Templates = {admin, viewer}
  TemplateGrants <- MCTemplateGrants
  Handlers = {h1, h2}
  MaxRows = 5
SYMMETRY MCSymmetry
PROPERTIES ShownIsRevocable
