-------------------------------- MODULE Rbac --------------------------------
(***************************************************************************)
(* Roles, their permissions and their assignment to users, in tenants that *)
(* share one set of tables.                                                *)
(*                                                                         *)
(* A role belongs to a tenant or is a template that all tenants share, and *)
(* names are unique among the roles of one owner only.  The handlers name  *)
(* roles by their names; each looks a role up in one statement and acts on *)
(* the name again in a later transaction, in which row-level security      *)
(* hides the roles of other tenants.                                       *)
(***************************************************************************)
EXTENDS Naturals, FiniteSets

CONSTANTS
  Tenants,
  Default,         \* the default tenant, which every new user joins
  Users,
  Projects,
  DefaultProject,  \* the project of Default
  Names,           \* names of roles
  Perms,           \* permissions
  Shared,          \* the owner of templates: tenant_id IS NULL
  Wide,            \* the scope of tenant-wide assignments: project_id IS NULL
  Admin,           \* "admin", the role of the creator of a tenant
  Builtin,         \* reserved names, of which Admin is one
  Templates,       \* names of the templates the migrations seed
  TemplateGrants,  \* and what those grant
  Handlers,        \* concurrently running requests, over all replicas
  MaxRows          \* bound on the rows of roles and user_roles together

ASSUME RbacAssumption ==
  /\ Shared \notin Tenants /\ Wide \notin Projects
  /\ Default \in Tenants /\ DefaultProject \in Projects
  /\ Admin \in Builtin /\ Builtin \subseteq Templates /\ Templates \subseteq Names
  /\ TemplateGrants \subseteq Templates \X Perms
  /\ MaxRows \in Nat

VARIABLES
  users,     \* users[u]: whether u has a row yet, or had one
  tenants,   \* rows of tenants
  projects,  \* the tenant of each project
  roles,     \* rows of roles, which (owner, name) identifies
  grants,    \* rows of role_permissions
  assigned,  \* rows of user_roles
  req        \* req[h]: the request running in h

tables == <<users, tenants, projects, roles, grants, assigned>>
vars == <<tables, req>>

Role(owner, name) == [owner |-> owner, name |-> name]
Roles == [owner : Tenants \cup {Shared}, name : Names]
Scopes == Projects \cup {Wide}
Assignment == [user : Users, role : Roles, tenant : Tenants, scope : Scopes]

Idle == [pc |-> "idle"]
Editing == [pc : {"drop"}, tenant : Tenants, name : Names]
Granting == [pc : {"grant", "withdraw"}, tenant : Tenants, name : Names, perm : Perms]
Assigning == [pc : {"project", "assign"}, tenant : Tenants, name : Names,
              scope : Scopes, left : SUBSET Users]
Revoking == [pc : {"revoke"}, tenant : Tenants, name : Names, scope : Scopes, user : Users]
Revoked == [pc : {"revoked", "failed"}]
Request == {Idle} \cup Editing \cup Granting \cup Assigning \cup Revoking \cup Revoked

(* The foreign keys are part of it.                                        *)
TypeOK ==
  /\ users \in [Users -> {"unborn", "present", "gone"}]
  /\ tenants \subseteq Tenants
  /\ DOMAIN projects \subseteq Projects /\ projects \in [DOMAIN projects -> tenants]
  /\ roles \subseteq Roles
  /\ grants \subseteq roles \X Perms
  /\ assigned \subseteq Assignment
  /\ \A a \in assigned :
       /\ users[a.user] = "present" /\ a.role \in roles /\ a.tenant \in tenants
       /\ a.scope \in DOMAIN projects \cup {Wide}
  /\ req \in [Handlers -> Request]

Become(h, r) == req' = [req EXCEPT ![h] = r]

(* The schema with its seeds. *)
Init ==
  /\ users = [u \in Users |-> "unborn"]
  /\ tenants = {Default}
  /\ projects = [p \in {DefaultProject} |-> Default]
  /\ roles = {Role(Shared, n) : n \in Templates}
  /\ grants = {<<Role(Shared, g[1]), g[2]>> : g \in TemplateGrants}
  /\ assigned = {}
  /\ req = [h \in Handlers |-> Idle]

-----------------------------------------------------------------------------
(* Queries. *)

isBuiltinRole(n) == n \in Builtin

GetTenantRole(t, n) == roles \cap {Role(t, n)}

(* Faulty variant, for AssignedWithinTenant: any role of the name will do. *)
FaultyGetRoleInTenant(t, n) == {r \in roles : r.name = n}

(* The tenant's own role, else the template. *)
GetRoleInTenant(t, n) ==
  IF Role(t, n) \in roles THEN {Role(t, n)} ELSE roles \cap {Role(Shared, n)}

(* What row-level security shows of roles within withTenant. *)
Visible(t) == {r \in roles : r.owner \in {t, Shared}}

(* The rows AssignRoleToUser inserts: none if the name resolves to no role. *)
AssignRoleToUser(u, t, n, s) ==
  {[user |-> u, role |-> r, tenant |-> t, scope |-> s] : r \in GetRoleInTenant(t, n)}

(* The permissions a token of user, tenant and project (or none) yields.   *)
GetUserPermissionsScoped(u, t, s) ==
  {p \in Perms : \E a \in assigned :
     a.user = u /\ a.tenant = t /\ a.scope \in {Wide, s} /\ <<a.role, p>> \in grants}

Room == Cardinality(roles) + Cardinality(assigned) < MaxRows

Add(rows) ==
  /\ Room
  /\ assigned' = assigned \cup rows

-----------------------------------------------------------------------------
(* Single transactions. *)

(* Register, and the two bootstraps: a new user with a role in Default.    *)
Register(u, n) ==
  /\ users[u] = "unborn"
  /\ users' = [users EXCEPT ![u] = "present"]
  /\ Add(AssignRoleToUser(u, Default, n, Wide))
  /\ UNCHANGED <<tenants, projects, roles, grants, req>>

HardDeleteUser(u) ==
  /\ users[u] = "present"
  /\ users' = [users EXCEPT ![u] = "gone"]
  /\ assigned' = {a \in assigned : a.user # u}
  /\ UNCHANGED <<tenants, projects, roles, grants, req>>

(* The creator becomes the administrator (AssignRoleInTenant). *)
CreateTenant(u, t) ==
  /\ users[u] = "present"
  /\ t \notin tenants
  /\ tenants' = tenants \cup {t}
  /\ Add({[user |-> u, role |-> r, tenant |-> t, scope |-> Wide] : r \in GetTenantRole(Shared, Admin)})
  /\ UNCHANGED <<users, projects, roles, grants, req>>

CreateProject(t, p) ==
  /\ t \in tenants
  /\ p \notin DOMAIN projects
  /\ projects' = [q \in DOMAIN projects \cup {p} |-> IF q = p THEN t ELSE projects[q]]
  /\ UNCHANGED <<users, tenants, roles, grants, assigned, req>>

CreateRole(t, n) ==
  /\ t \in tenants
  /\ ~isBuiltinRole(n)
  /\ Role(t, n) \notin roles
  /\ Room
  /\ roles' = roles \cup {Role(t, n)}
  /\ UNCHANGED <<users, tenants, projects, grants, assigned, req>>

-----------------------------------------------------------------------------
(* Changes of a role of the tenant: look it up, then write. *)

permRoleGuard(t, n) == ~isBuiltinRole(n) /\ GetTenantRole(t, n) # {}

DeleteRole(h, t, n) ==
  /\ req[h] = Idle /\ t \in tenants
  /\ ~isBuiltinRole(n) /\ GetTenantRole(t, n) # {}
  /\ Become(h, [pc |-> "drop", tenant |-> t, name |-> n])
  /\ UNCHANGED tables

(* Faulty variant, for TypeOK: the assignments stay behind.                *)
FaultyDropRole(h) ==
  /\ req[h].pc = "drop"
  /\ roles' = roles \ {Role(req[h].tenant, req[h].name)}
  /\ grants' = {g \in grants : g[1] \in roles'}
  /\ Become(h, Idle)
  /\ UNCHANGED <<users, tenants, projects, assigned>>

(* The DELETE, with its cascades. *)
DropRole(h) ==
  /\ req[h].pc = "drop"
  /\ roles' = roles \ {Role(req[h].tenant, req[h].name)}
  /\ grants' = {g \in grants : g[1] \in roles'}
  /\ assigned' = {a \in assigned : a.role \in roles'}
  /\ Become(h, Idle)
  /\ UNCHANGED <<users, tenants, projects>>

GrantPermission(h, t, n, p) ==
  /\ req[h] = Idle /\ t \in tenants
  /\ permRoleGuard(t, n)
  /\ Become(h, [pc |-> "grant", tenant |-> t, name |-> n, perm |-> p])
  /\ UNCHANGED tables

RevokePermission(h, t, n, p) ==
  /\ req[h] = Idle /\ t \in tenants
  /\ permRoleGuard(t, n)
  /\ Become(h, [pc |-> "withdraw", tenant |-> t, name |-> n, perm |-> p])
  /\ UNCHANGED tables

(* Faulty variant, for TemplatesFixed: the name is resolved as for an      *)
(* assignment.                                                             *)
FaultyGrantPermissionToRole(h) ==
  /\ req[h].pc = "grant"
  /\ grants' = grants \cup (GetRoleInTenant(req[h].tenant, req[h].name) \X {req[h].perm})
  /\ Become(h, Idle)
  /\ UNCHANGED <<users, tenants, projects, roles, assigned>>

GrantPermissionToRole(h) ==
  /\ req[h].pc = "grant"
  /\ grants' = grants \cup (GetTenantRole(req[h].tenant, req[h].name) \X {req[h].perm})
  /\ Become(h, Idle)
  /\ UNCHANGED <<users, tenants, projects, roles, assigned>>

(* Faulty variant, for PermissionsMoveFromWithin: the tenant is left out,  *)
(* and so is row-level security.                                           *)
FaultyRevokePermissionFromRole(h) ==
  /\ req[h].pc = "withdraw"
  /\ grants' = {g \in grants : ~(g[1].name = req[h].name /\ g[2] = req[h].perm)}
  /\ Become(h, Idle)
  /\ UNCHANGED <<users, tenants, projects, roles, assigned>>

RevokePermissionFromRole(h) ==
  /\ req[h].pc = "withdraw"
  /\ grants' = grants \ (GetTenantRole(req[h].tenant, req[h].name) \X {req[h].perm})
  /\ Become(h, Idle)
  /\ UNCHANGED <<users, tenants, projects, roles, assigned>>

-----------------------------------------------------------------------------
(* Assignment, of one role to the users of U (AssignRole has one): the     *)
(* role, then the project, then one transaction for each user.             *)

AssignRole(h, t, n, s, U) ==
  /\ req[h] = Idle /\ t \in tenants /\ U # {}
  /\ GetRoleInTenant(t, n) # {}
  /\ Become(h, [pc |-> IF s = Wide THEN "assign" ELSE "project",
                tenant |-> t, name |-> n, scope |-> s, left |-> U])
  /\ UNCHANGED tables

IsProjectInTenant(h) ==
  /\ req[h].pc = "project"
  /\ req[h].scope \in DOMAIN projects
  /\ projects[req[h].scope] = req[h].tenant
  /\ Become(h, [req[h] EXCEPT !.pc = "assign"])
  /\ UNCHANGED tables

(* A failure, of which a user without a row is one, counts and the loop    *)
(* goes on.                                                                *)
AssignNext(h, u) ==
  LET r == req[h] IN
  /\ r.pc = "assign"
  /\ u \in r.left
  /\ \/ /\ users[u] = "present"
        /\ Add(AssignRoleToUser(u, r.tenant, r.name, r.scope))
     \/ UNCHANGED assigned
  /\ Become(h, IF r.left = {u} THEN Idle ELSE [r EXCEPT !.left = @ \ {u}])
  /\ UNCHANGED <<users, tenants, projects, roles, grants>>

-----------------------------------------------------------------------------
(* Revocation of one assignment. *)

(* GetRoleByName asks for a role of any tenant. *)
RevokeRole(h, t, n, s, u) ==
  /\ req[h] = Idle /\ t \in tenants
  /\ \E r \in roles : r.name = n
  /\ Become(h, [pc |-> "revoke", tenant |-> t, name |-> n, scope |-> s, user |-> u])
  /\ UNCHANGED tables

(* The user's assignments in the tenant and scope, and those a revocation  *)
(* means.                                                                  *)
Held(r) == {a \in assigned : a.user = r.user /\ a.tenant = r.tenant /\ a.scope = r.scope}

Meant(r) == {a \in Held(r) : a.role.name = r.name}

(* What the subquery on the name yields. *)
Named(r) == {x \in Visible(r.tenant) : x.name = r.name}

OneAtMost(S) == \A x, y \in S : x = y

(* Faulty variant, for RevokedMeansGone: the subquery yields one of them.  *)
FaultyRevokeRoleFromUser(h) ==
  LET r == req[h] IN
  /\ r.pc = "revoke"
  /\ \E x \in Named(r) : assigned' = {a \in assigned : ~(a \in Held(r) /\ a.role = x)}
  /\ Become(h, [pc |-> "revoked"])
  /\ UNCHANGED <<users, tenants, projects, roles, grants>>

(* The subquery is a scalar: two rows are an error, but it need not run if *)
(* no row of user_roles is left to compare with it.                        *)
RevokeRoleFromUser(h) ==
  LET r == req[h] IN
  /\ r.pc = "revoke"
  /\ \/ /\ OneAtMost(Named(r)) \/ Held(r) = {}
        /\ assigned' = {a \in assigned : ~(a \in Held(r) /\ a.role \in Named(r))}
        /\ Become(h, [pc |-> "revoked"])
     \/ /\ ~OneAtMost(Named(r))
        /\ Become(h, [pc |-> "failed"])
        /\ UNCHANGED assigned
  /\ UNCHANGED <<users, tenants, projects, roles, grants>>

(* The answer goes out, or a request ends early. *)
Finish(h) ==
  /\ req[h] # Idle
  /\ Become(h, Idle)
  /\ UNCHANGED tables

Next ==
  \/ \E u \in Users, n \in Templates : Register(u, n)
  \/ \E u \in Users : HardDeleteUser(u)
  \/ \E u \in Users, t \in Tenants : CreateTenant(u, t)
  \/ \E t \in Tenants, p \in Projects : CreateProject(t, p)
  \/ \E t \in Tenants, n \in Names : CreateRole(t, n)
  \/ \E h \in Handlers, t \in Tenants, n \in Names : DeleteRole(h, t, n)
  \/ \E h \in Handlers, t \in Tenants, n \in Names, p \in Perms :
       GrantPermission(h, t, n, p) \/ RevokePermission(h, t, n, p)
  \/ \E h \in Handlers, t \in Tenants, n \in Names, s \in Scopes, U \in SUBSET Users :
       AssignRole(h, t, n, s, U)
  \/ \E h \in Handlers, u \in Users : AssignNext(h, u)
  \/ \E h \in Handlers, t \in Tenants, n \in Names, s \in Scopes, u \in Users :
       RevokeRole(h, t, n, s, u)
  \/ \E h \in Handlers :
       \/ DropRole(h) \/ GrantPermissionToRole(h) \/ RevokePermissionFromRole(h)
       \/ IsProjectInTenant(h) \/ RevokeRoleFromUser(h) \/ Finish(h)

Spec == Init /\ [][Next]_vars

-----------------------------------------------------------------------------
(* Roles are resolved "never [to] another tenant's role", and a project    *)
(* belongs to the tenant, "never another tenant's project": so for every   *)
(* row of user_roles, whatever changed between the checks and the insert.  *)
AssignedWithinTenant ==
  \A a \in assigned :
    /\ a.role.owner \in {a.tenant, Shared}
    /\ a.scope # Wide => projects[a.scope] = a.tenant

(* Built-in templates are "platform-managed, shared across tenants, and    *)
(* must not be mutable from a tenant context": neither the templates nor   *)
(* what they grant ever change, also when the tenant's own role that a     *)
(* guard saw is deleted before the write.                                  *)
TemplatesFixed ==
  /\ \A n \in Names : Role(Shared, n) \in roles <=> n \in Templates
  /\ \A n \in Names, p \in Perms :
       <<Role(Shared, n), p>> \in grants <=> <<n, p>> \in TemplateGrants

(* What a user may do in a tenant changes by requests of that tenant only, *)
(* by the creation of the tenant, and with the user's own row.             *)
PermissionsMoveFromWithin ==
  [][\A u \in Users, t \in Tenants, s \in Scopes :
       \/ t \notin tenants
       \/ users'[u] # users[u]
       \/ \E h \in Handlers :
            req'[h] # req[h] /\ req[h] \notin {Idle} \cup Revoked /\ req[h].tenant = t
       \/ GetUserPermissionsScoped(u, t, s)' = GetUserPermissionsScoped(u, t, s)]_vars

(* A revocation that reports success leaves no assignment of that name to  *)
(* the user, in that tenant and scope, whichever role it resolved to when  *)
(* it was assigned.                                                        *)
RevokedMeansGone ==
  [][\A h \in Handlers :
       req'[h].pc = "revoked" => \A r \in Revoking : r = req[h] => Meant(r)' = {}]_vars

(* GetUserRoleAssignments lists the assignments "so the admin console can  *)
(* show and revoke them precisely": the revocation of an assignment that   *)
(* is there does not fail for want of a unique role.                       *)
ShownIsRevocable ==
  [][\A h \in Handlers :
       req'[h].pc = "failed" => \A r \in Revoking : r = req[h] => Meant(r) = {}]_vars
=============================================================================
