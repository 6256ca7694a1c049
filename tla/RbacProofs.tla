----------------------------- MODULE RbacProofs -----------------------------
(* Theorems about Rbac, for every value of its constants. *)
EXTENDS Rbac, TLAPS

(* The fields of a role. *)
LEMMA RoleFields ==
  ASSUME NEW o, NEW n
  PROVE  Role(o, n).owner = o /\ Role(o, n).name = n
BY DEF Role

(* A role is its owner and its name. *)
LEMMA RoleIs ==
  ASSUME NEW r \in Roles
  PROVE  r = Role(r.owner, r.name)
BY DEF Role, Roles

(* The program counter of a request tells its kind. *)
LEMMA RequestFields ==
  ASSUME NEW r \in Request
  PROVE  /\ r.pc = "idle" <=> r = Idle
         /\ r.pc = "drop" <=> r \in Editing
         /\ r.pc \in {"grant", "withdraw"} <=> r \in Granting
         /\ r.pc \in {"project", "assign"} <=> r \in Assigning
         /\ r.pc = "revoke" <=> r \in Revoking
         /\ r.pc \in {"revoked", "failed"} <=> r \in Revoked
BY DEF Request, Idle, Editing, Granting, Assigning, Revoking, Revoked

(* An assignment that goes on keeps its tenant and scope. *)
LEMMA CheckedFields ==
  ASSUME NEW r \in Assigning, NEW U
  PROVE  /\ [r EXCEPT !.pc = "assign"] \in Assigning
         /\ [r EXCEPT !.pc = "assign"].pc = "assign"
         /\ [r EXCEPT !.pc = "assign"].tenant = r.tenant
         /\ [r EXCEPT !.pc = "assign"].scope = r.scope
         /\ [r EXCEPT !.left = @ \ U] \in Assigning
         /\ [r EXCEPT !.left = @ \ U].pc = r.pc
         /\ [r EXCEPT !.left = @ \ U].tenant = r.tenant
         /\ [r EXCEPT !.left = @ \ U].scope = r.scope
         /\ [r EXCEPT !.left = @ \ U].left = r.left \ U
BY DEF Assigning

-----------------------------------------------------------------------------
(* The inductive invariant.  Every row of user_roles refers to rows that   *)
(* exist, its role and its project being the tenant's; and a request past  *)
(* a check still holds what the check saw, for projects do not move.       *)

InScope(t, s) == s = Wide \/ (s \in DOMAIN projects /\ projects[s] = t)

Row(a) ==
  /\ a \in Assignment
  /\ users[a.user] = "present" /\ a.role \in roles /\ a.tenant \in tenants
  /\ a.role.owner \in {a.tenant, Shared}
  /\ InScope(a.tenant, a.scope)

Sound(r) ==
  /\ r \in Request
  /\ r \in Assigning => r.tenant \in tenants
  /\ r \in Assigning /\ r.pc = "assign" => InScope(r.tenant, r.scope)

Tables ==
  /\ users \in [Users -> {"unborn", "present", "gone"}]
  /\ tenants \subseteq Tenants /\ Default \in tenants
  /\ DOMAIN projects \subseteq Projects /\ projects \in [DOMAIN projects -> tenants]
  /\ roles \subseteq Roles
  /\ grants \subseteq roles \X Perms

IInv ==
  /\ Tables
  /\ \A a \in assigned : Row(a)
  /\ req \in [Handlers -> Request]
  /\ \A h \in Handlers : Sound(req[h])

(* The seeds satisfy the inductive invariant. *)
LEMMA InitIInv == Init => IInv
<1> SUFFICES ASSUME Init PROVE IInv
  OBVIOUS
<1>1. \A n \in Templates : Role(Shared, n) \in Roles
  BY RbacAssumption DEF Role, Roles
<1>2. Tables
  BY <1>1, RbacAssumption DEF Init, Tables
<1>3. Idle \in Request /\ Idle \notin Assigning
  BY DEF Request, Idle, Assigning
<1> QED BY <1>2, <1>3 DEF Init, IInv, Sound

(* The inductive invariant implies the properties it is for. *)
LEMMA IInvImplies == IInv => TypeOK /\ AssignedWithinTenant
BY DEF IInv, Tables, Row, InScope, TypeOK, AssignedWithinTenant

-----------------------------------------------------------------------------
(* Steps that change no table. *)

LEMMA RequestStep ==
  ASSUME IInv, NEW h \in Handlers, NEW r, Sound(r), Become(h, r), UNCHANGED tables
  PROVE  IInv'
<1>1. req' = [req EXCEPT ![h] = r] /\ r \in Request
  BY DEF Become, Sound
<1>2. Tables'
  BY DEF IInv, Tables, tables
<1>3. \A a \in assigned' : Row(a)'
  BY DEF IInv, Row, InScope, tables
<1>4. \A x : Sound(x) => Sound(x)'
  BY DEF Sound, InScope, tables
<1>5. req' \in [Handlers -> Request]
  BY <1>1 DEF IInv
<1>6. ASSUME NEW i \in Handlers PROVE Sound(req[i])'
  <2>1. PICK x : x = req'[i]
    OBVIOUS
  <2>2. Sound(x)
    BY <1>1, <2>1 DEF IInv
  <2> QED BY <1>4, <2>1, <2>2 DEF Sound, InScope
<1> QED BY <1>2, <1>3, <1>5, <1>6 DEF IInv

(* Steps that leave users, tenants and projects alone and lose no request. *)
LEMMA RowStep ==
  ASSUME IInv, UNCHANGED <<users, tenants, projects>>,
         roles' \subseteq Roles, grants' \subseteq roles' \X Perms,
         \A a \in assigned' : Row(a) /\ a.role \in roles',
         NEW h \in Handlers, NEW r, Sound(r), Become(h, r) \/ UNCHANGED req
  PROVE  IInv'
<1>1. r \in Request /\ (req' = [req EXCEPT ![h] = r] \/ req' = req)
  BY DEF Become, Sound
<1>2. Tables'
  BY DEF IInv, Tables
<1>3. \A a \in assigned' : Row(a)'
  BY DEF Row, InScope
<1>4. req' \in [Handlers -> Request]
  BY <1>1 DEF IInv
<1>5. ASSUME NEW i \in Handlers PROVE Sound(req[i])'
  <2>1. PICK x : x = req'[i]
    OBVIOUS
  <2>2. Sound(x)
    BY <1>1, <2>1 DEF IInv
  <2> QED BY <2>1, <2>2 DEF Sound, InScope
<1> QED BY <1>2, <1>3, <1>4, <1>5 DEF IInv

(* Steps in which users, tenants or projects grow, or a user goes. *)
LEMMA GrowStep ==
  ASSUME IInv, UNCHANGED <<roles, grants, req>>,
         Tables', tenants \subseteq tenants', DOMAIN projects \subseteq DOMAIN projects',
         \A p \in DOMAIN projects : projects'[p] = projects[p],
         \A a \in assigned' : Row(a)'
  PROVE  IInv'
<1>1. ASSUME NEW i \in Handlers PROVE Sound(req[i])'
  BY DEF IInv, Sound, InScope
<1> QED BY <1>1 DEF IInv

-----------------------------------------------------------------------------
(* What AssignRoleToUser inserts is sound. *)

LEMMA Inserted ==
  ASSUME IInv, NEW u \in Users, NEW t \in tenants, NEW n \in Names, NEW s \in Scopes,
         users[u] = "present", InScope(t, s), NEW a \in AssignRoleToUser(u, t, n, s)
  PROVE  Row(a) /\ a.user = u /\ a.tenant = t
<1>1. PICK r \in GetRoleInTenant(t, n) : a = [user |-> u, role |-> r, tenant |-> t, scope |-> s]
  BY DEF AssignRoleToUser
<1>2. r \in roles /\ r.owner \in {t, Shared}
  BY <1>1, RoleFields DEF GetRoleInTenant
<1>3. a \in Assignment
  BY <1>1, <1>2 DEF IInv, Tables, Assignment
<1> QED BY <1>1, <1>2, <1>3 DEF Row

(* A request that has ended is sound. *)
LEMMA IdleSound == IInv => Sound(Idle)
BY DEF Sound, Request, Idle, Assigning

(* What the invariant says of one request. *)
LEMMA TypesOf ==
  ASSUME IInv, NEW h \in Handlers
  PROVE  req[h] \in Request /\ Sound(req[h])
BY DEF IInv

-----------------------------------------------------------------------------
(* Every action preserves it. *)

LEMMA UsersStep ==
  ASSUME IInv, NEW u \in Users
  PROVE  /\ \A n \in Templates : Register(u, n) => IInv'
         /\ HardDeleteUser(u) => IInv'
<1>1. ASSUME NEW n \in Templates, Register(u, n) PROVE IInv'
  <2>1. Tables'
    BY <1>1 DEF Register, IInv, Tables
  <2>2. \A a \in assigned : Row(a)'
    BY <1>1 DEF Register, IInv, Row, InScope, Assignment
  <2>3. ASSUME NEW a \in AssignRoleToUser(u, Default, n, Wide) PROVE Row(a)'
    <3>1. PICK r \in GetRoleInTenant(Default, n) :
            a = [user |-> u, role |-> r, tenant |-> Default, scope |-> Wide]
      BY DEF AssignRoleToUser
    <3>2. r \in roles /\ r.owner \in {Default, Shared}
      BY <3>1, RoleFields DEF GetRoleInTenant
    <3>3. Default \in tenants
      BY DEF IInv, Tables
    <3> QED BY <1>1, <3>1, <3>2, <3>3 DEF Register, IInv, Tables, Row, InScope, Assignment, Scopes
  <2> QED BY <1>1, <2>1, <2>2, <2>3, GrowStep DEF Register, Add
<1>2. ASSUME HardDeleteUser(u) PROVE IInv'
  <2>1. Tables'
    BY <1>2 DEF HardDeleteUser, IInv, Tables
  <2>2. \A a \in assigned' : Row(a)'
    BY <1>2 DEF HardDeleteUser, IInv, Row, InScope, Assignment
  <2> QED BY <1>2, <2>1, <2>2, GrowStep DEF HardDeleteUser
<1> QED BY <1>1, <1>2

(* CreateTenant, CreateProject and CreateRole keep the invariant. *)
LEMMA CreationsStep ==
  ASSUME IInv, NEW t \in Tenants
  PROVE  /\ \A u \in Users : CreateTenant(u, t) => IInv'
         /\ \A p \in Projects : CreateProject(t, p) => IInv'
         /\ \A n \in Names : CreateRole(t, n) => IInv'
<1>1. ASSUME NEW u \in Users, CreateTenant(u, t) PROVE IInv'
  <2>1. Tables'
    BY <1>1 DEF CreateTenant, IInv, Tables
  <2>2. \A a \in assigned : Row(a)'
    BY <1>1 DEF CreateTenant, IInv, Row, InScope
  <2>3. ASSUME NEW r \in GetTenantRole(Shared, Admin),
               NEW a, a = [user |-> u, role |-> r, tenant |-> t, scope |-> Wide]
        PROVE  Row(a)'
    <3>1. r \in roles /\ r.owner = Shared
      BY RoleFields DEF GetTenantRole
    <3> QED BY <1>1, <2>3, <3>1 DEF CreateTenant, IInv, Tables, Row, InScope, Assignment, Scopes
  <2> QED BY <1>1, <2>1, <2>2, <2>3, GrowStep DEF CreateTenant, Add
<1>2. ASSUME NEW p \in Projects, CreateProject(t, p) PROVE IInv'
  <2>1. Tables'
    BY <1>2 DEF CreateProject, IInv, Tables
  <2>2. DOMAIN projects \subseteq DOMAIN projects'
        /\ \A q \in DOMAIN projects : projects'[q] = projects[q]
    BY <1>2 DEF CreateProject
  <2>3. \A a \in assigned' : Row(a)'
    BY <1>2, <2>2 DEF CreateProject, IInv, Row, InScope
  <2> QED BY <1>2, <2>1, <2>2, <2>3, GrowStep DEF CreateProject
<1>3. ASSUME NEW n \in Names, CreateRole(t, n) PROVE IInv'
  <2>1. Role(t, n) \in Roles
    BY DEF Role, Roles
  <2>2. roles' \subseteq Roles /\ grants' \subseteq roles' \X Perms
    BY <1>3, <2>1 DEF CreateRole, IInv, Tables
  <2>3. \A a \in assigned' : Row(a) /\ a.role \in roles'
    BY <1>3 DEF CreateRole, IInv, Row
  <2>4. PICK h : h \in Handlers \/ Handlers = {}
    OBVIOUS
  <2>5. CASE Handlers = {}
    BY <1>3, <2>2, <2>3, <2>5 DEF CreateRole, IInv, Tables, Row, InScope
  <2>6. CASE h \in Handlers
    BY <1>3, <2>2, <2>3, <2>6, IdleSound, RowStep DEF CreateRole
  <2> QED BY <2>4, <2>5, <2>6
<1> QED BY <1>1, <1>2, <1>3

(* The first statements of the two-step handlers, and the ends. *)
LEMMA ChecksStep ==
  ASSUME IInv, NEW h \in Handlers
  PROVE  /\ \A t \in Tenants, n \in Names : DeleteRole(h, t, n) => IInv'
         /\ \A t \in Tenants, n \in Names, p \in Perms :
              GrantPermission(h, t, n, p) \/ RevokePermission(h, t, n, p) => IInv'
         /\ \A t \in Tenants, n \in Names, s \in Scopes, U \in SUBSET Users :
              AssignRole(h, t, n, s, U) => IInv'
         /\ \A t \in Tenants, n \in Names, s \in Scopes, u \in Users :
              RevokeRole(h, t, n, s, u) => IInv'
         /\ IsProjectInTenant(h) => IInv'
         /\ Finish(h) => IInv'
<1>1. ASSUME NEW t \in Tenants, NEW n \in Names, DeleteRole(h, t, n) PROVE IInv'
  <2>1. Sound([pc |-> "drop", tenant |-> t, name |-> n])
    BY DEF Sound, Request, Editing, Assigning
  <2> QED BY <1>1, <2>1, RequestStep DEF DeleteRole
<1>2. ASSUME NEW t \in Tenants, NEW n \in Names, NEW p \in Perms,
             GrantPermission(h, t, n, p) \/ RevokePermission(h, t, n, p)
      PROVE  IInv'
  <2>1. \A c \in {"grant", "withdraw"} : Sound([pc |-> c, tenant |-> t, name |-> n, perm |-> p])
    BY DEF Sound, Request, Granting, Assigning
  <2>2. CASE GrantPermission(h, t, n, p)
    BY <2>1, <2>2, RequestStep DEF GrantPermission
  <2>3. CASE RevokePermission(h, t, n, p)
    BY <2>1, <2>3, RequestStep DEF RevokePermission
  <2> QED BY <1>2, <2>2, <2>3
<1>3. ASSUME NEW t \in Tenants, NEW n \in Names, NEW s \in Scopes, NEW U \in SUBSET Users,
             AssignRole(h, t, n, s, U)
      PROVE  IInv'
  <2> DEFINE r == [pc |-> IF s = Wide THEN "assign" ELSE "project",
                   tenant |-> t, name |-> n, scope |-> s, left |-> U]
  <2>1. Sound(r)
    BY <1>3 DEF Sound, Request, Assigning, InScope, AssignRole
  <2>2. Become(h, r) /\ UNCHANGED tables
    BY <1>3 DEF AssignRole
  <2> HIDE DEF r
  <2> QED BY <2>1, <2>2, RequestStep
<1>4. ASSUME NEW t \in Tenants, NEW n \in Names, NEW s \in Scopes, NEW u \in Users,
             RevokeRole(h, t, n, s, u)
      PROVE  IInv'
  <2>1. Sound([pc |-> "revoke", tenant |-> t, name |-> n, scope |-> s, user |-> u])
    BY DEF Sound, Request, Revoking, Assigning
  <2> QED BY <1>4, <2>1, RequestStep DEF RevokeRole
<1>5. ASSUME IsProjectInTenant(h) PROVE IInv'
  <2>1. req[h] \in Assigning /\ Sound(req[h])
    BY <1>5, TypesOf, RequestFields DEF IsProjectInTenant
  <2>2. Sound([req[h] EXCEPT !.pc = "assign"])
    BY <1>5, <2>1, CheckedFields DEF IsProjectInTenant, Sound, InScope, Request
  <2> QED BY <1>5, <2>2, RequestStep DEF IsProjectInTenant
<1>6. ASSUME Finish(h) PROVE IInv'
  BY <1>6, IdleSound, RequestStep DEF Finish
<1> QED BY <1>1, <1>2, <1>3, <1>4, <1>5, <1>6

(* The second steps of the role handlers keep the invariant. *)
LEMMA WritesStep ==
  ASSUME IInv, NEW h \in Handlers
  PROVE  /\ DropRole(h) => IInv'
         /\ GrantPermissionToRole(h) => IInv'
         /\ RevokePermissionFromRole(h) => IInv'
         /\ RevokeRoleFromUser(h) => IInv'
<1>0. Sound(Idle)
  BY IdleSound
<1>1. ASSUME DropRole(h) PROVE IInv'
  <2>1. roles' \subseteq Roles /\ grants' \subseteq roles' \X Perms
    BY <1>1 DEF DropRole, IInv, Tables
  <2>2. \A a \in assigned' : Row(a) /\ a.role \in roles'
    BY <1>1 DEF DropRole, IInv
  <2> QED BY <1>0, <1>1, <2>1, <2>2, RowStep DEF DropRole
<1>2. ASSUME GrantPermissionToRole(h) PROVE IInv'
  <2>1. req[h].perm \in Perms
    BY <1>2, TypesOf, RequestFields DEF GrantPermissionToRole, Granting
  <2>2. roles' \subseteq Roles /\ grants' \subseteq roles' \X Perms
    BY <1>2, <2>1 DEF GrantPermissionToRole, GetTenantRole, IInv, Tables
  <2>3. \A a \in assigned' : Row(a) /\ a.role \in roles'
    BY <1>2 DEF GrantPermissionToRole, IInv, Row
  <2> QED BY <1>0, <1>2, <2>2, <2>3, RowStep DEF GrantPermissionToRole
<1>3. ASSUME RevokePermissionFromRole(h) PROVE IInv'
  <2>1. roles' \subseteq Roles /\ grants' \subseteq roles' \X Perms
    BY <1>3 DEF RevokePermissionFromRole, IInv, Tables
  <2>2. \A a \in assigned' : Row(a) /\ a.role \in roles'
    BY <1>3 DEF RevokePermissionFromRole, IInv, Row
  <2> QED BY <1>0, <1>3, <2>1, <2>2, RowStep DEF RevokePermissionFromRole
<1>4. ASSUME RevokeRoleFromUser(h) PROVE IInv'
  <2>1. \A c \in {"revoked", "failed"} : Sound([pc |-> c])
    BY DEF Sound, Request, Revoked, Assigning
  <2>2. roles' \subseteq Roles /\ grants' \subseteq roles' \X Perms
    BY <1>4 DEF RevokeRoleFromUser, IInv, Tables
  <2>3. \A a \in assigned' : Row(a) /\ a.role \in roles'
    BY <1>4 DEF RevokeRoleFromUser, IInv, Row
  <2>4. Become(h, [pc |-> "revoked"]) \/ Become(h, [pc |-> "failed"])
    BY <1>4 DEF RevokeRoleFromUser
  <2> QED BY <1>4, <2>1, <2>2, <2>3, <2>4, RowStep DEF RevokeRoleFromUser
<1> QED BY <1>1, <1>2, <1>3, <1>4

(* An assignment keeps the invariant: its project was checked and has not  *)
(* moved.                                                                  *)
LEMMA AssignStep ==
  ASSUME IInv, NEW h \in Handlers, NEW u \in Users, AssignNext(h, u)
  PROVE  IInv'
<1> DEFINE r == req[h]
<1>1. r \in Assigning /\ r.pc = "assign" /\ Sound(r)
  BY TypesOf, RequestFields DEF AssignNext
<1>2. r.tenant \in tenants /\ r.name \in Names /\ r.scope \in Scopes /\ InScope(r.tenant, r.scope)
  BY <1>1 DEF Sound, Assigning
<1>3. \A a \in assigned' : Row(a)
  <2>1. CASE UNCHANGED assigned
    BY <2>1 DEF IInv
  <2>2. CASE users[u] = "present" /\ Add(AssignRoleToUser(u, r.tenant, r.name, r.scope))
    BY <1>2, <2>2, Inserted DEF IInv, Add
  <2> QED BY <2>1, <2>2 DEF AssignNext
<1>4. \A a \in assigned' : a.role \in roles'
  BY <1>3 DEF AssignNext, Row
<1>5. Sound([r EXCEPT !.left = @ \ {u}])
  BY <1>1, CheckedFields DEF Sound, Request
<1>6. roles' \subseteq Roles /\ grants' \subseteq roles' \X Perms
  BY DEF AssignNext, IInv, Tables
<1>7. Become(h, Idle) \/ Become(h, [r EXCEPT !.left = @ \ {u}])
  BY DEF AssignNext
<1> QED BY <1>3, <1>4, <1>5, <1>6, <1>7, IdleSound, RowStep DEF AssignNext

(* Every step keeps the inductive invariant. *)
LEMMA IInvStep == IInv /\ [Next]_vars => IInv'
<1> SUFFICES ASSUME IInv, [Next]_vars PROVE IInv'
  OBVIOUS
<1>1. CASE UNCHANGED vars
  BY <1>1 DEF IInv, Tables, Row, Sound, InScope, vars, tables
<1> DEFINE Goal == IInv'
<1>2. ASSUME Next PROVE Goal
  <2>1. ASSUME NEW u \in Users, NEW n \in Templates, Register(u, n) PROVE Goal
    BY <2>1, UsersStep
  <2>2. ASSUME NEW u \in Users, HardDeleteUser(u) PROVE Goal
    BY <2>2, UsersStep
  <2>3. ASSUME NEW u \in Users, NEW t \in Tenants, CreateTenant(u, t) PROVE Goal
    BY <2>3, CreationsStep
  <2>4. ASSUME NEW t \in Tenants, NEW p \in Projects, CreateProject(t, p) PROVE Goal
    BY <2>4, CreationsStep
  <2>5. ASSUME NEW t \in Tenants, NEW n \in Names, CreateRole(t, n) PROVE Goal
    BY <2>5, CreationsStep
  <2>6. ASSUME NEW h \in Handlers, NEW t \in Tenants, NEW n \in Names, DeleteRole(h, t, n) PROVE Goal
    BY <2>6, ChecksStep
  <2>7. ASSUME NEW h \in Handlers, NEW t \in Tenants, NEW n \in Names, NEW p \in Perms,
               GrantPermission(h, t, n, p) \/ RevokePermission(h, t, n, p)
        PROVE  Goal
    BY <2>7, ChecksStep
  <2>8. ASSUME NEW h \in Handlers, NEW t \in Tenants, NEW n \in Names, NEW s \in Scopes,
               NEW U \in SUBSET Users, AssignRole(h, t, n, s, U)
        PROVE  Goal
    BY <2>8, ChecksStep
  <2>9. ASSUME NEW h \in Handlers, NEW u \in Users, AssignNext(h, u) PROVE Goal
    BY <2>9, AssignStep
  <2>10. ASSUME NEW h \in Handlers, NEW t \in Tenants, NEW n \in Names, NEW s \in Scopes,
                NEW u \in Users, RevokeRole(h, t, n, s, u)
         PROVE  Goal
    BY <2>10, ChecksStep
  <2>11. ASSUME NEW h \in Handlers,
                \/ DropRole(h) \/ GrantPermissionToRole(h) \/ RevokePermissionFromRole(h)
                \/ IsProjectInTenant(h) \/ RevokeRoleFromUser(h) \/ Finish(h)
         PROVE  Goal
    BY <2>11, ChecksStep, WritesStep
  <2> HIDE DEF Goal
  <2> QED BY <1>2, <2>1, <2>2, <2>3, <2>4, <2>5, <2>6, <2>7, <2>8, <2>9, <2>10, <2>11 DEF Next
<1> QED BY <1>1, <1>2 DEF Goal

(* The inductive invariant always holds. *)
LEMMA AlwaysIInv == Spec => []IInv
BY InitIInv, IInvStep, PTL DEF Spec

(* No reachable state leaves the types or breaks a foreign key.            *)
THEOREM TypeCorrect == Spec => []TypeOK
BY AlwaysIInv, IInvImplies, PTL

(* Whatever happens between the checks of an assignment and its insert,    *)
(* the role is one of the tenant or a template and the project is one of   *)
(* the tenant.                                                             *)
THEOREM AssignmentsStayWithin == Spec => []AssignedWithinTenant
BY AlwaysIInv, IInvImplies, PTL

-----------------------------------------------------------------------------
(* Templates. *)

LEMMA TemplatesInit == Init => TemplatesFixed
<1> SUFFICES ASSUME Init PROVE TemplatesFixed
  OBVIOUS
<1>1. \A n, m : Role(Shared, n) = Role(Shared, m) => n = m
  BY RoleFields
<1>2. ASSUME NEW n \in Names PROVE Role(Shared, n) \in roles <=> n \in Templates
  BY <1>1 DEF Init
<1>3. ASSUME NEW n \in Names, NEW p \in Perms
      PROVE  <<Role(Shared, n), p>> \in grants <=> <<n, p>> \in TemplateGrants
  <2>1. ASSUME <<Role(Shared, n), p>> \in grants PROVE <<n, p>> \in TemplateGrants
    <3>1. PICK g \in TemplateGrants : <<Role(Shared, n), p>> = <<Role(Shared, g[1]), g[2]>>
      BY <2>1 DEF Init
    <3>2. g = <<g[1], g[2]>> /\ n = g[1] /\ p = g[2]
      BY <1>1, <3>1, RbacAssumption
    <3> QED BY <3>2
  <2>2. ASSUME <<n, p>> \in TemplateGrants PROVE <<Role(Shared, n), p>> \in grants
    BY <2>2 DEF Init
  <2> QED BY <2>1, <2>2
<1> QED BY <1>2, <1>3 DEF TemplatesFixed

(* A write for a tenant touches the tenant's own role only.                *)
LEMMA TemplatesStep == IInv /\ TemplatesFixed /\ [Next]_vars => TemplatesFixed'
<1> SUFFICES ASSUME IInv, TemplatesFixed, [Next]_vars PROVE TemplatesFixed'
  OBVIOUS
<1>1. \A t \in Tenants : \A n, m : Role(t, n) # Role(Shared, m)
  BY RoleFields, RbacAssumption
<1>2. CASE UNCHANGED <<roles, grants>>
  BY <1>2 DEF TemplatesFixed
<1>3. ASSUME NEW t \in Tenants, NEW n \in Names, CreateRole(t, n) PROVE TemplatesFixed'
  BY <1>1, <1>3 DEF CreateRole, TemplatesFixed
<1>4. ASSUME NEW h \in Handlers, DropRole(h) PROVE TemplatesFixed'
  <2>1. req[h].tenant \in Tenants
    BY <1>4, TypesOf, RequestFields DEF DropRole, Editing
  <2>2. \A m : Role(Shared, m) \in roles' <=> Role(Shared, m) \in roles
    BY <1>1, <1>4, <2>1 DEF DropRole
  <2>3. \A m, p : <<Role(Shared, m), p>> \in grants' <=> <<Role(Shared, m), p>> \in grants
    BY <1>4, <2>2 DEF DropRole, IInv, Tables
  <2> QED BY <2>2, <2>3 DEF TemplatesFixed
<1>5. ASSUME NEW h \in Handlers, GrantPermissionToRole(h) \/ RevokePermissionFromRole(h)
      PROVE  TemplatesFixed'
  <2>1. req[h].tenant \in Tenants
    BY <1>5, TypesOf, RequestFields DEF GrantPermissionToRole, RevokePermissionFromRole, Granting
  <2>2. \A m, p : <<Role(Shared, m), p>> \notin GetTenantRole(req[h].tenant, req[h].name) \X {req[h].perm}
    BY <1>1, <2>1 DEF GetTenantRole
  <2>3. \A m, p : <<Role(Shared, m), p>> \in grants' <=> <<Role(Shared, m), p>> \in grants
    BY <1>5, <2>2 DEF GrantPermissionToRole, RevokePermissionFromRole
  <2> QED BY <1>5, <2>3 DEF TemplatesFixed, GrantPermissionToRole, RevokePermissionFromRole
<1> DEFINE Goal == TemplatesFixed'
<1>6. ASSUME UNCHANGED <<roles, grants>> PROVE Goal
  BY <1>2, <1>6
<1> HIDE DEF Goal
<1>7. ASSUME UNCHANGED vars PROVE Goal
  BY <1>6, <1>7 DEF vars, tables
<1>8. ASSUME Next PROVE Goal
  <2>1. ASSUME NEW u \in Users, NEW n \in Templates, Register(u, n) PROVE Goal
    BY <1>6, <2>1 DEF Register
  <2>2. ASSUME NEW u \in Users, HardDeleteUser(u) PROVE Goal
    BY <1>6, <2>2 DEF HardDeleteUser
  <2>3. ASSUME NEW u \in Users, NEW t \in Tenants, CreateTenant(u, t) PROVE Goal
    BY <1>6, <2>3 DEF CreateTenant
  <2>4. ASSUME NEW t \in Tenants, NEW p \in Projects, CreateProject(t, p) PROVE Goal
    BY <1>6, <2>4 DEF CreateProject
  <2>5. ASSUME NEW t \in Tenants, NEW n \in Names, CreateRole(t, n) PROVE Goal
    BY <1>3, <2>5 DEF Goal
  <2>6. ASSUME NEW h \in Handlers, NEW t \in Tenants, NEW n \in Names, DeleteRole(h, t, n) PROVE Goal
    BY <1>6, <2>6 DEF DeleteRole, tables
  <2>7. ASSUME NEW h \in Handlers, NEW t \in Tenants, NEW n \in Names, NEW p \in Perms,
               GrantPermission(h, t, n, p) \/ RevokePermission(h, t, n, p)
        PROVE  Goal
    BY <1>6, <2>7 DEF GrantPermission, RevokePermission, tables
  <2>8. ASSUME NEW h \in Handlers, NEW t \in Tenants, NEW n \in Names, NEW s \in Scopes,
               NEW U \in SUBSET Users, AssignRole(h, t, n, s, U)
        PROVE  Goal
    BY <1>6, <2>8 DEF AssignRole, tables
  <2>9. ASSUME NEW h \in Handlers, NEW u \in Users, AssignNext(h, u) PROVE Goal
    BY <1>6, <2>9 DEF AssignNext
  <2>10. ASSUME NEW h \in Handlers, NEW t \in Tenants, NEW n \in Names, NEW s \in Scopes,
                NEW u \in Users, RevokeRole(h, t, n, s, u)
         PROVE  Goal
    BY <1>6, <2>10 DEF RevokeRole, tables
  <2>11. ASSUME NEW h \in Handlers,
                \/ DropRole(h) \/ GrantPermissionToRole(h) \/ RevokePermissionFromRole(h)
                \/ IsProjectInTenant(h) \/ RevokeRoleFromUser(h) \/ Finish(h)
         PROVE  Goal
    BY <1>4, <1>5, <1>6, <2>11 DEF Goal, IsProjectInTenant, RevokeRoleFromUser, Finish, tables
  <2> QED BY <1>8, <2>1, <2>2, <2>3, <2>4, <2>5, <2>6, <2>7, <2>8, <2>9, <2>10, <2>11 DEF Next
<1> QED BY <1>7, <1>8 DEF Goal

(* No request of any tenant ever changes a template or what it grants.     *)
THEOREM TemplatesUntouched == Spec => []TemplatesFixed
BY TemplatesInit, TemplatesStep, AlwaysIInv, PTL DEF Spec

-----------------------------------------------------------------------------
(* Permissions move from within. *)

LEMMA SamePermissions ==
  ASSUME NEW u \in Users, NEW t \in Tenants, NEW s \in Scopes,
         \A a \in assigned : a.user = u /\ a.tenant = t =>
           /\ a \in assigned'
           /\ \A p \in Perms : <<a.role, p>> \in grants' <=> <<a.role, p>> \in grants,
         \A a \in assigned' : a.user = u /\ a.tenant = t => a \in assigned
  PROVE  GetUserPermissionsScoped(u, t, s)' = GetUserPermissionsScoped(u, t, s)
BY DEF GetUserPermissionsScoped

(* A step of the request in h, on behalf of t.                             *)
Own(t) ==
  \E h \in Handlers : req'[h] # req[h] /\ req[h] \notin {Idle} \cup Revoked /\ req[h].tenant = t

(* A request under way that changes is a step of its tenant's own. *)
LEMMA OwnStep ==
  ASSUME IInv, NEW h \in Handlers, NEW r, Become(h, r), r # req[h],
         req[h].pc \notin {"idle", "revoked", "failed"}
  PROVE  Own(req[h].tenant)
BY TypesOf, RequestFields DEF IInv, Become, Own, Idle, Revoked

(* The role of an assignment in t is neither of another tenant nor gone.   *)
LEMMA NotForeign ==
  ASSUME IInv, NEW a \in assigned, NEW t \in Tenants, t # a.tenant, NEW n
  PROVE  a.role # Role(t, n)
BY RoleFields, RbacAssumption DEF IInv, Row

(* A step that is not the tenant's own leaves what its users may do there. *)
LEMMA MoveStep ==
  ASSUME IInv, [Next]_vars, NEW u \in Users, NEW t \in Tenants, NEW s \in Scopes,
         ~Own(t), users'[u] = users[u], t \in tenants
  PROVE  GetUserPermissionsScoped(u, t, s)' = GetUserPermissionsScoped(u, t, s)
<1> DEFINE Goal == GetUserPermissionsScoped(u, t, s)' = GetUserPermissionsScoped(u, t, s)
<1>1. ASSUME UNCHANGED <<grants, assigned>> PROVE Goal
  BY <1>1 DEF GetUserPermissionsScoped
<1>2. ASSUME NEW v \in Users, NEW n \in Templates, Register(v, n) PROVE Goal
  <2>1. v # u
    BY <1>2 DEF Register, IInv, Tables
  <2>2. \A a \in assigned' : a.user = u => a \in assigned
    BY <1>2, <2>1 DEF Register, Add, AssignRoleToUser
  <2> QED BY <1>2, <2>2, SamePermissions DEF Register, Add
<1>3. ASSUME NEW v \in Users, HardDeleteUser(v) PROVE Goal
  <2>1. v # u
    BY <1>3 DEF HardDeleteUser, IInv, Tables
  <2> QED BY <1>3, <2>1, SamePermissions DEF HardDeleteUser
<1>4. ASSUME NEW v \in Users, NEW x \in Tenants, CreateTenant(v, x) PROVE Goal
  <2>1. \A a \in assigned' : a.tenant = t => a \in assigned
    BY <1>4 DEF CreateTenant, Add
  <2> QED BY <1>4, <2>1, SamePermissions DEF CreateTenant, Add
<1>5. ASSUME NEW h \in Handlers, DropRole(h) PROVE Goal
  <2>1. req[h].tenant \in Tenants /\ req[h].tenant # t
    BY <1>5, TypesOf, RequestFields, OwnStep DEF DropRole, Editing, Idle
  <2>2. ASSUME NEW a \in assigned, a.tenant = t PROVE a.role \in roles'
    BY <1>5, <2>1, <2>2, NotForeign DEF DropRole, IInv, Row
  <2>3. \A a \in assigned : a.tenant = t => a \in assigned'
    BY <1>5, <2>2 DEF DropRole
  <2>4. \A a \in assigned, p \in Perms :
          a.tenant = t => (<<a.role, p>> \in grants' <=> <<a.role, p>> \in grants)
    BY <1>5, <2>2 DEF DropRole
  <2> QED BY <1>5, <2>3, <2>4, SamePermissions DEF DropRole
<1>6. ASSUME NEW h \in Handlers, GrantPermissionToRole(h) \/ RevokePermissionFromRole(h) PROVE Goal
  <2>1. req[h].tenant \in Tenants /\ req[h].tenant # t
    BY <1>6, TypesOf, RequestFields, OwnStep
       DEF GrantPermissionToRole, RevokePermissionFromRole, Granting, Idle
  <2>2. \A a \in assigned : a.tenant = t => a.role \notin GetTenantRole(req[h].tenant, req[h].name)
    BY <2>1, NotForeign DEF GetTenantRole
  <2>3. \A a \in assigned, p \in Perms :
          a.tenant = t => (<<a.role, p>> \in grants' <=> <<a.role, p>> \in grants)
    BY <1>6, <2>2 DEF GrantPermissionToRole, RevokePermissionFromRole
  <2> QED BY <1>6, <2>3, SamePermissions DEF GrantPermissionToRole, RevokePermissionFromRole
<1>7. ASSUME NEW h \in Handlers, NEW v \in Users, AssignNext(h, v) PROVE Goal
  <2>1. req[h] \in Assigning
    BY <1>7, TypesOf, RequestFields DEF AssignNext
  <2>2. PICK r : Become(h, r) /\ (r = Idle \/ r = [req[h] EXCEPT !.left = @ \ {v}])
    BY <1>7 DEF AssignNext
  <2>3. r # req[h]
    <3>1. CASE r = Idle
      BY <2>1, <3>1 DEF Idle, Assigning
    <3>2. CASE r = [req[h] EXCEPT !.left = @ \ {v}]
      <4>1. r.left = req[h].left \ {v}
        BY <2>1, <3>2 DEF Assigning
      <4>2. v \in req[h].left
        BY <1>7 DEF AssignNext
      <4> QED BY <4>1, <4>2
    <3> QED BY <2>2, <3>1, <3>2
  <2>4. req[h].tenant # t
    BY <1>7, <2>2, <2>3, OwnStep DEF AssignNext
  <2>5. PICK new : /\ assigned' = assigned \cup new /\ grants' = grants
                   /\ new = {} \/ new = AssignRoleToUser(v, req[h].tenant, req[h].name, req[h].scope)
    <3>1. UNCHANGED assigned \/ Add(AssignRoleToUser(v, req[h].tenant, req[h].name, req[h].scope))
      BY <1>7 DEF AssignNext
    <3>2. grants' = grants
      BY <1>7 DEF AssignNext
    <3>3. CASE UNCHANGED assigned
      BY <3>2, <3>3
    <3>4. CASE Add(AssignRoleToUser(v, req[h].tenant, req[h].name, req[h].scope))
      BY <3>2, <3>4 DEF Add
    <3> QED BY <3>1, <3>3, <3>4
  <2>6. \A a \in new : a.tenant = req[h].tenant
    BY <2>5 DEF AssignRoleToUser
  <2> QED BY <2>4, <2>5, <2>6, SamePermissions
<1>8. ASSUME NEW h \in Handlers, RevokeRoleFromUser(h) PROVE Goal
  <2>1. req[h] \in Revoking
    BY <1>8, TypesOf, RequestFields DEF RevokeRoleFromUser
  <2>2. req[h].tenant # t
    BY <1>8, <2>1, OwnStep DEF RevokeRoleFromUser, Revoking
  <2>3. \A a \in assigned : a.tenant = t => a \in assigned'
    BY <1>8, <2>2 DEF RevokeRoleFromUser, Held
  <2> QED BY <1>8, <2>3, SamePermissions DEF RevokeRoleFromUser
<1> HIDE DEF Goal
<1>9. ASSUME UNCHANGED vars PROVE Goal
  BY <1>1, <1>9 DEF vars, tables
<1>10. ASSUME Next PROVE Goal
  <2>1. ASSUME NEW x \in Tenants, NEW p \in Projects, CreateProject(x, p) PROVE Goal
    BY <1>1, <2>1 DEF CreateProject
  <2>2. ASSUME NEW x \in Tenants, NEW n \in Names, CreateRole(x, n) PROVE Goal
    BY <1>1, <2>2 DEF CreateRole
  <2>3. ASSUME NEW h \in Handlers, NEW x \in Tenants, NEW n \in Names, DeleteRole(h, x, n) PROVE Goal
    BY <1>1, <2>3 DEF DeleteRole, tables
  <2>4. ASSUME NEW h \in Handlers, NEW x \in Tenants, NEW n \in Names, NEW p \in Perms,
               GrantPermission(h, x, n, p) \/ RevokePermission(h, x, n, p)
        PROVE  Goal
    BY <1>1, <2>4 DEF GrantPermission, RevokePermission, tables
  <2>5. ASSUME NEW h \in Handlers, NEW x \in Tenants, NEW n \in Names, NEW c \in Scopes,
               NEW U \in SUBSET Users, AssignRole(h, x, n, c, U)
        PROVE  Goal
    BY <1>1, <2>5 DEF AssignRole, tables
  <2>6. ASSUME NEW h \in Handlers, NEW x \in Tenants, NEW n \in Names, NEW c \in Scopes,
               NEW v \in Users, RevokeRole(h, x, n, c, v)
        PROVE  Goal
    BY <1>1, <2>6 DEF RevokeRole, tables
  <2>7. ASSUME NEW h \in Handlers,
               \/ DropRole(h) \/ GrantPermissionToRole(h) \/ RevokePermissionFromRole(h)
               \/ IsProjectInTenant(h) \/ RevokeRoleFromUser(h) \/ Finish(h)
        PROVE  Goal
    BY <1>1, <1>5, <1>6, <1>8, <2>7 DEF IsProjectInTenant, Finish, tables
  <2> QED BY <1>2, <1>3, <1>4, <1>7, <1>10, <2>1, <2>2, <2>3, <2>4, <2>5, <2>6, <2>7 DEF Next
<1> QED BY <1>9, <1>10 DEF Goal

(* What a user may do in a tenant moves only by requests of that tenant,   *)
(* by the creation of the tenant and with the user's own row: assignments  *)
(* refer to roles of the tenant or to templates, and those never change.   *)
THEOREM PermissionsIsolated == Spec => PermissionsMoveFromWithin
<1>1. IInv /\ [Next]_vars =>
        [\A u \in Users, t \in Tenants, s \in Scopes :
           \/ t \notin tenants
           \/ users'[u] # users[u]
           \/ \E h \in Handlers :
                req'[h] # req[h] /\ req[h] \notin {Idle} \cup Revoked /\ req[h].tenant = t
           \/ GetUserPermissionsScoped(u, t, s)' = GetUserPermissionsScoped(u, t, s)]_vars
  BY MoveStep DEF Own
<1> QED BY <1>1, AlwaysIInv, PTL DEF Spec, PermissionsMoveFromWithin

-----------------------------------------------------------------------------
(* Revocation. *)

(* A successful revocation is the DELETE of that request.                  *)
LEMMA RevocationIsDelete ==
  ASSUME IInv, Next, NEW h \in Handlers, req[h] \in Revoking, req'[h].pc = "revoked"
  PROVE  RevokeRoleFromUser(h)
<1>1. req[h].pc = "revoke"
  BY DEF Revoking
<1>2. req'[h] # req[h]
  BY <1>1
<1>3. ASSUME NEW i \in Handlers, NEW r, Become(i, r) PROVE i = h /\ r.pc = "revoked"
  BY <1>2, <1>3 DEF Become, IInv
<1>4. Idle.pc = "idle" /\ req[h] # Idle
  BY <1>1 DEF Idle
<1> DEFINE Goal == RevokeRoleFromUser(h)
<1>5. ASSUME UNCHANGED req PROVE Goal
  BY <1>2, <1>5
<1>6. ASSUME NEW i \in Handlers, Become(i, Idle) PROVE Goal
  BY <1>3, <1>4, <1>6
<1>7. ASSUME NEW i \in Handlers, req[i] = Idle, NEW r, Become(i, r) PROVE Goal
  BY <1>3, <1>4, <1>7
<1>8. ASSUME NEW i \in Handlers, IsProjectInTenant(i) PROVE Goal
  BY <1>1, <1>3, <1>8 DEF IsProjectInTenant
<1>9. ASSUME NEW i \in Handlers, NEW u \in Users, AssignNext(i, u) PROVE Goal
  <2>1. PICK r : Become(i, r)
    BY <1>9 DEF AssignNext
  <2> QED BY <1>1, <1>3, <1>9, <2>1 DEF AssignNext
<1>10. ASSUME NEW i \in Handlers, RevokeRoleFromUser(i) PROVE Goal
  <2>1. PICK r : Become(i, r)
    BY <1>10 DEF RevokeRoleFromUser
  <2> QED BY <1>3, <1>10, <2>1
<1> HIDE DEF Goal
<1>11. ASSUME NEW u \in Users, NEW n \in Templates, Register(u, n) PROVE Goal
  BY <1>5, <1>11 DEF Register
<1>12. ASSUME NEW u \in Users, HardDeleteUser(u) PROVE Goal
  BY <1>5, <1>12 DEF HardDeleteUser
<1>13. ASSUME NEW u \in Users, NEW t \in Tenants, CreateTenant(u, t) PROVE Goal
  BY <1>5, <1>13 DEF CreateTenant
<1>14. ASSUME NEW t \in Tenants, NEW p \in Projects, CreateProject(t, p) PROVE Goal
  BY <1>5, <1>14 DEF CreateProject
<1>15. ASSUME NEW t \in Tenants, NEW n \in Names, CreateRole(t, n) PROVE Goal
  BY <1>5, <1>15 DEF CreateRole
<1>16. ASSUME NEW i \in Handlers, NEW t \in Tenants, NEW n \in Names, DeleteRole(i, t, n) PROVE Goal
  BY <1>7, <1>16 DEF DeleteRole
<1>17. ASSUME NEW i \in Handlers, NEW t \in Tenants, NEW n \in Names, NEW p \in Perms,
              GrantPermission(i, t, n, p) \/ RevokePermission(i, t, n, p)
       PROVE  Goal
  BY <1>7, <1>17 DEF GrantPermission, RevokePermission
<1>18. ASSUME NEW i \in Handlers, NEW t \in Tenants, NEW n \in Names, NEW s \in Scopes,
              NEW U \in SUBSET Users, AssignRole(i, t, n, s, U)
       PROVE  Goal
  BY <1>7, <1>18 DEF AssignRole
<1>19. ASSUME NEW i \in Handlers, NEW t \in Tenants, NEW n \in Names, NEW s \in Scopes,
              NEW u \in Users, RevokeRole(i, t, n, s, u)
       PROVE  Goal
  BY <1>7, <1>19 DEF RevokeRole
<1>20. ASSUME NEW i \in Handlers,
              \/ DropRole(i) \/ GrantPermissionToRole(i) \/ RevokePermissionFromRole(i)
              \/ IsProjectInTenant(i) \/ RevokeRoleFromUser(i) \/ Finish(i)
       PROVE  Goal
  BY <1>6, <1>8, <1>10, <1>20 DEF DropRole, GrantPermissionToRole, RevokePermissionFromRole, Finish
<1>21. Goal
  BY <1>9, <1>11, <1>12, <1>13, <1>14, <1>15, <1>16, <1>17, <1>18, <1>19, <1>20 DEF Next
<1> QED BY <1>21 DEF Goal

(* A revocation that succeeds leaves nothing it meant. *)
LEMMA RevokeStep ==
  ASSUME IInv, Next, NEW h \in Handlers, NEW r \in Revoking, req[h] = r, req'[h].pc = "revoked"
  PROVE  Meant(r)' = {}
<1>1. RevokeRoleFromUser(h)
  BY RevocationIsDelete
<1>2. Become(h, [pc |-> "revoked"])
  BY <1>1 DEF RevokeRoleFromUser, Become, IInv
<1>3. assigned' = {a \in assigned : ~(a \in Held(r) /\ a.role \in Named(r))}
  BY <1>1, <1>2 DEF RevokeRoleFromUser, Become, IInv
<1>4. \A a \in Meant(r) : a \in Held(r) /\ a.role \in Named(r)
  BY DEF Meant, Held, Named, Visible, IInv, Row
<1>5. ASSUME NEW a \in Meant(r)' PROVE a \in Meant(r)
  BY <1>3, <1>5 DEF Meant, Held
<1>6. ASSUME NEW a \in Meant(r)' PROVE FALSE
  BY <1>3, <1>4, <1>5, <1>6 DEF Meant, Held
<1> QED BY <1>6

(* A revocation that reports success leaves no assignment of that name to  *)
(* the user in that tenant and scope.                                      *)
THEOREM RevocationEffective == Spec => RevokedMeansGone
<1>1. IInv /\ [Next]_vars =>
        [\A h \in Handlers :
           req'[h].pc = "revoked" => \A r \in Revoking : r = req[h] => Meant(r)' = {}]_vars
  BY RevokeStep
<1> QED BY <1>1, AlwaysIInv, PTL DEF Spec, RevokedMeansGone
=============================================================================
