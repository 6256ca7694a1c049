------------------------------ MODULE Tenancy ------------------------------
(***************************************************************************)
(* What a membership opens: tokens bound to a tenant, and to a project of  *)
(* it (Login, SwitchTenant), and the API keys minted under such a token    *)
(* (tenant.go, auth.go, m4.go).                                            *)
(*                                                                         *)
(* A binding is the user, tenant and project of a token.  Refresh re-issues*)
(* the binding of the presented token and asks nobody, so a binding that   *)
(* was issued once stays in use.  Permissions are changed by the role      *)
(* handlers (Rbac) of other requests at any time, memberships and users by *)
(* the handlers here; a project never changes its tenant.                  *)
(***************************************************************************)
CONSTANTS
  Users, Tenants, Projects, Perms,
  Wide,       \* no project: project_id IS NULL
  TenantOf,   \* the tenant of each project
  Keys,       \* API keys that can be minted; bounds the model
  Handlers    \* concurrently running requests, over all replicas

ASSUME TenancyAssumption ==
  /\ Wide \notin Projects
  /\ TenantOf \in [Projects -> Tenants]

VARIABLES
  users,        \* "active", "deleted" (deleted_at is set) or "gone" (no row)
  memberships,  \* <<user, tenant>>: active memberships
  held,         \* the permissions of user_roles, each with its tenant and scope
  bindings,     \* what the tokens that were issued are bound to
  api_keys,     \* on the keys that were minted
  req,          \* req[h]: the request running in h
  everMember    \* history: <<user, tenant>>: memberships there were

standing == <<users, memberships, held, everMember>>
tenancyVars == <<standing, bindings, api_keys, req>>

Scope == Projects \cup {Wide}
Within(p, t) == p \in Projects => TenantOf[p] = t
Binding == [user : Users, tenant : Tenants, project : Scope]
Key == [to : Binding, scopes : SUBSET Perms, mortal : BOOLEAN,
        state : {"live", "expired", "revoked"}]

(* Reasons to refuse. *)
Reason == {"gone", "deleted", "nonmember", "project", "revoked", "expired"}

Idle == [pc |-> "idle"]
Opening == [pc : {"project?", "exists?", "issue"}, to : Binding, barred : SUBSET Reason]
Validating == [pc : {"owner?", "member?", "permissions?", "answer"}, key : Keys, to : Binding,
               barred : SUBSET Reason, lacking : SUBSET Perms, scopes : SUBSET Perms]
Request == {Idle} \cup Opening \cup Validating

Minted == DOMAIN api_keys

TenancyTypeOK ==
  /\ users \in [Users -> {"active", "deleted", "gone"}]
  /\ memberships \subseteq Users \X Tenants
  /\ \A m \in memberships : users[m[1]] # "gone"
  /\ held \subseteq [to : Binding, perm : Perms]
  /\ bindings \subseteq Binding
  /\ Minted \subseteq Keys /\ api_keys \in [Minted -> Key]
  /\ \A k \in Minted : users[api_keys[k].to.user] # "gone"
  /\ req \in [Handlers -> Request]
  /\ everMember \subseteq Users \X Tenants

-----------------------------------------------------------------------------
Become(h, r) == req' = [req EXCEPT ![h] = r]
Advance(h, pc) == Become(h, [req[h] EXCEPT !.pc = pc])

IsActiveMember(b) == <<b.user, b.tenant>> \in memberships

(* GetUserPermissionsScoped: tenant-wide, or of the very project; a NULL   *)
(* project equals no project.                                              *)
PermissionsScoped(b) ==
  {perm \in Perms : \E p \in {Wide, b.project} :
                      [to |-> [b EXCEPT !.project = p], perm |-> perm] \in held}

(* What ought to keep a token bound to b from its user, right now. *)
BarsToToken(b) ==
  {r \in Reason :
     \/ r = "gone" /\ users[b.user] = "gone"
     \/ r = "nonmember" /\ ~IsActiveMember(b)
     \/ r = "project" /\ ~Within(b.project, b.tenant)}

(* What ought to keep key k from being accepted, right now. *)
BarsToKey(k) ==
  {r \in Reason :
     \/ r \in {"revoked", "expired"} /\ r = api_keys[k].state
     \/ r = "deleted" /\ users[api_keys[k].to.user] = "deleted"
     \/ r = "nonmember" /\ ~IsActiveMember(api_keys[k].to)}

(* Requests whose binding is one of B are no longer barred by reason. *)
Lift(reason, B) ==
  req' = [h \in Handlers |-> IF req[h] # Idle /\ req[h].to \in B
                               THEN [req[h] EXCEPT !.barred = @ \ {reason}]
                               ELSE req[h]]

TenancyInit ==
  /\ users = [u \in Users |-> "active"]
  /\ memberships = {}
  /\ held = {}
  /\ bindings = {}
  /\ api_keys = [k \in {} |-> 0]
  /\ req = [h \in Handlers |-> Idle]
  /\ everMember = {}

-----------------------------------------------------------------------------
(* Login and LoginTotp end in issueForActiveTenant: ListMembershipsByUser, *)
(* and a token for the first one, tenant-wide.                             *)
IssueForActiveTenant(h, u, t) ==
  /\ req[h] = Idle
  /\ <<u, t>> \in memberships
  /\ Become(h, [pc |-> "issue", to |-> [user |-> u, tenant |-> t, project |-> Wide], barred |-> {}])
  /\ UNCHANGED <<standing, bindings, api_keys>>

(* SwitchTenant checks the membership first, *)
SwitchTenant(h, b) ==
  /\ req[h] = Idle
  /\ IsActiveMember(b)
  /\ Become(h, [pc |-> IF b.project = Wide THEN "exists?" ELSE "project?",
                to |-> b, barred |-> BarsToToken(b)])
  /\ UNCHANGED <<standing, bindings, api_keys>>

(* Faulty variant, for BoundWhereAdmitted: any project of any tenant of    *)
(* the user will do.                                                       *)
FaultyCheckProject(h) ==
  /\ req[h].pc = "project?"
  /\ IF <<req[h].to.user, TenantOf[req[h].to.project]>> \in memberships
       THEN Advance(h, "exists?")
       ELSE Become(h, Idle)
  /\ UNCHANGED <<standing, bindings, api_keys>>

(* then IsProjectInTenant, if it was given a project, *)
CheckProject(h) ==
  /\ req[h].pc = "project?"
  /\ IF Within(req[h].to.project, req[h].to.tenant) THEN Advance(h, "exists?") ELSE Become(h, Idle)
  /\ UNCHANGED <<standing, bindings, api_keys>>

(* then GetUserByID, which finds deleted users too. *)
FindUser(h) ==
  /\ req[h].pc = "exists?"
  /\ IF users[req[h].to.user] # "gone" THEN Advance(h, "issue") ELSE Become(h, Idle)
  /\ UNCHANGED <<standing, bindings, api_keys>>

(* issueTokens stores a refresh token, if its user still has a row. *)
IssueTokens(h) ==
  /\ req[h].pc = "issue"
  /\ users[req[h].to.user] # "gone"
  /\ bindings' = bindings \cup {req[h].to}
  /\ Become(h, Idle)
  /\ UNCHANGED <<standing, api_keys>>

-----------------------------------------------------------------------------
(* CreateApiKey under a token bound to b.  The scopes are some of the      *)
(* permissions the gateway found for the token a while ago; any will do.   *)
CreateApiKey(k, b, scopes, mortal) ==
  /\ k \notin Minted
  /\ b \in bindings /\ users[b.user] # "gone"
  /\ api_keys' = [x \in Minted \cup {k} |->
                    IF x = k THEN [to |-> b, scopes |-> scopes, mortal |-> mortal, state |-> "live"]
                             ELSE api_keys[x]]
  /\ UNCHANGED <<standing, bindings, req>>

(* RevokeApiKey, by the user the key belongs to. *)
RevokeApiKey(k) ==
  /\ k \in Minted
  /\ api_keys' = [api_keys EXCEPT ![k].state = "revoked"]
  /\ UNCHANGED <<standing, bindings, req>>

(* ValidateApiKey reads the row of the key: revoked or expired, it is over. *)
ValidateApiKey(h, k) ==
  /\ req[h] = Idle
  /\ k \in Minted
  /\ api_keys[k].state = "live"
  /\ Become(h, [pc |-> "owner?", key |-> k, to |-> api_keys[k].to, barred |-> BarsToKey(k),
                lacking |-> Perms \ PermissionsScoped(api_keys[k].to), scopes |-> api_keys[k].scopes])
  /\ UNCHANGED <<standing, bindings, api_keys>>

(* GetUserByID: a missing or deleted owner ends it. *)
CheckOwner(h) ==
  /\ req[h].pc = "owner?"
  /\ IF users[req[h].to.user] = "active" THEN Advance(h, "member?") ELSE Become(h, Idle)
  /\ UNCHANGED <<standing, bindings, api_keys>>

CheckMember(h) ==
  /\ req[h].pc = "member?"
  /\ IF IsActiveMember(req[h].to) THEN Advance(h, "permissions?") ELSE Become(h, Idle)
  /\ UNCHANGED <<standing, bindings, api_keys>>

(* Faulty variant, for NothingOnceBarred: the scopes are those the key was *)
(* minted with.                                                            *)
FaultyLoadPermissions(h) ==
  /\ req[h].pc = "permissions?"
  /\ Advance(h, "answer")
  /\ UNCHANGED <<standing, bindings, api_keys>>

(* The permissions of now, intersected with the scopes of the key. *)
LoadPermissions(h) ==
  /\ req[h].pc = "permissions?"
  /\ Become(h, [req[h] EXCEPT !.pc = "answer", !.scopes = @ \cap PermissionsScoped(req[h].to)])
  /\ UNCHANGED <<standing, bindings, api_keys>>

(* A request is answered, or stops at any statement. *)
Finish(h) ==
  /\ req[h] # Idle
  /\ Become(h, Idle)
  /\ UNCHANGED <<standing, bindings, api_keys>>

-----------------------------------------------------------------------------
(* AddMember (also Register and CreateTenant for their user). *)
AddMember(u, t) ==
  /\ users[u] # "gone" /\ <<u, t>> \notin memberships
  /\ memberships' = memberships \cup {<<u, t>>}
  /\ everMember' = everMember \cup {<<u, t>>}
  /\ Lift("nonmember", {b \in Binding : b.user = u /\ b.tenant = t})
  /\ UNCHANGED <<users, held, bindings, api_keys>>

(* RemoveMember leaves the roles, the tokens and the keys of the user. *)
RemoveMember(u, t) ==
  /\ <<u, t>> \in memberships
  /\ memberships' = memberships \ {<<u, t>>}
  /\ UNCHANGED <<users, held, bindings, api_keys, req, everMember>>

(* A role is assigned, or a role of the user is granted a permission. *)
Gain(b, perm) ==
  /\ users[b.user] # "gone" /\ Within(b.project, b.tenant)
  /\ held' = held \cup {[to |-> b, perm |-> perm]}
  /\ req' = [h \in Handlers |->
               IF req[h] \in Validating /\ b \in {req[h].to, [req[h].to EXCEPT !.project = Wide]}
                 THEN [req[h] EXCEPT !.lacking = @ \ {perm}]
                 ELSE req[h]]
  /\ UNCHANGED <<users, memberships, bindings, api_keys, everMember>>

Lose(entry) ==
  /\ entry \in held
  /\ held' = held \ {entry}
  /\ UNCHANGED <<users, memberships, bindings, api_keys, req, everMember>>

SoftDeleteUser(u) ==
  /\ users[u] = "active"
  /\ users' = [users EXCEPT ![u] = "deleted"]
  /\ UNCHANGED <<memberships, held, bindings, api_keys, req, everMember>>

(* RestoreUser. *)
Restore(u) ==
  /\ users[u] = "deleted"
  /\ users' = [users EXCEPT ![u] = "active"]
  /\ Lift("deleted", {b \in Binding : b.user = u})
  /\ UNCHANGED <<memberships, held, bindings, api_keys, everMember>>

(* Faulty variant, for TenancyTypeOK: no ON DELETE CASCADE on api_keys. *)
FaultyHardDeleteUser(u) ==
  /\ users[u] # "gone"
  /\ users' = [users EXCEPT ![u] = "gone"]
  /\ memberships' = {m \in memberships : m[1] # u}
  /\ held' = {e \in held : e.to.user # u}
  /\ UNCHANGED <<bindings, api_keys, req, everMember>>

(* A hard delete and its cascades; access tokens stay with the clients. *)
HardDeleteUser(u) ==
  /\ users[u] # "gone"
  /\ users' = [users EXCEPT ![u] = "gone"]
  /\ memberships' = {m \in memberships : m[1] # u}
  /\ held' = {e \in held : e.to.user # u}
  /\ api_keys' = [k \in {x \in Minted : api_keys[x].to.user # u} |-> api_keys[k]]
  /\ UNCHANGED <<bindings, req, everMember>>

(* The expires_at of a key, if it has one, passes. *)
KeyExpires(k) ==
  /\ k \in Minted /\ api_keys[k].mortal /\ api_keys[k].state = "live"
  /\ api_keys' = [api_keys EXCEPT ![k].state = "expired"]
  /\ UNCHANGED <<standing, bindings, req>>

TenancyNext ==
  \/ \E h \in Handlers, u \in Users, t \in Tenants : IssueForActiveTenant(h, u, t)
  \/ \E h \in Handlers, b \in Binding : SwitchTenant(h, b)
  \/ \E h \in Handlers :
       \/ CheckProject(h) \/ FindUser(h) \/ IssueTokens(h)
       \/ CheckOwner(h) \/ CheckMember(h) \/ LoadPermissions(h)
       \/ Finish(h)
  \/ \E k \in Keys :
       \/ \E b \in bindings, s \in SUBSET Perms, mortal \in BOOLEAN : CreateApiKey(k, b, s, mortal)
       \/ RevokeApiKey(k) \/ KeyExpires(k)
       \/ \E h \in Handlers : ValidateApiKey(h, k)
  \/ \E u \in Users, t \in Tenants : AddMember(u, t) \/ RemoveMember(u, t)
  \/ \E b \in Binding, perm \in Perms : Gain(b, perm)
  \/ \E entry \in held : Lose(entry)
  \/ \E u \in Users : SoftDeleteUser(u) \/ Restore(u) \/ HardDeleteUser(u)

TenancySpec == TenancyInit /\ [][TenancyNext]_tenancyVars

-----------------------------------------------------------------------------
(* A token or an answer is given only to who was entitled to it: a request *)
(* that ought to be refused when it begins, and for which nothing changes  *)
(* that, issues no token and accepts no key; and an accepted key carries   *)
(* no permission its owner lacked when the validation began and was not    *)
(* given since.                                                            *)
NothingOnceBarred ==
  \A h \in Handlers :
    /\ req[h].pc \in {"issue", "answer"} => req[h].barred = {}
    /\ req[h].pc = "answer" => req[h].scopes \cap req[h].lacking = {}

(* Every token and every key is bound to a tenant its user was admitted    *)
(* to, and to no project but one of that tenant, by whatever sequence of   *)
(* logins, switches and keys it came about.                                *)
BoundWhereAdmitted ==
  \A b \in bindings \cup {api_keys[k].to : k \in Minted} :
    /\ <<b.user, b.tenant>> \in everMember
    /\ Within(b.project, b.tenant)
=============================================================================
