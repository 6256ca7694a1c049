# TLA+ models and proofs of the auth service

This directory holds a specification of `iam-go-auth`, the identity service of an IAM platform: a gRPC
server in Go (`internal/handler`), its PostgreSQL schema and queries (`db/`), an optional Redis layer
(`internal/cache`), RS256 token signing (`internal/jwt`) and an outbox relayed to NATS JetStream
(`internal/outbox`, `internal/saga`). Several replicas of the process share one database and one Redis.
All state lives in the database, in Redis, or in the tokens clients hold; what is hard is that a request is
a *sequence* of autocommitted statements, that requests of several replicas interleave between them, and
that each one may stop half-way (crash, cancelled context, a statement whose error is ignored with `_ =`).

## 1. Inventory

| Component | State it keeps | Operations | What makes it correct |
|---|---|---|---|
| Refresh-token sessions (`auth.go` Login, Refresh, Logout, ChangePassword, ResetPassword, DeleteUser, RestoreUser, `issueTokens`) | `refresh_tokens` (expiry, revoked_at, replaced_by, tenant binding), `users.deleted_at` | open, rotate with a grace window, theft response, revoke one, revoke all, cascade delete | one acceptance mints one token, a dead token never comes back, a benign race is not theft, revoking ends sessions |
| Access-token denylist (`Logout`, `ValidateToken`, `cache.Deny/IsDenied`, `jwt.Parse*`) | `revoked_tokens` in PostgreSQL, `denylist:*` keys with a TTL in Redis, whether a replica has a Redis client | issue, deny, validate | a logged-out token is refused by every replica for as long as it parses |
| Transactional outbox and saga (`Register`, `DeleteUser`, `RestoreUser`, `relay.go`, `saga.go`) | `outbox` rows, the JetStream stream and its dedupe window, consumer state | write with the business change, fetch, publish, mark, consume, compensate | every committed change is published at least once, nothing else is, consumers converge |
| Two-factor login and lockout (`m4.go` EnrollTotp, ActivateTotp, DisableTotp, LoginTotp; `auth.go` Login) | `users.totp_secret`, `users.totp_enabled`, `totp_recovery_codes`, `failed_login_attempts`, `locked_until`, MFA tokens clients hold | enroll, activate, disable, first and second login step, count, lock, reset | the factor that is enabled is one the user proved; the stored recovery codes are those shown with it and work once; parallel failures do not outrun the lock |
| Credentials (`auth.go` RequestPasswordReset, ResetPassword, RequestEmailVerification, VerifyEmail, ChangePassword) | `password_hash`, `password_resets`, `email_verifications`, `email_verified` | request, consume, verify then update, revoke | a reset or verification token has its effect once at most; after its revocation an older password opens nothing by the refresh tokens it had |
| OIDC code flow (`oidc_flow.go`, `oidc.go`) | `oauth_codes`, `oauth_clients` | create, exchange, register | a code is exchanged at most once, and no code or token goes to a caller who was barred throughout |
| Permission cache (`cache.GetPerms/SetPerms/InvalidatePerms`, `ValidateToken`) | `perms:*` keys with a 60 s TTL | read-through, invalidate | what is granted or revoked is seen within the TTL |
| Roles and their assignment (`tenant.go`, role handlers of `auth.go`) | `tenants`, `projects`, `roles`, `role_permissions`, `user_roles`, row-level security | create, delete, grant, assign, revoke | tenants do not touch one another's roles or the shared templates; what is revoked is gone |
| Memberships and tenant switching (`tenant.go`) | `memberships` | choose at login, add, remove, switch | every token is bound to a tenant its user was admitted to and to a project of that tenant |
| API keys (`m4.go` CreateApiKey, RevokeApiKey, ValidateApiKey) | `api_keys` | create, revoke, validate | a revoked or expired key, or one of a removed member, is refused; an accepted one carries no permission its owner lacks |
| Bootstrap and signing keys (`bootstrap.go`, `jwt/keys.go`, `cmd/main.go`) | admin and demo users, `oidc_signing_keys`, the keys each process loaded | migrate with retries, create if absent, load, on every replica at once; exit and restart | every replica verifies what another signs; however start-ups collide, all come to serve |
| Password hashing, TOTP codes, TOTP secret encryption, e-mail, PEM, hashing of tokens | none | pure functions and external I/O | – |

How they interact: `Login`/`LoginTotp`/`SwitchTenant` end in `issueTokens`, which signs an access token and
inserts a refresh token. `ValidateToken` reads the denylist, the user, the membership, the roles and the
permission cache, in that order, in separate statements. `Logout` and the password and deletion handlers
write the session tables; membership and role handlers write what `ValidateToken` reads and try to
invalidate the cache. `Register`, `DeleteUser` and `RestoreUser` write the outbox in the transaction that
changes the user; the relay goroutine of every replica polls the table and publishes. Clients carry tokens
between calls, so a legal sequence of calls from several clients is itself an interleaving.

The hazards this creates are listed, each at its line, in `PROJECT.json`.

## 2. Plan

Order, most important behaviour first. A module is written to be proved about: parameters as CONSTANTS with
the weakest assumption the code justifies, one action per statement or handler, history variables that no
guard reads, no RECURSIVE operator.

| # | Module | Subject | Abstract specification | State |
|---|---|---|---|---|
| 1 | `Sessions`, `TokenLife` | refresh tokens | `TokenLife`: a token only moves forward, one acceptance mints one token | done |
| 2 | `AccessTokens` | denylist, Redis mirror, ValidateToken | – | done |
| 3 | `Outbox`, `AtLeastOnce` | outbox and relay | `AtLeastOnce`: every accepted message is delivered, then settled | done |
| 4 | `TwoFactor` | TOTP, recovery codes, lockout | – | done |
| 5 | `PermCache` | read-through cache against role changes on several replicas | – | done |
| 6 | `Rbac` | tenants, projects, roles, grants and assignments, looked up by name and acted on later | – | done |
| 7 | `OidcCodes`, `Ticket` | authorization code, exchange, PKCE, clients | `Ticket`: taken once, honoured once or never | done |
| 8 | `Credentials` | ChangePassword (verify, then update), RequestPasswordReset/ResetPassword, VerifyEmail | `Ticket`, the same module | done |
| 9 | `Tenancy` | memberships, login's choice of a tenant, SwitchTenant, API keys | – | done |
| 10 | `Boot` | start-up of several replicas: migrations, bootstrap accounts, signing keys | – | done |

Composition. `Sessions` abstracts the checks of the three handlers that open a session, which `TwoFactor`
(second factor, lockout) and `Tenancy` (membership) model; `AccessTokens` abstracts the permission read at the
end of ValidateToken, which `PermCache` models, and `PermCache` the changes of what that read yields, which `Rbac` models.
`Credentials` models what comes before and after the revocation that `Sessions` takes as one step, with whole logins where
`Sessions` has rows and a clock. `Tenancy` says which bindings tokens have, `OidcCodes` the one other way to a token; both end
in the insert that begins a session in `Sessions`. `Boot` is what happens before any of them: a replica that serves, with its keys.
`Ticket` is instantiated twice, by `OidcCodes` for authorization codes and by `Credentials` for reset and verification tokens.

Proofs. Every module has its invariants and action properties proved, and the safety part of every refinement (section 6). Two of the
proof modules hold the theorems of two models each: `AccountsProofs` (`Outbox`, `Tenancy`) and `ReplicasProofs` (`AccessTokens`, `Boot`).
That is why the definitions of `Boot` and `Tenancy` that every module has carry a prefix (`BootSpec`, `TenancyTypeOK`, …): the two
models extended by one module share no name.

What could follow: the migrations as steps of their own in `Boot` (hazard `bootstrap.go:97`), and the wait of a stopping process for its
open requests.

## 3. The models

Common to all of them. A request is a goroutine of some replica; `Handlers` is the set of requests that may
run at once, over all replicas, and `req[h]` says what the request in slot `h` will do next and with which values it
has already read. One autocommitted SQL statement, one Redis command or one committed transaction is one
action; everything a handler computes between two statements is part of the action before. `Abort`, `Finish`, `Stop` and `Exit`, and `Boot` of
`AccessTokens`, end a request or a process early at any statement boundary: what it wrote stays. A statement whose error the code
ignores (`_ =`) either happens or does not, and the request goes on.

### Sessions (`auth.go`, `db/queries/auth.sql`, `refresh_tokens`)

| Model | Code |
|---|---|
| `refresh_tokens` | the table, a function on the tokens that have a row |
| `users` | `active`, `deleted` (`deleted_at` set), `gone` (no row) |
| `Login` then `issueTokens` | the end of Login and LoginTotp, for a user read as not deleted: `issueTokens` inserts the row |
| `SwitchTenant` then `issueTokens` | the end of SwitchTenant and ExchangeAuthorizationCode, neither of which looks at `deleted_at` |
| `Refresh` (`RefreshLive`, `RefreshInGrace`, `RefreshReused`) | `GetRefreshToken` and the decision on the row that was read |
| `MarkRotated` | `RotateRefreshToken`, a later statement whose error is ignored |
| `Logout` then `RevokeOne` | parse, then `RevokeRefreshToken` |
| `ChangePassword` then `RevokeAll` | the password update (also of ResetPassword), then `RevokeAllUserRefreshTokens` |
| `SoftDeleteUser`, `HardDeleteUser`, `RestoreUser` | one transaction each, the cascade of the foreign key included |

History: `parent` (the token presented when a token was minted), `rotatedAt`, and `sealed` (tokens that a
"revoke all" ended while no request was minting for the user and no token was in grace).

`TokenLife` has neither clock nor rows: `unborn`, `live`, `lapsed`, `rotated`, `dead`, always forward; a
`warrant` (a request whose token was accepted) mints exactly one token. The refinement maps the row and the
clock to the stage, a request before its insert to a warrant, and a request before its mark to a debt.

### AccessTokens (`auth.go` Logout, ValidateToken; `cache.go`; `jwt.go`)

`revoked_tokens` is the durable denylist, `denylist[j]` the instant the Redis key of `j` expires, `redisUp`
whether Redis answers now, `client[r]` whether replica `r` found Redis at boot (without a client it never
asks Redis again). `Logout` – `RevokeAccessJTI` – `Deny` is a logout with its two writes, either of which may
be lost; `ValidateToken` – `IsDenied` – `IsUserActive` – `IsActiveMember` is a validation with its reads one
after the other. `Parses` is the parser's verdict including the clock leeway. The environment deletes and
restores the user, removes and adds the membership, stops and starts Redis and restarts replicas. A validation
carries `barred`, the reasons to refuse it that held when it began and were not undone since: the properties
are about a validation that starts after the fact, never about one that was overtaken.

### Outbox (`auth.go` Register, DeleteUser, RestoreUser; `relay.go`; `saga.go` for the stream)

A transaction is three steps: `Begin` takes the stamp (`created_at DEFAULT now()` is the start of the
transaction in PostgreSQL); `Update` is the statement on the users row; `Commit` makes its effect visible and appends the outbox row.
A statement whose WHERE clause `Matches` the committed row waits while another transaction has it `Locked`; one that does not match waits for
nothing and changes nothing (`missed`), and the outbox row is written all the same: so a soft delete of a row that is deleted already
(`AND deleted_at IS NULL`) passes a restore that has not committed. Rows are named
by their place in the commit order, so the stamp and the place may disagree. `overlapped` keeps the stamps of the transactions during which
another of their user committed. Each replica runs a relay:
`FetchUnpublishedOutbox`, then per row `Publish` (or `PublishFails`, stored or not) and `MarkOutboxPublished`;
the rest of a batch is dropped at the first error. JetStream (external) stores a message unless its id is in
the dedupe window; `Forget` ends the window of a message.

`AtLeastOnce` has three sets: accepted, delivered, settled. `Outbox` implements it with committed rows,
messages in the stream and rows marked published.

### TwoFactor (`m4.go` TOTP handlers; `auth.go` Login)

One account. EnrollTotp is `EnrollTotp` (reads the row), `SetTotpSecret`, `PurgeCodes`, one
`InsertRecoveryCode` per code and `Enrolled` (the answer). ActivateTotp is `ActivateTotp` (reads and checks the
code) and `EnableTotp`. DisableTotp is `DisableTotp` (reads), `ConsumeRecoveryCode` when a recovery code is
given, `ClearTotp` and `WipeCodes`. Login and LoginTotp each read the row, then end in
`IncrementLoginFailure` and perhaps `LockUser`, or in `Welcome` (which resets the counter, error ignored).
Codes carry the enrolment that made them, TOTP codes are right or wrong against the secret in the row.
History: secrets `generated`, `shown`, `proven`; `raced` (the secret changed under a running activation);
`mixed` (writes of two enrolments or of a disabling overlapped on the code table, or a DELETE failed);
`settled` (the secret that was activated while nothing was about to replace or clear it); `accepted`, the number of times each recovery code was taken; `guesses` and `lost` for the lockout.

### PermCache (`cache.go` GetPerms, SetPerms, InvalidatePerms; `auth.go` ValidateToken and the role handlers)

One user. `held[k]` is what GetUserPermissionsScoped yields for the binding `k` (tenant and project of a token), `cache` the
entries of Redis. A validation is `Hit`, or `GoToPostgres` – `GetUserPermissionsScoped` – `SetPerms` (whose error is
ignored); `Finish` is its answer. `AssignRole` and `RevokeRole` (and each round of AssignRoleBulk) commit and then scan:
`InvalidatePerms` starts the scan, `Sweep` visits a page, of which the DEL may fail, `Swept` ends it;
a scan is bound to return the keys that were there all along and has not yet returned (`left`), and may return others.
`GrantPermission` and `RevokePermission` stand for every change that invalidates nothing, DeleteRole's included: what they
have in common is that the held permissions change under some of the keys. Any Redis command may fail, so a replica without a
client is one whose commands all fail. History, per key and permission: `changedAt`, `dropped` (an invalidation completed
since) and `overlapped` (when it last changed, a validation had read the old value and was yet to store it): the late store
is the one thing neither the invalidation nor the time-to-live of the older entry undoes.

### Rbac (`tenant.go`, role handlers of `auth.go`, `user_roles` and `roles` with their row-level security)

| Model | Code |
|---|---|
| `roles`, `grants`, `assigned`, `projects` | `roles` (named by owner and name, as the unique indexes do), `role_permissions`, `user_roles`, `projects` |
| `Shared`, `Wide` | `tenant_id IS NULL` (a template), `project_id IS NULL` (tenant-wide) |
| `Register`, `HardDeleteUser`, `CreateTenant`, `CreateProject`, `CreateRole` | one transaction each, with what it assigns or cascades to; BootstrapAdmin and BootstrapDemo are `Register` with their role |
| `DeleteRole` then `DropRole` | `GetTenantRole`, then the DELETE under row-level security |
| `GrantPermission`, `RevokePermission`, then `…ToRole`, `…FromRole` | `permRoleGuard`, then the statement, which resolves the name again |
| `AssignRole`, `IsProjectInTenant`, `AssignNext` | `validateAssign`, its two queries, then one transaction per user (AssignRole has one, AssignRoleBulk a list) |
| `RevokeRole` then `RevokeRoleFromUser` | `GetRoleByName`, then the DELETE with its scalar subquery |

`GetRoleInTenant` prefers the tenant's own role to the template. If the role is deleted between the check and the insert, the
insert adds nothing, or assigns the template of that name, and the handler still answers with success. `Named` is what the
subquery of a revocation sees: with two rows it is an error (`failed`), unless no row of `user_roles` is left to compare
with it and the database need not run it. The model has no permission checks: `requirePerm` trusts the gateway, so any tenant's
request may come at any time.

### Ticket

Three functions: `stage` (`unborn`, `open`, `spent`), `claim` (what a request has taken and not yet used) and `honoured` (how often a
ticket had its effect). Taking and spending are one step, so a ticket gives at most one claim; a claim is honoured once or wasted.

### OidcCodes (`oidc_flow.go`)

| Model | Code |
|---|---|
| `clients`, `codes` | `oauth_clients`, `oauth_authorization_codes` |
| `RegisterClient` | one insert |
| `BootstrapOIDCClient` | the table to begin with: `cmd/main.go:118-121` ends the process if it fails, so no request is served without it |
| `users` | `active`, `deleted` (`deleted_at` set), `gone` (no row) |
| `CreateAuthorizationCode`, `GateIssuance`, `InsertCode` | the client's tenant, IsActiveMember, the insert |
| `ExchangeAuthorizationCode`, `ClaimCode`, `Authenticate`, `LookUpUser`, `CheckMember`, `IssueTokens` | the read and the comparisons, the conditional update, PKCE and the client's secret, the e-mail, tenant and membership, `issueTokens` |

A caller knows the redirect URI, the verifier and the secret or does not (`knows`). Every request carries `barred`, the reasons
to refuse it that held when it began and were not undone since; a soft-deleted account is one (`inactive`), which no step of the flow looks at.
Codes refer to their user without a foreign key and outlive a hard delete.
The refinement maps a code's row to its stage and a request between claim and `issueTokens` to a claim.

### Credentials (`auth.go`)

A stored password is a new generation (`password[u]`). Whatever one login leads to is known by that login, and `origin` says whose it is and which
generation it proved. A login may have live refresh tokens (`sessions`), tokens in their grace (`graced`), an access token or API key
(`access`), and `vouchers`: an MFA token or an authorization code, both of which end in `issueTokens` for their login and nowhere else.

| Model | Code |
|---|---|
| `ResetPassword`, `VerifyEmail` (`Consume`), then `UpdatePassword` or `MarkEmailVerified`, then `RevokeAll` | the statements of the two handlers |
| `ChangePassword` | the reads of its caller, known by an access token; then `UpdatePassword`, `RevokeAll` |
| `Login` | the password in force, then `issueTokens` or an MFA token |
| `LoginTotp`, `Refresh`, `SwitchTenant`, `ExchangeAuthorizationCode` (`Open`) | what else ends in `issueTokens`; none looks at the password |
| `IssueTokens`, `MarkRotated` | the insert, with the access token that goes out; RotateRefreshToken |
| `CreateAuthorizationCode` | with an access token |

`Abort` ends any of them at a statement, so a consumed token may have had no effect and a stored password no revocation. History: `floor[u]`, the
last generation that ended with a revocation, and `spared`, the logins `Underway` when it ran: those with more than live refresh tokens.

### Tenancy (`tenant.go`, `auth.go` issueForActiveTenant, `m4.go` API keys)

A binding is user, tenant and project. `IssueForActiveTenant` and `SwitchTenant` – `CheckProject` – `FindUser` end in `IssueTokens`;
what was issued stays in `bindings`, since Refresh re-issues it and `CreateApiKey` copies it. `ValidateApiKey` – `CheckOwner` –
`CheckMember` – `LoadPermissions` are the four reads. A request carries `barred` as in `OidcCodes`, a validation also `lacking`, the permissions
its owner lacked when it began and was not given since. The environment adds and removes members, grants and takes permissions,
deletes and restores the user, and lets keys expire.

### Boot (`cmd/main.go`, `bootstrap.go`, `jwt/keys.go`)

Every process has a program counter through `main`: migrations (with retries, unless AUTO_MIGRATE is off), admin account, console
client, demo account, keys, port. Look-up and insert are separate steps, so two replicas may both find nothing; the unique index then ends the
later one (`Collide`), as any other error does (`Exit`), and it is started again. `Rotate` is the operator's; a server keeps the keys it
loaded. History: `signed`, the keys tokens were signed with, and `newer`, the keys that came after a server loaded its own. E-mail and password of
both bootstrap accounts are configured; without them the two steps fall away.

## 4. What is checked

Every module has one type invariant, `TypeOK` (`BootTypeOK`, `TenancyTypeOK`). Runs that pass:

| Run | Question | Instance | States |
|---|---|---|---|
| `sessions` | Does rotation with grace tell a benign race from theft (`NoFalseTheft`), do revoked tokens stay so (`RevokedForGood`, `SealedStayDead`), does a hard delete leave no session (`NoOrphanSession`), does a rotated token name the token minted for it, of the same tenant and project (`RotationBound`), and is the whole a `TokenLife` (`ImplementsTokenLife`)? | 1 user, 2 bindings, 3 tokens, 2 requests, grace 2, 3 instants | 1.0 M |
| `access_tokens` | Is a validation that begins after a completed logout, a deletion or a removal refused by every replica, however Redis fails (`NoStaleAcceptance`, `DurableDenylistHonored`)? | 1 token, 2 replicas, 2 requests, 5 instants | 0.4 M |
| `outbox` | Do relays that race, fail and retry keep the causal order (`CausalOrder`), is the last message about a user the state of its row once all of them are delivered, where no two committed transactions of the user overlapped (`SerialHistoryTold`), and is every committed row delivered and marked (`ImplementsAtLeastOnce`, with liveness)? | 1 user, 2 relays, 3 transactions, batches of 2, duplicates while the stream has fewer than 2 messages | 1.6 M |
| `two_factor` | Is the enabled factor proven (`EnabledIsProven`), does it stay in force, once activated with nothing about to replace or clear it, until a code of its own disables it (`SettledStays`), do the stored codes belong to it (`CodesFollowSecret`), does each work once (`RecoveryCodeOnce`), does the lock hold under parallel failures (`FailuresBound`)? | 3 secrets with 1 code each, 2 requests, 2 failures, 1 lost lock | 1.3 M |
| `perm_cache` | For how long can a role change go unnoticed: a time-to-live (`WithinTTL`), or until an invalidation has completed (`AfterInvalidation`)? | 2 bindings, 1 permission, 2 requests, time-to-live 2, 2 instants | 1.7 M |
| `rbac` | With tenants that name roles alike and requests that look a role up and act on its name later: does an assignment stay within its tenant (`AssignedWithinTenant`), do templates stay what they are (`TemplatesFixed`), do a user's permissions in a tenant move by that tenant's requests only (`PermissionsMoveFromWithin`), is what was revoked gone (`RevokedMeansGone`)? | 2 tenants, 2 projects, 3 role names of which 2 are templates, 1 user, 1 permission, 2 requests, 4 rows of roles and assignments | 0.8 M |
| `oidc_codes` | Does a code or a token ever go to a request that was barred when it began and stayed so, for another reason than a soft deletion, whatever overtakes it between its checks (`NothingOnceBarred`), and is a code a single-use ticket (`ImplementsTicket`)? | 1 user, 2 tenants, 2 clients, 1 code, 3 requests, 2 instants | 2.1 M |
| `credentials` | After the revocation of a password change, has a login with an older password a refresh token, ever again, if it had nothing but live ones when the revocation ran (`OldPasswordShutOut`), and are reset and verification tokens single-use tickets (`ImplementsTicket`)? | 1 user, 2 logins, 1 token of either kind, 2 requests, 2 changes | 1.3 M |
| `tenancy` | Is a token issued, or a key accepted, for a request that was barred when it began and stayed so, or a permission granted its owner lacked throughout (`NothingOnceBarred`), and is every binding one of a tenant its user was admitted to (`BoundWhereAdmitted`)? | 1 user, 2 tenants, 1 project, 1 permission, 1 key, 2 requests | 1.5 M |
| `boot` | Does every replica verify what another signs, but for keys rotated in since it started (`KeysAgree`), and do all replicas come to serve for good once outages end (`AllComeUp`, liveness)? | 2 servers, of which 1 migrates, 1 migrate job, 3 keys, 2 attempts, 1 deletion | 1.0 M |

Bounds and why they are enough. *Sessions:* three tokens give a chain and a fork (a token, the successor of one
refresh, the successor of a parallel one); two requests give every pairwise interleaving; grace 2 with three
instants reaches inside the window, its last instant and past it, and a lifetime of 1 lets a token expire
while live and while in grace. A chain of three rotations adds nothing: every statement looks at one row
or at all rows of a user. *AccessTokens:* validations of different tokens share nothing but Redis and
the replicas; two requests put a logout beside a validation or two validations beside the environment;
lifetime 2 and leeway 2 within five instants reach before expiry, in the leeway and after it. *Outbox:* three
transactions of one user give register, delete, restore with every overlap; batches of 2 leave a rest when
the first row fails and leave a third row out; a soft delete that misses the row under an open restore takes all three (deleted at the start
is not a state of a seeded account). `MaxStream` bounds how often a message is duplicated, since the window only forgets below it: the first
message can be, by either relay, before the second. *TwoFactor:* three secrets give an enrolment, one that
replaces it and a late one; one code per enrolment keeps insert and purge apart; two failures with two
requests reach "one short of the limit", the lock, and a second failure in flight. *PermCache:* two bindings
give a scan a page it has visited and one it has not; permissions do not influence each other; two requests put
an invalidation, or a role change, inside a validation; two instants are one time-to-live, so entries are seen
before, at and after the end of theirs. *Rbac:* two tenants may each own a role of one name; `admin` is a reserved name (it stands for
`user` too), `viewer` a template whose name is not reserved, `editor` neither; a project in each tenant or two in one; two requests
put a deletion or a creation between a check and its write. Both templates take up a row of the four (`MaxRows`), which leaves
two: a role and an assignment, or two roles of one name, which is what every race here needs; the run `rbac_revoke` has five. Users
influence each other in no statement, so one is enough; a bulk assignment of one is a single one, and longer ones are in the proof.
*OidcCodes:* two clients in two tenants make a code of another client and a member of another tenant possible; one code and
three requests, its creation and two exchanges of it beside each other (codes share no row); a lifetime of 0 within two instants is before and after expiry.
*Credentials:* the ticket can be of either kind; two requests put a change, a reset or a login inside each other; two logins are one that is spared and one that is not, or an older and a newer; two changes are a
generation that is neither the first nor the last. Users share no row. *Tenancy:* one tenant with a project and one without give the right and the wrong
project; two requests put a switch beside a validation; users share no row either. *Boot:* two replicas collide, a third would do what the second does;
a key each and one rotated in; one failed attempt at the migrations before the last.
`CHECK_DEADLOCK FALSE` is set for `Sessions`, `TwoFactor`, `OidcCodes`, `Credentials` and `Tenancy`: once the clock, the tokens, codes, keys or users are
used up and all requests have ended, the bounded instance may stop.

Every property is known to fail on a plausible slip of the code: the `Faulty…` operators beside each
definition are those slips (a dropped `revoked_at IS NULL`, a missing fallback, an unconditional mark, `>` for `>=`),
and `PROJECT.json` pairs each with the property it breaks.

### Where the code and its comments part

Two runs state what a comment says and end in a counterexample:

- `password_change` – `PasswordChangeEndsSessions`. ChangePassword revokes rows with `revoked_at IS NULL`; a token rotated less than
  the grace window ago is not one of them, and Refresh accepts it afterwards. The same holds of a soft delete (`auth.go:411`), and of a
  login already past its check; ValidateToken still refuses the access tokens while the user is deleted (`NoStaleAcceptance`).
- `rbac_revoke` – `ShownIsRevocable`. A tenant may create a role named `viewer` of its own next to the template (only `admin` and
  `user` are reserved); from then on the subquery of RevokeRoleFromUser yields two roles, and no assignment of `viewer` in that
  tenant can be revoked, whichever of the two it refers to.

Not runs, but met on the way, each of them a step the models contain:

- `auth.go:274` says a logout is mirrored "so other replicas reject it at once". A replica that reaches Redis does not ask PostgreSQL; if the
  logout's SET was lost or its replica has no Redis client, the token is accepted there until it expires. Hence "reached both denylists" in
  `NoStaleAcceptance`. And the Redis key ends at the token's expiry (`auth.go:275`), which the parser accepts for its leeway beyond: hence `exp <= now` there.
- `m4.go:342` says that consumers un-delete the profile of a restored user. Rows are relayed by the start of their transaction, so a restore that began
  before a delete and committed after it is told first, and consumers end with "deleted". And a soft delete of an account that is deleted already changes nothing
  (`auth.sql:20`) but is told (`auth.go:418`): with a restore in between that has not committed when the delete runs, the account is active and "deleted" the last
  message, even if the delete began and committed later. Hence no overlap in `SerialHistoryTold`.
- `m4.go:94` says that ActivateTotp enables 2FA once the authenticator is proved. The UPDATE does not say which secret was; an enrolment
  or a disabling in between leaves an unproven or a missing secret enabled. Hence `raced` in `EnabledIsProven`.
- `m4.go:48` says that re-enrolling would "silently disable working 2FA; require an explicit disable first". EnrollTotp reads `totp_enabled` in one statement and
  clears it in another (`m4.go:50`, `67`); a factor that is activated between the two is disabled silently. The second statement of a DisableTotp begun
  for an earlier factor does the same. Hence "nothing about to replace or clear it" in `settled`, for `SettledStays`.
- `auth.go:183` says that soft-deleted identities cannot log in, and `auth.go:411` that a soft-deleted user is "logged out everywhere". Only Login, LoginTotp and
  ValidateToken look at `deleted_at`: Refresh of a token in its grace, SwitchTenant, and both halves of the code flow serve a deleted account
  (`Sessions!SwitchTenant`, `OidcCodes!SoftDeleteUser`), and the refresh tokens stored then outlive a restore. ValidateToken still refuses the access tokens
  meanwhile. Hence the bar `inactive` is exempted in `NothingOnceBarred` of `OidcCodes`.
- `auth.go:772-773` and `798` say that a password change revokes all sessions and forces "re-login everywhere". It revokes live refresh tokens. A token in its
  grace, an access token or an API key (by SwitchTenant, or by way of an authorization code), an MFA token, an authorization code already out (`oidc_flow.go:182`) and a request
  past its check each open a session of the older password afterwards, with a refresh token of full length. Hence `spared` in `OldPasswordShutOut`: a login whose
  access token has not expired is spared, one that has had no session opened for longer than that is not.
- `docs/security/least-privilege-db.md:53-66` says that every path on the strict tables sets
  `app.tenant_id`, which the lookups before a transaction (`GetTenantRole`, `GetRoleInTenant`, `GetRoleByName`, `IsProjectInTenant`)
  do not.
- RemoveMember leaves the user's rows in `user_roles`, which take effect again when the user is added back; the count
  AssignRoleBulk answers (`auth.go:559-562`) includes users who got nothing because the role was deleted meanwhile.
- A key that is rotated in is unknown to the replicas that run (`keys.go:71`): they refuse its tokens until they are restarted. Hence `newer` in `KeysAgree`.

The properties of the passing runs name the exact condition under which the promise does hold: quiescence for
`SealedStayDead`, both denylists written and the token not expired for `NoStaleAcceptance`, no overlap and no duplicate for
`SerialHistoryTold`, no race for `EnabledIsProven` and `SettledStays`, no soft deletion for `NothingOnceBarred` of `OidcCodes`, success for `RevokedMeansGone`, a login with
nothing but live refresh tokens for `OldPasswordShutOut`.

## 5. Fairness

Only `Outbox!FairSpec` and `Boot!FairBootSpec` have any; every other property is a safety property and holds of requests that stop
anywhere. The theorems of the two are about the specifications without fairness, `Spec` and `BootSpec`, which the fair ones imply.

*Outbox.* A relay fetches at every tick of its ticker for as long as its process runs, and processes are
restarted: weak fairness of the fetch, which stays enabled while a relay is idle. Publish and mark may fail any
number of times, each failure giving up the batch, and are enabled again by the next fetch: strong fairness
says that JetStream and PostgreSQL do not fail *every* time. Both are asked of the relays together, not of each: some relay fetches, publishes, marks. No fairness is asked of handlers, of commits, of the dedupe window or
of failures.

*Boot.* Weak fairness of `Proceed(p)` for each process: the orchestrator starts what has stopped, and a started process runs its next
statement. Weak fairness of `Quiet`: the last outage and the last shutdown come to an end some time. Nothing is asked of collisions, which still happen afterwards
and are what `AllComeUp` is about, nor of rotations, deletions and retries.

## 6. What is proved

The theorems hold for every value of the constants under the named assumptions (`SessionsAssumption`,
`AccessTokensAssumption`, `OutboxAssumption`, `TwoFactorAssumption`, `PermCacheAssumption`, `RbacAssumption`, `OidcCodesAssumption`, `CredentialsAssumption`,
`TenancyAssumption`, `BootAssumption`: the sentinel is no member of its set,
durations are natural numbers, the set of requests is finite where it is counted). The bounds (`MaxTime`, `MaxTx`,
`Tokens`, …) are parameters too, so they limit nothing in a theorem.

- **`SessionsProofs`.** `TypeCorrect` and `NoOrphanSessionCorrect` are inductive with the type invariant.
  `RotationBound` is not: the mark comes a statement after the insert. The invariant is `Ledger`, which adds that a
  request about to mint carries the user and binding of the row it read (`MintsBound`) and that a request about to mark
  holds a successor minted for that row (`RotatesBound`). `Forward` (rows only move forward in one step) gives
  `RevokedForGood`. `RotationsDated` (a rotated row's revocation time is the recorded one) and `TheftHolds` give
  `NoFalseTheft`: a row once outside its window stays there. `SealedHolds` gives `SealedStayDead`: dead rows stay dead,
  and no warrant descends from one. `SessionsImplementTokenLife`: initial states map to initial states, every action of `Sessions` to one
  of `TokenLife` or to a stutter, under the type invariant.
- **`ReplicasProofs`, `AccessTokens`.** `Mirrored` (a settled token is in both denylists, the key to its expiry) and `Progress`
  (what a validation that passed a check may still be barred by) give `NoStaleAcceptance`; `AllHeld` does the same for a recorded
  token on a replica without a client.
- **`ReplicasProofs`, `Boot`.** `KeysAgree` speaks of what was signed and of servers that serve. Inductive is `KeysHeld`: the keys a server
  loaded and those newer than its start make up *all* keys there are, from the moment it loaded them, before it serves. A server
  that inserts the first key found none, so no other server has any yet (`BootTypeOK`: who has keys has one of those that exist).
- **`AccountsProofs`, `Outbox`.** `CausalOrder` needs `Batched`: a batch contains, for each of its rows, every row that precedes it and was not yet
  sent; hence the oldest row of a batch may be sent. That a batch has an oldest row rests on the naturals
  being well-founded. `Sent` (marked and acknowledged rows are in the stream) and `Counted` (as many rows as transactions
  at most) give `OutboxIsSafe`, the safety half of `ImplementsAtLeastOnce`; `MarkedWasDelivered` is what the abstract
  specification promises, carried over to the rows. `SerialHistoryTold` follows from `CausalOrder` and
  `TransactionInv`: an open transaction that nothing overlapped is the youngest of its user, and if its statement missed, the row is still
  one it does not match (`Undisturbed`); committed rows of a serial user are ordered alike by stamp and by commit (`Ordered`); and the row of an existing serial user is
  as its last event leaves it (`LastWins`), which for a statement that missed is a soft delete of a deleted row. The last event was delivered; a message about the user after it would be
  an earlier event, which was first delivered before it, and so twice. No quiescence of the relays is needed.
- **`AccountsProofs`, `Tenancy`.** `NothingOnceBarred` and `BoundWhereAdmitted` speak of the last step of a request and of what is stored. Inductive is
  `TenancyInv`, which says of every request under way (`Sound`): what it is still barred by bars it now (`Bars`) and is none of what the checks
  behind it exclude (`Passed`); what it lacks its owner does not hold; a request that opens a session is for a tenant its user
  was admitted to (`Admitted`) and, past the check of the project, for a project of that tenant. Steps of the environment fall into
  two kinds: those that only make a request worse off (`WorseStep`) and those that lift a bar, from every request at once (`LiftStep`).
- **`TwoFactorProofs`.** `FactorHolds` (a running activation holds a proven secret, the one in the row unless raced), `Counted` (the counter
  equals the failures since it was cleared), `Apart` (two enrolments never share a secret), `CodeLife` (a code is inserted once,
  and counted as accepted only while spent or gone) and `CodesHold` (where each code of the secret in force is: still to
  insert, or in the table) give the properties but `SettledStays`. That one adds `SettledHolds`: while a settled factor is in force no enrolment is about to replace it,
  and a request about to clear it has verified a TOTP or code of this factor; that a code in the table is one of this factor is what `CodesHold` says.
- **`PermCacheProofs`.** `WithinTTL` and `AfterInvalidation` speak of answers only. Inductive is `IInv`: an entry that is wrong
  about a permission is either the late store of a validation that straddled the change (`overlapped`), or older than the change and
  not yet dropped (`EntrySound`); what a scan has behind it is right or gone (`SweepSound`); and what a validation
  holds is right about everything it must report (`ReadSound`, `StoreSound`, `AnswerSound`).
- **`RbacProofs`.** `AssignedWithinTenant` is not inductive: an insert takes the project from the request. `IInv` adds that a
  request past the project check names a project of its tenant (`Sound`; projects never move), and that an assignment refers to
  rows that exist (`Row`). `TemplatesUntouched` and `PermissionsIsolated` follow because every write of `roles` or
  `role_permissions` names an owner that is a tenant, the one whose request it is; an assignment refers only to roles of its tenant or to
  templates, which do not change. `RevocationEffective`: a revocation that succeeds saw one role of the name, or held none, and by
  `IInv` every assignment of the name refers to a role it sees.
- **`OidcCodesProofs`.** `NothingOnceBarred` speaks of the last step of a request; inductive is that at every step in between the bars that
  its checks have excluded are gone from `barred`, which needs that a code's row and a client's never change but for `used`. For
  `CodesAreTickets`, `Single` adds that no two requests claim one code, and that a claimed code has no tokens yet; `CodesHonouredOnce` states it by itself.
- **`CredentialsProofs`.** `OldPasswordShutOut` is not inductive: whatever a login holds, or has running, may still become a refresh token.
  `IInv` extends the claim to all of it: such a login has proved the floor of its user or was spared by the last revocation (`Fresh`). What a step gives to a login it
  gives to one that had something before, or that proves the password in force (`StepRule`); a revocation spares what is under way, and takes the rest.
  That needs the floor never to exceed the stored generation, nor what a revocation under way will raise it to. `Single` is, as above, what `TokensAreTickets` needs, and
  `TokensHonouredOnce` states it.

Only model-checked: `AllComeUp` and the liveness half of `ImplementsAtLeastOnce` (liveness under fairness is outside the proof
system's reach), and the two counterexamples.

## 7. What the models assume

- The replicas and the database share one clock. `clockSkewLeeway` is modelled as the parser's leeway, not as skew.
- Redis keeps a key until its time-to-live is over (no eviction, no flush); it may be unreachable at any time.
- No two transactions get the same `created_at`.
- JetStream's window may end at any moment after the message was stored, and PostgreSQL's read committed
  isolation makes each statement atomic.
- A lock and an MFA token may end at any moment; a TOTP code that is right is one its user can compute, so the user has seen
  the secret.
- Generated identifiers (users, tokens, jti, secrets, codes) are fresh; tenants and projects are never deleted, as no handler does.
- What an external library does as a whole is one step: the migrations (applied versions are skipped), and JetStream's set-up.
- Secrets, verifiers and codes cannot be guessed: a caller knows them or does not.
- Row-level security hides what its policy says, inside `withTenant` only; the service connects as a role that bypasses it elsewhere.

## 8. What is not modelled

Left out: password hashing, TOTP arithmetic, encryption and signatures (pure cryptography, modelled by their verdict);
the e-mail sender and the audit log (I/O, and inserts no other part reads); the saga compensator, a handler that inserts an
audit row and acknowledges; OIDC consents (one upsert, read by one endpoint), JWKS and list endpoints (reads that change no state another
part depends on); `UpdateRole`, which changes a description; `last_used_at` of API keys; suspending a tenant, which no handler does; tracing, metrics and the wait
for open requests at shutdown. The migrations are one step of `Boot`: a replica that starts between two of them is not modelled
(hazard `bootstrap.go:97`). Of the generated query code the queries that change state, or that decide, are modelled, not the glue that passes parameters and scans rows.
