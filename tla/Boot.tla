-------------------------------- MODULE Boot --------------------------------
(***************************************************************************)
(* Starting up: several replicas of one deployment run main, each on its   *)
(* own, against one database (cmd/main.go, bootstrap.go, jwt/keys.go).     *)
(*                                                                         *)
(* Migrations, the bootstrap accounts, the console client and the signing  *)
(* key are ensured by whoever comes first; who comes second finds them,    *)
(* or, having looked too early, runs into a unique index and exits.  Every *)
(* error before the server listens ends the process, and the orchestrator  *)
(* starts it again.  A serving replica signs with, and verifies by, the    *)
(* keys it loaded when it started.                                         *)
(***************************************************************************)
EXTENDS Naturals

CONSTANTS
  Servers,        \* replicas of the service
  Jobs,           \* processes run as "main migrate"
  AutoMigrating,  \* the servers started with AUTO_MIGRATE on
  Kids,           \* signing keys that can be generated; bounds the model
  None,           \* no key
  MaxAttempts,    \* attempts at the migrations (12)
  MaxDeletes      \* bound on how often a bootstrap account is deleted

Processes == Servers \cup Jobs
Accounts == {"admin", "demo"}

ASSUME BootAssumption ==
  /\ Servers \cap Jobs = {}
  /\ AutoMigrating \subseteq Servers
  /\ None \notin Kids
  /\ MaxAttempts \in Nat /\ MaxDeletes \in Nat

VARIABLES
  migrated,  \* the migrations are applied
  accounts,  \* the bootstrap accounts that have a row
  console,   \* the console client is registered
  keys,      \* oidc_signing_keys: the kids
  current,   \* the kid of the row with active = true, or None
  pc,        \* how far each process has come
  attempts,  \* failed attempts at the migrations, of this run of the process
  loaded,    \* the KeySet of each server
  deletes,   \* bounds the deletions
  quiet,     \* the outages are over
  (* History. *)
  signed,    \* the keys some token was signed with
  newer      \* the keys rotated in since each server loaded its own

db == <<migrated, accounts, console, keys, current>>
history == <<signed, newer>>
bootVars == <<db, pc, attempts, loaded, deletes, quiet, history>>

Step == {"down", "migrate", "admin?", "admin", "console", "demo?", "demo", "keys?", "key",
         "listen", "serving", "done"}

NoKeys == [active |-> None, verifiers |-> {}]
HasKeys(p) == pc[p] \in {"listen", "serving"}

BootTypeOK ==
  /\ migrated \in BOOLEAN /\ console \in BOOLEAN
  /\ accounts \subseteq Accounts
  /\ keys \subseteq Kids
  /\ IF keys = {} THEN current = None ELSE current \in keys
  /\ pc \in [Processes -> Step]
  /\ attempts \in [Processes -> 0..MaxAttempts]
  /\ loaded \in [Servers -> [active : Kids \cup {None}, verifiers : SUBSET Kids]]
  /\ \A p \in Servers :
       /\ loaded[p].verifiers \subseteq keys
       /\ IF HasKeys(p) THEN loaded[p].active \in loaded[p].verifiers ELSE loaded[p] = NoKeys
  /\ deletes \in 0..MaxDeletes
  /\ quiet \in BOOLEAN
  /\ signed \subseteq keys
  /\ newer \in [Servers -> SUBSET keys]

-----------------------------------------------------------------------------
BootInit ==
  /\ migrated = FALSE /\ accounts = {} /\ console = FALSE
  /\ keys = {} /\ current = None
  /\ pc = [p \in Processes |-> "down"]
  /\ attempts = [p \in Processes |-> 0]
  /\ loaded = [p \in Servers |-> NoKeys]
  /\ deletes = 0
  /\ quiet = FALSE
  /\ signed = {}
  /\ newer = [p \in Servers |-> {}]

Goto(p, step) == pc' = [pc EXCEPT ![p] = step]

(* The orchestrator starts a process that is not running. *)
Start(p) ==
  /\ pc[p] = "down"
  /\ Goto(p, IF p \in Jobs \cup AutoMigrating THEN "migrate" ELSE "admin?")
  /\ attempts' = [attempts EXCEPT ![p] = 0]
  /\ UNCHANGED <<db, loaded, deletes, quiet, history>>

(* migrate.Run; applied versions are skipped.  A Job is done with it. *)
Migrate(p) ==
  /\ pc[p] = "migrate"
  /\ migrated' = TRUE
  /\ Goto(p, IF p \in Jobs THEN "done" ELSE "admin?")
  /\ UNCHANGED <<accounts, console, keys, current, attempts, loaded, deletes, quiet, history>>

(* It fails and is retried after a pause; the last failure is an Exit. *)
RetryMigrate(p) ==
  /\ pc[p] = "migrate" /\ ~quiet
  /\ attempts[p] + 1 < MaxAttempts
  /\ attempts' = [attempts EXCEPT ![p] = @ + 1]
  /\ UNCHANGED <<db, pc, loaded, deletes, quiet, history>>

(* GetUserByEmail of an account; deleted ones count, and are left alone. *)
LookUp(p, step, account, create, next) ==
  /\ pc[p] = step
  /\ migrated
  /\ Goto(p, IF account \in accounts THEN next ELSE create)
  /\ UNCHANGED <<db, attempts, loaded, deletes, quiet, history>>

(* The transaction that creates it with its role and membership.  If the   *)
(* e-mail has come to exist, CreateUser fails: Collide.                    *)
Create(p, step, account, next) ==
  /\ pc[p] = step
  /\ account \notin accounts
  /\ accounts' = accounts \cup {account}
  /\ Goto(p, next)
  /\ UNCHANGED <<migrated, console, keys, current, attempts, loaded, deletes, quiet, history>>

(* Faulty variant, for AllComeUp: the account is created without looking   *)
(* for it first.                                                           *)
FaultyFindAdmin(p) ==
  /\ pc[p] = "admin?"
  /\ migrated
  /\ Goto(p, "admin")
  /\ UNCHANGED <<db, attempts, loaded, deletes, quiet, history>>

FindAdmin(p) == LookUp(p, "admin?", "admin", "admin", "console")
CreateAdmin(p) == Create(p, "admin", "admin", "console")
FindDemo(p) == LookUp(p, "demo?", "demo", "demo", "keys?")
CreateDemo(p) == Create(p, "demo", "demo", "keys?")

(* ON CONFLICT DO NOTHING. *)
BootstrapOIDCClient(p) ==
  /\ pc[p] = "console"
  /\ console' = TRUE
  /\ Goto(p, "demo?")
  /\ UNCHANGED <<migrated, accounts, keys, current, attempts, loaded, deletes, quiet, history>>

-----------------------------------------------------------------------------
Load(p, keySet) ==
  /\ loaded' = [loaded EXCEPT ![p] = keySet]
  /\ newer' = [newer EXCEPT ![p] = {}]

(* Faulty variant, for KeysAgree: only the active key verifies. *)
FaultyReadKeys(p) ==
  /\ pc[p] = "keys?"
  /\ IF keys = {}
       THEN Goto(p, "key") /\ UNCHANGED <<loaded, newer>>
       ELSE Goto(p, "listen") /\ Load(p, [active |-> current, verifiers |-> {current}])
  /\ UNCHANGED <<db, attempts, deletes, quiet, signed>>

(* LoadKeys: every row verifies, the active one signs. *)
ReadKeys(p) ==
  /\ pc[p] = "keys?"
  /\ IF keys = {}
       THEN Goto(p, "key") /\ UNCHANGED <<loaded, newer>>
       ELSE Goto(p, "listen") /\ Load(p, [active |-> current, verifiers |-> keys])
  /\ UNCHANGED <<db, attempts, deletes, quiet, signed>>

(* Faulty variant, for BootTypeOK: the first replica does not verify by    *)
(* the key it generated.                                                   *)
FaultyInsertKey(p, k) ==
  /\ pc[p] = "key"
  /\ k \notin keys /\ current = None
  /\ keys' = keys \cup {k} /\ current' = k
  /\ Load(p, [active |-> k, verifiers |-> {}])
  /\ Goto(p, "listen")
  /\ UNCHANGED <<migrated, accounts, console, attempts, deletes, quiet, signed>>

(* The first key: inserted as the active one unless there is one by now,   *)
(* which the unique index refuses: Collide.                                *)
InsertKey(p, k) ==
  /\ pc[p] = "key"
  /\ k \notin keys /\ current = None
  /\ keys' = keys \cup {k} /\ current' = k
  /\ Load(p, [active |-> k, verifiers |-> {k}])
  /\ Goto(p, "listen")
  /\ UNCHANGED <<migrated, accounts, console, attempts, deletes, quiet, signed>>

(* NATS, the relay, the compensator, and the port. *)
Serve(p) ==
  /\ pc[p] = "listen"
  /\ Goto(p, "serving")
  /\ UNCHANGED <<db, attempts, loaded, deletes, quiet, history>>

(* A token is issued. *)
Sign(p) ==
  /\ pc[p] = "serving"
  /\ signed' = signed \cup {loaded[p].active}
  /\ UNCHANGED <<db, pc, attempts, loaded, deletes, quiet, newer>>

(* The process is gone and so are its keys. *)
Stop(p) ==
  /\ Goto(p, "down")
  /\ IF p \in Servers
       THEN loaded' = [loaded EXCEPT ![p] = NoKeys] /\ newer' = [newer EXCEPT ![p] = {}]
       ELSE UNCHANGED <<loaded, newer>>
  /\ UNCHANGED <<db, attempts, deletes, quiet, signed>>

(* Until it is quiet any statement may fail, and at any time there may be  *)
(* a signal or a crash.                                                    *)
Exit(p) == ~quiet /\ pc[p] \notin {"down", "done"} /\ Stop(p)

(* An insert meets the row another replica has inserted since. *)
Collide(p) ==
  /\ \/ pc[p] \in {"admin", "demo"} /\ pc[p] \in accounts
     \/ pc[p] = "key" /\ current # None
  /\ Stop(p)

-----------------------------------------------------------------------------
(* The environment. *)

(* The operator rotates the key: the active row is deactivated and kept, a *)
(* new one is inserted, in one transaction.                                *)
Rotate(k) ==
  /\ keys # {} /\ k \notin keys
  /\ keys' = keys \cup {k} /\ current' = k
  /\ newer' = [p \in Servers |-> IF HasKeys(p) THEN newer[p] \cup {k} ELSE {}]
  /\ UNCHANGED <<migrated, accounts, console, pc, attempts, loaded, deletes, quiet, signed>>

(* The last outage and the last shutdown are over. *)
Quiet ==
  /\ ~quiet /\ quiet' = TRUE
  /\ UNCHANGED <<db, pc, attempts, loaded, deletes, history>>

(* A serving replica deletes a bootstrap account for good. *)
HardDeleteUser(account) ==
  /\ account \in accounts
  /\ deletes < MaxDeletes
  /\ deletes' = deletes + 1
  /\ accounts' = accounts \ {account}
  /\ UNCHANGED <<migrated, console, keys, current, pc, attempts, loaded, quiet, history>>

(* What process p does of its own. *)
Proceed(p) ==
  \/ Start(p) \/ Migrate(p)
  \/ /\ p \in Servers
     /\ \/ FindAdmin(p) \/ CreateAdmin(p) \/ BootstrapOIDCClient(p) \/ FindDemo(p) \/ CreateDemo(p)
        \/ ReadKeys(p) \/ Serve(p) \/ Collide(p)
        \/ \E k \in Kids : InsertKey(p, k)

BootNext ==
  \/ \E p \in Processes : Proceed(p) \/ RetryMigrate(p) \/ Exit(p)
  \/ \E p \in Servers : Sign(p)
  \/ \E k \in Kids : Rotate(k)
  \/ \E account \in Accounts : HardDeleteUser(account)
  \/ Quiet

BootSpec == BootInit /\ [][BootNext]_bootVars

(* No outage lasts for ever, no process rests: it runs, or is restarted. *)
Fairness ==
  /\ WF_bootVars(Quiet)
  /\ \A p \in Processes : WF_bootVars(Proceed(p))

FairBootSpec == BootSpec /\ Fairness

-----------------------------------------------------------------------------
(* A token signed by one replica is verified by every other that serves,   *)
(* also after restarts and rotations, but for keys rotated in since that   *)
(* other one started.                                                      *)
KeysAgree ==
  \A p \in Servers : pc[p] = "serving" => signed \subseteq loaded[p].verifiers \cup newer[p]

(* However the replicas raced with each other and failed before, once the  *)
(* outages are over every one of them comes to serve, and stays.           *)
AllComeUp == \A p \in Servers : <>[](pc[p] = "serving")
=============================================================================
