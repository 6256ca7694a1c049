-------------------------- MODULE TwoFactorProofs --------------------------
(* Theorems about TwoFactor, for every value of its constants. *)
EXTENDS TwoFactor, FiniteSetTheorems, TLAPS

Enrollment == {"set", "purge", "insert"}

(* The program counter of a request tells its kind. *)
LEMMA RequestFields ==
  ASSUME NEW r \in Request
  PROVE  /\ r.pc \in Enrollment <=> r \in Enrolling
         /\ r.pc = "enable" <=> r \in Activating
         /\ r.pc = "consume" <=> r \in Redeeming
         /\ r.pc = "off" <=> r \in Disabling
         /\ r.pc = "wipe" <=> r \in Wiping
         /\ r.pc \in {"count", "lock"} <=> r \in Failing
         /\ r.pc = "welcome" <=> r \in Entering
         /\ r.pc = "idle" <=> r = Idle
BY DEF Request, Idle, Enrolling, Activating, Redeeming, Disabling, Wiping, Failing, Entering, Enrollment

(* An enrolment that goes on keeps its secret and codes. *)
LEMMA EnrollPc ==
  ASSUME NEW r \in Enrolling, NEW pc \in {"purge", "insert"}
  PROVE  /\ [r EXCEPT !.pc = pc] \in Enrolling
         /\ [r EXCEPT !.pc = pc].pc = pc
         /\ [r EXCEPT !.pc = pc].secret = r.secret
         /\ [r EXCEPT !.pc = pc].left = r.left
BY DEF Enrolling

(* A code inserted changes only what an enrolment has left. *)
LEMMA EnrollLeft ==
  ASSUME NEW r \in Enrolling, NEW S
  PROVE  /\ [r EXCEPT !.left = @ \ S] \in Enrolling
         /\ [r EXCEPT !.left = @ \ S].pc = r.pc
         /\ [r EXCEPT !.left = @ \ S].secret = r.secret
         /\ [r EXCEPT !.left = @ \ S].left = r.left \ S
BY DEF Enrolling

(* Enrolments hold secrets that were generated and codes of those secrets. *)
Typed ==
  /\ TypeOK
  /\ \A h \in Handlers :
       req[h].pc \in Enrollment =>
         req[h].secret \in generated /\ req[h].left \subseteq CodesOf(req[h].secret)

(* A request that goes on keeps the types, if its enrolment has a          *)
(* generated secret.                                                       *)
LEMMA BecomeTyped ==
  ASSUME Typed, NEW h \in Handlers, NEW r \in Request, Become(h, r), generated \subseteq generated',
         r.pc \in Enrollment => r.secret \in generated' /\ r.left \subseteq CodesOf(r.secret)
  PROVE  /\ req' \in [Handlers -> Request]
         /\ \A g \in Handlers :
              req'[g].pc \in Enrollment =>
                req'[g].secret \in generated' /\ req'[g].left \subseteq CodesOf(req'[g].secret)
BY DEF Typed, TypeOK, Become

(* The requests an action leaves behind, whatever it found. *)
LEMMA NewRequests ==
  /\ Idle \in Request
  /\ \A e \in Secrets : [pc |-> "off", of |-> e] \in Request
  /\ [pc |-> "wipe"] \in Request
  /\ [pc |-> "count"] \in Request /\ [pc |-> "lock"] \in Request
  /\ \A b \in BOOLEAN : [pc |-> "welcome", challenge |-> b] \in Request
  /\ \A e \in Secrets : [pc |-> "enable", secret |-> e] \in Request
  /\ \A e \in Secrets : [pc |-> "set", secret |-> e, left |-> CodesOf(e)] \in Request
  /\ \A c \in Codes, op \in {"login", "disable"} : [pc |-> "consume", code |-> c, op |-> op] \in Request
BY DEF Request, Idle, Enrolling, Activating, Redeeming, Disabling, Wiping, Failing, Entering, Codes, CodesOf

(* Known codes are codes of generated secrets. *)
LEMMA KnownCodesTyped == Typed => KnownCodes \subseteq Codes
BY DEF KnownCodes, Codes, CodesOf, Typed, TypeOK

(* The initial state is well typed. *)
LEMMA TypedInit == Init => Typed
<1> SUFFICES ASSUME Init PROVE Typed
  OBVIOUS
<1>1. \A h \in Handlers : req[h].pc \notin Enrollment
  BY DEF Init, Idle, Enrollment
<1>2. req \in [Handlers -> Request]
  BY DEF Init, Request
<1>3. accepted \in [Codes -> Nat]
  BY DEF Init
<1> QED BY <1>1, <1>2, <1>3 DEF Init, Typed, TypeOK

(* Every step keeps the types. *)
LEMMA TypedStep == Typed /\ [Next]_vars => Typed'
<1> SUFFICES ASSUME Typed, [Next]_vars PROVE Typed'
  OBVIOUS
<1> USE DEF factor, codes, lockout, learned
<1>1. ASSUME NEW h \in Handlers, NEW e \in Secrets, EnrollTotp(h, e) PROVE Typed'
  <2> DEFINE r == [pc |-> "set", secret |-> e, left |-> CodesOf(e)]
  <2>1. r \in Request /\ r.secret = e /\ r.left = CodesOf(e)
    BY NewRequests
  <2>2. Become(h, r) /\ generated' = generated \cup {e}
    BY <1>1 DEF EnrollTotp
  <2> HIDE DEF r
  <2>3. /\ req' \in [Handlers -> Request]
        /\ \A g \in Handlers :
             req'[g].pc \in Enrollment =>
               req'[g].secret \in generated' /\ req'[g].left \subseteq CodesOf(req'[g].secret)
    BY <2>1, <2>2, BecomeTyped
  <2> QED BY <1>1, <2>3 DEF EnrollTotp, Typed, TypeOK
<1>2. ASSUME NEW h \in Handlers, SetTotpSecret(h) \/ PurgeCodes(h) PROVE Typed'
  <2>1. PICK pc \in {"purge", "insert"} : Become(h, [req[h] EXCEPT !.pc = pc])
    BY <1>2 DEF SetTotpSecret, PurgeCodes
  <2>2. req[h] \in Enrolling /\ req[h].pc \in Enrollment
    BY <1>2, RequestFields DEF SetTotpSecret, PurgeCodes, Typed, TypeOK, Enrollment
  <2>3. req[h].secret \in Secrets
    BY <2>2 DEF Enrolling
  <2> DEFINE r == [req[h] EXCEPT !.pc = pc]
  <2>4. r \in Enrolling /\ r.pc = pc /\ r.secret = req[h].secret /\ r.left = req[h].left
    BY <2>2, EnrollPc
  <2> HIDE DEF r
  <2>5. r \in Request /\ r.secret \in generated /\ r.left \subseteq CodesOf(r.secret) /\ generated' = generated
    BY <1>2, <2>2, <2>4 DEF Typed, Request, SetTotpSecret, PurgeCodes
  <2>6. /\ req' \in [Handlers -> Request]
        /\ \A g \in Handlers :
             req'[g].pc \in Enrollment =>
               req'[g].secret \in generated' /\ req'[g].left \subseteq CodesOf(req'[g].secret)
    BY <2>1, <2>5, BecomeTyped DEF r
  <2>7. CASE SetTotpSecret(h)
    BY <2>3, <2>6, <2>7 DEF SetTotpSecret, Typed, TypeOK
  <2>8. CASE PurgeCodes(h)
    BY <2>6, <2>8 DEF PurgeCodes, DeleteRecoveryCodes, Typed, TypeOK
  <2> QED BY <1>2, <2>7, <2>8
<1>3. ASSUME NEW h \in Handlers, InsertRecoveryCode(h) PROVE Typed'
  <2>1. req[h] \in Enrolling /\ req[h].pc \in Enrollment
    BY <1>3, RequestFields DEF InsertRecoveryCode, Typed, TypeOK, Enrollment
  <2>2. PICK c \in req[h].left : /\ recovery_codes' = recovery_codes \cup {c}
                                 /\ Become(h, [req[h] EXCEPT !.left = @ \ {c}])
    BY <1>3 DEF InsertRecoveryCode
  <2> DEFINE r == [req[h] EXCEPT !.left = @ \ {c}]
  <2>3. r \in Enrolling /\ r.secret = req[h].secret /\ r.left = req[h].left \ {c}
    BY <2>1, EnrollLeft
  <2> HIDE DEF r
  <2>4. c \in Codes
    BY <2>1, <2>2 DEF Enrolling
  <2>5. r \in Request /\ r.secret \in generated /\ r.left \subseteq CodesOf(r.secret) /\ generated' = generated
    BY <1>3, <2>1, <2>3 DEF Typed, Request, InsertRecoveryCode
  <2>6. /\ req' \in [Handlers -> Request]
        /\ \A g \in Handlers :
             req'[g].pc \in Enrollment =>
               req'[g].secret \in generated' /\ req'[g].left \subseteq CodesOf(req'[g].secret)
    BY <2>2, <2>5, BecomeTyped DEF r
  <2> QED BY <1>3, <2>2, <2>4, <2>6 DEF InsertRecoveryCode, Typed, TypeOK
<1>4. ASSUME NEW h \in Handlers, NEW r \in Request, Become(h, r), r.pc \notin Enrollment, generated' = generated
      PROVE  /\ req' \in [Handlers -> Request]
             /\ \A g \in Handlers :
                  req'[g].pc \in Enrollment =>
                    req'[g].secret \in generated' /\ req'[g].left \subseteq CodesOf(req'[g].secret)
  BY <1>4, BecomeTyped
<1>5. Idle.pc \notin Enrollment
  BY DEF Idle, Enrollment
<1>6. ASSUME NEW h \in Handlers,
             Enrolled(h) \/ EnableTotp(h) \/ WipeCodes(h) \/ LockUser(h) \/ LockUserFails(h) \/ Abort(h)
                \/ Welcome(h)
      PROVE  Typed'
  <2>1. /\ req' \in [Handlers -> Request]
        /\ \A g \in Handlers :
             req'[g].pc \in Enrollment =>
               req'[g].secret \in generated' /\ req'[g].left \subseteq CodesOf(req'[g].secret)
    BY <1>4, <1>5, <1>6, NewRequests
       DEF Enrolled, EnableTotp, WipeCodes, LockUser, LockUserFails, Abort, Welcome
  <2>2. CASE Enrolled(h)
    BY <2>1, <2>2 DEF Enrolled, Typed, TypeOK, Enrollment
  <2>3. CASE EnableTotp(h)
    BY <2>1, <2>3 DEF EnableTotp, Typed, TypeOK, At
  <2>4. CASE WipeCodes(h)
    BY <2>1, <2>4 DEF WipeCodes, DeleteRecoveryCodes, Typed, TypeOK
  <2>5. CASE LockUser(h) \/ LockUserFails(h) \/ Abort(h)
    <3>1. failed_login_attempts' \in Nat /\ guesses' \in Nat /\ lost' \in Nat
      BY <2>5 DEF LockUser, LockUserFails, Abort, Typed, TypeOK
    <3>2. locked' \in BOOLEAN /\ UNCHANGED <<factor, codes, learned, challenged>>
      BY <2>5 DEF LockUser, LockUserFails, Abort, Typed, TypeOK
    <3> QED BY <2>1, <3>1, <3>2 DEF Typed, TypeOK
  <2>6. CASE Welcome(h)
    <3>1. req[h].challenge \in BOOLEAN
      BY <2>6, RequestFields DEF Welcome, Typed, TypeOK, Entering
    <3>2. failed_login_attempts' \in Nat /\ guesses' \in Nat /\ lost' \in Nat
      BY <2>6 DEF Welcome, Typed, TypeOK
    <3>3. locked' \in BOOLEAN /\ challenged' \in BOOLEAN /\ UNCHANGED <<factor, codes, learned>>
      BY <2>6, <3>1 DEF Welcome, Typed, TypeOK
    <3> QED BY <2>1, <3>2, <3>3 DEF Typed, TypeOK
  <2> QED BY <1>6, <2>2, <2>3, <2>4, <2>5, <2>6
<1>7. ASSUME NEW h \in Handlers, ActivateTotp(h) PROVE Typed'
  <2>1. totp_secret \in generated /\ totp_secret \in Secrets
    BY <1>7 DEF ActivateTotp, Authenticated, Typed, TypeOK
  <2>2. [pc |-> "enable", secret |-> totp_secret] \in Request
    BY <2>1, NewRequests
  <2>3. [pc |-> "enable", secret |-> totp_secret].pc \notin Enrollment
    BY DEF Enrollment
  <2> QED BY <1>4, <1>7, <2>1, <2>2, <2>3 DEF ActivateTotp, Typed, TypeOK
<1>8. ASSUME NEW h \in Handlers, ClearTotp(h) PROVE Typed'
  <2>1. [pc |-> "wipe"].pc \notin Enrollment
    BY DEF Enrollment
  <2> QED BY <1>4, <1>8, <2>1, NewRequests DEF ClearTotp, Typed, TypeOK
<1>9. ASSUME NEW h \in Handlers,
             DisableTotp(h) \/ Login(h) \/ LoginTotp(h) \/ ConsumeRecoveryCode(h) \/ IncrementLoginFailure(h)
      PROVE  Typed'
  <2>1. PICK r \in Request : Become(h, r) /\ r.pc \notin Enrollment
    <3>1. CASE DisableTotp(h)
      <4>1. Authenticated => totp_secret \in Secrets
        BY DEF Authenticated, Typed, TypeOK
      <4> QED BY <3>1, <4>1, NewRequests, KnownCodesTyped DEF DisableTotp, Enrollment
    <3>2. CASE Login(h)
      BY <3>2, NewRequests DEF Login, Enrollment, Typed, TypeOK
    <3>3. CASE LoginTotp(h)
      BY <3>3, NewRequests, KnownCodesTyped DEF LoginTotp, Enrollment
    <3>4. CASE ConsumeRecoveryCode(h)
      <4>1. req[h].code[1] \in Secrets
        BY <3>4, RequestFields DEF ConsumeRecoveryCode, Typed, TypeOK, Redeeming, Codes
      <4> QED BY <1>5, <3>4, <4>1, NewRequests DEF ConsumeRecoveryCode, Enrollment
    <3>5. CASE IncrementLoginFailure(h)
      BY <1>5, <3>5, NewRequests DEF IncrementLoginFailure, Enrollment
    <3> QED BY <1>9, <3>1, <3>2, <3>3, <3>4, <3>5
  <2>2. generated' = generated
    BY <1>9 DEF DisableTotp, Login, LoginTotp, ConsumeRecoveryCode, IncrementLoginFailure
  <2>3. /\ req' \in [Handlers -> Request]
        /\ \A g \in Handlers :
             req'[g].pc \in Enrollment =>
               req'[g].secret \in generated' /\ req'[g].left \subseteq CodesOf(req'[g].secret)
    BY <1>4, <2>1, <2>2
  <2>4. CASE DisableTotp(h) \/ Login(h) \/ LoginTotp(h)
    BY <2>3, <2>4 DEF DisableTotp, Login, LoginTotp, Typed, TypeOK
  <2>5. CASE ConsumeRecoveryCode(h)
    <3>1. req[h].code \in Codes
      BY <2>5, RequestFields DEF ConsumeRecoveryCode, Typed, TypeOK, Redeeming
    <3> QED BY <2>3, <2>5, <3>1 DEF ConsumeRecoveryCode, Spendable, Typed, TypeOK
  <2>6. CASE IncrementLoginFailure(h)
    BY <2>3, <2>6 DEF IncrementLoginFailure, Typed, TypeOK
  <2> QED BY <1>9, <2>4, <2>5, <2>6
<1>10. CASE LockExpires \/ MfaTokenExpires \/ UNCHANGED vars
  BY <1>10 DEF LockExpires, MfaTokenExpires, vars, Typed, TypeOK
<1> QED BY <1>1, <1>2, <1>3, <1>6, <1>7, <1>8, <1>9, <1>10 DEF Next

(* The types always hold. *)
LEMMA AlwaysTyped == Spec => []Typed
BY TypedInit, TypedStep, PTL DEF Spec

(* No state ever leaves the types. *)
THEOREM TypeCorrect == Spec => []TypeOK
BY AlwaysTyped, PTL DEF Typed

-----------------------------------------------------------------------------
(* What the actions make of the request they run. *)

LEMMA Others ==
  ASSUME Typed, NEW h \in Handlers, NEW r, Become(h, r)
  PROVE  req'[h] = r /\ \A g \in Handlers \ {h} : req'[g] = req[g]
BY DEF Become, Typed, TypeOK

(* What EnrollTotp does to the requests. *)
LEMMA Enrolls ==
  ASSUME Typed, NEW h \in Handlers, NEW e \in Secrets, EnrollTotp(h, e)
  PROVE  /\ req'[h].pc = "set" /\ req'[h].secret = e /\ req'[h].left = CodesOf(e)
         /\ \A g \in Handlers \ {h} : req'[g] = req[g]
<1>1. Become(h, [pc |-> "set", secret |-> e, left |-> CodesOf(e)])
  BY DEF EnrollTotp
<1> QED BY <1>1, Others

(* What SetTotpSecret and PurgeCodes do to the requests. *)
LEMMA MovesOn ==
  ASSUME Typed, NEW h \in Handlers, SetTotpSecret(h) \/ PurgeCodes(h)
  PROVE  /\ req'[h].pc = IF req[h].pc = "set" THEN "purge" ELSE "insert"
         /\ req'[h].secret = req[h].secret /\ req'[h].left = req[h].left
         /\ \A g \in Handlers \ {h} : req'[g] = req[g]
<1>1. req[h] \in Enrolling
  BY RequestFields DEF SetTotpSecret, PurgeCodes, Typed, TypeOK, Enrollment
<1>2. PICK pc \in {"purge", "insert"} : /\ Become(h, [req[h] EXCEPT !.pc = pc])
                                        /\ pc = IF req[h].pc = "set" THEN "purge" ELSE "insert"
  BY DEF SetTotpSecret, PurgeCodes
<1> DEFINE r == [req[h] EXCEPT !.pc = pc]
<1>3. r.pc = pc /\ r.secret = req[h].secret /\ r.left = req[h].left
  BY <1>1, EnrollPc
<1>4. Become(h, r)
  BY <1>2
<1> HIDE DEF r
<1> QED BY <1>2, <1>3, <1>4, Others

(* What InsertRecoveryCode does to the table and the requests. *)
LEMMA Inserts ==
  ASSUME Typed, NEW h \in Handlers, InsertRecoveryCode(h)
  PROVE  \E c \in req[h].left :
           /\ recovery_codes' = recovery_codes \cup {c}
           /\ req'[h].pc = "insert" /\ req'[h].secret = req[h].secret
           /\ req'[h].left = req[h].left \ {c}
           /\ \A g \in Handlers \ {h} : req'[g] = req[g]
<1>1. req[h] \in Enrolling /\ req[h].pc = "insert"
  BY RequestFields DEF InsertRecoveryCode, Typed, TypeOK, Enrollment
<1>2. PICK c \in req[h].left : /\ recovery_codes' = recovery_codes \cup {c}
                               /\ Become(h, [req[h] EXCEPT !.left = @ \ {c}])
  BY DEF InsertRecoveryCode
<1> DEFINE r == [req[h] EXCEPT !.left = @ \ {c}]
<1>3. r.pc = "insert" /\ r.secret = req[h].secret /\ r.left = req[h].left \ {c}
  BY <1>1, EnrollLeft
<1>4. Become(h, r)
  BY <1>2
<1> HIDE DEF r
<1> QED BY <1>2, <1>3, <1>4, Others

(* The actions that start, continue or end anything but an enrolment. *)
Elsewhere(h) ==
  \/ Enrolled(h) \/ ActivateTotp(h) \/ EnableTotp(h) \/ DisableTotp(h) \/ ClearTotp(h) \/ WipeCodes(h)
  \/ Login(h) \/ LoginTotp(h) \/ ConsumeRecoveryCode(h) \/ Welcome(h)
  \/ IncrementLoginFailure(h) \/ LockUser(h) \/ LockUserFails(h) \/ Abort(h)

(* Only four actions leave a request that the invariants speak about. *)
Leaves(h) ==
  /\ req'[h].pc \notin Enrollment
  /\ req'[h].pc = "enable" => ActivateTotp(h)
  /\ req'[h].pc = "wipe" => ClearTotp(h)
  /\ req'[h].pc = "lock" => IncrementLoginFailure(h)
  /\ \A g \in Handlers \ {h} : req'[g] = req[g]

(* The other steps of a request lead out of enrolment, and to the counters *)
(* the invariants speak of by one action each.                             *)
LEMMA LeavesEnrollment ==
  ASSUME Typed, NEW h \in Handlers, Elsewhere(h)
  PROVE  Leaves(h)
<1>1. ASSUME NEW r, Become(h, r), r.pc \in {"idle", "off", "consume", "count", "welcome"}
      PROVE  Leaves(h)
  BY <1>1, Others DEF Leaves, Enrollment
<1>2. CASE Enrolled(h) \/ EnableTotp(h) \/ WipeCodes(h) \/ Welcome(h)
  BY <1>1, <1>2 DEF Enrolled, EnableTotp, WipeCodes, Welcome, Idle
<1>3. CASE LockUser(h) \/ LockUserFails(h) \/ Abort(h)
  BY <1>1, <1>3 DEF LockUser, LockUserFails, Abort, Idle
<1>4. CASE ActivateTotp(h)
  BY <1>4, Others DEF ActivateTotp, Leaves, Enrollment
<1>5. CASE ClearTotp(h)
  BY <1>5, Others DEF ClearTotp, Leaves, Enrollment
<1>6. CASE DisableTotp(h)
  <2>1. ASSUME NEW c \in KnownCodes, Become(h, [pc |-> "consume", code |-> c, op |-> "disable"])
        PROVE  Leaves(h)
    BY <1>1, <2>1
  <2>2. CASE Become(h, [pc |-> "off", of |-> totp_secret])
    BY <1>1, <2>2
  <2> QED BY <1>6, <2>1, <2>2 DEF DisableTotp
<1>7. CASE Login(h)
  BY <1>1, <1>7 DEF Login
<1>8. CASE LoginTotp(h)
  <2>1. ASSUME NEW c \in KnownCodes, Become(h, [pc |-> "consume", code |-> c, op |-> "login"])
        PROVE  Leaves(h)
    BY <1>1, <2>1
  <2>2. CASE Become(h, [pc |-> "count"]) \/ Become(h, [pc |-> "welcome", challenge |-> FALSE])
    BY <1>1, <2>2
  <2> QED BY <1>8, <2>1, <2>2 DEF LoginTotp
<1>9. CASE ConsumeRecoveryCode(h)
  <2>1. PICK r \in {Idle, [pc |-> "off", of |-> req[h].code[1]], [pc |-> "count"],
                    [pc |-> "welcome", challenge |-> FALSE]} :
          Become(h, r)
    BY <1>9 DEF ConsumeRecoveryCode
  <2>2. r.pc \in {"idle", "off", "count", "welcome"}
    BY DEF Idle
  <2> QED BY <1>1, <2>1, <2>2
<1>10. CASE IncrementLoginFailure(h)
  <2>1. PICK r \in {Idle, [pc |-> "lock"]} : Become(h, r)
    BY <1>10 DEF IncrementLoginFailure
  <2>2. r.pc \in {"idle", "lock"}
    BY DEF Idle
  <2> QED BY <1>10, <2>1, <2>2, Others DEF Leaves, Enrollment
<1> QED BY <1>2, <1>3, <1>4, <1>5, <1>6, <1>7, <1>8, <1>9, <1>10 DEF Elsewhere

-----------------------------------------------------------------------------
(* Every activation under way has checked a code of its secret, which is   *)
(* the secret in force as long as nothing raced with it.                   *)
FactorHolds ==
  /\ EnabledIsProven
  /\ \A h \in Handlers :
       req[h].pc = "enable" => /\ req[h].secret \in proven
                               /\ ~raced => req[h].secret = totp_secret

(* Every step keeps the factor proven, or raced. *)
LEMMA FactorKept == Typed /\ FactorHolds /\ [Next]_vars => FactorHolds'
<1> SUFFICES ASSUME Typed, FactorHolds, [Next]_vars PROVE FactorHolds'
  OBVIOUS
<1> USE DEF FactorHolds, EnabledIsProven, factor, codes, lockout, learned
<1>1. ASSUME NEW h \in Handlers, NEW e \in Secrets, EnrollTotp(h, e) PROVE FactorHolds'
  BY <1>1, Enrolls DEF EnrollTotp
<1>2. ASSUME NEW h \in Handlers, SetTotpSecret(h) PROVE FactorHolds'
  <2>1. req'[h].pc = "purge" /\ \A g \in Handlers \ {h} : req'[g] = req[g]
    BY <1>2, MovesOn DEF SetTotpSecret
  <2>2. ~totp_enabled' /\ proven' = proven
    BY <1>2 DEF SetTotpSecret
  <2>3. ~raced' => \A g \in Handlers : req[g].pc # "enable"
    BY <1>2 DEF SetTotpSecret, At
  <2> QED BY <2>1, <2>2, <2>3
<1>3. ASSUME NEW h \in Handlers, PurgeCodes(h) PROVE FactorHolds'
  <2>1. req'[h].pc = "insert" /\ \A g \in Handlers \ {h} : req'[g] = req[g]
    BY <1>3, MovesOn DEF PurgeCodes
  <2> QED BY <1>3, <2>1 DEF PurgeCodes
<1>4. ASSUME NEW h \in Handlers, InsertRecoveryCode(h) PROVE FactorHolds'
  <2>1. req'[h].pc = "insert" /\ \A g \in Handlers \ {h} : req'[g] = req[g]
    BY <1>4, Inserts
  <2> QED BY <1>4, <2>1 DEF InsertRecoveryCode
<1>5. ASSUME NEW h \in Handlers, ActivateTotp(h) PROVE FactorHolds'
  <2>1. Become(h, [pc |-> "enable", secret |-> totp_secret])
    BY <1>5 DEF ActivateTotp
  <2>2. /\ req'[h].secret = totp_secret /\ \A g \in Handlers \ {h} : req'[g] = req[g]
    BY <2>1, Others
  <2> QED BY <1>5, <2>2 DEF ActivateTotp
<1>6. ASSUME NEW h \in Handlers, EnableTotp(h) PROVE FactorHolds'
  <2>1. req'[h].pc # "enable" /\ \A g \in Handlers \ {h} : req'[g] = req[g]
    BY <1>6, Others DEF EnableTotp, Idle
  <2> QED BY <1>6, <2>1 DEF EnableTotp
<1>7. ASSUME NEW h \in Handlers, ClearTotp(h) PROVE FactorHolds'
  <2>1. req'[h].pc # "enable" /\ \A g \in Handlers \ {h} : req'[g] = req[g]
    BY <1>7, Others DEF ClearTotp
  <2>2. ~totp_enabled' /\ proven' = proven
    BY <1>7 DEF ClearTotp
  <2>3. ~raced' => \A g \in Handlers : req[g].pc # "enable"
    BY <1>7 DEF ClearTotp, At
  <2> QED BY <2>1, <2>2, <2>3
<1>8. ASSUME NEW h \in Handlers, Elsewhere(h), ~ActivateTotp(h), ~EnableTotp(h), ~ClearTotp(h)
      PROVE  FactorHolds'
  <2>1. req'[h].pc # "enable" /\ \A g \in Handlers \ {h} : req'[g] = req[g]
    BY <1>8, LeavesEnrollment DEF Leaves
  <2>2. UNCHANGED <<factor, proven>>
    BY <1>8 DEF Elsewhere, Enrolled, DisableTotp, WipeCodes, Login, LoginTotp, ConsumeRecoveryCode,
                Welcome, IncrementLoginFailure, LockUser, LockUserFails, Abort
  <2> QED BY <2>1, <2>2
<1>9. CASE LockExpires \/ MfaTokenExpires \/ UNCHANGED vars
  BY <1>9 DEF LockExpires, MfaTokenExpires, vars
<1> QED BY <1>1, <1>2, <1>3, <1>4, <1>5, <1>6, <1>7, <1>8, <1>9 DEF Next, Elsewhere

(* The second factor in force is one the user has shown to work. *)
THEOREM EnabledIsProvenCorrect == Spec => []EnabledIsProven
<1>1. Init => FactorHolds
  BY DEF Init, FactorHolds, EnabledIsProven, Idle
<1> QED BY <1>1, FactorKept, AlwaysTyped, PTL DEF Spec, FactorHolds

-----------------------------------------------------------------------------
(* Requests about to lock the account, before and after a step of h. *)

LEMMA LocksFinite == IsFiniteSet(At("lock")) /\ Cardinality(At("lock")) \in Nat
<1>1. At("lock") \subseteq Handlers
  BY DEF At
<1> QED BY <1>1, TwoFactorAssumption, FS_Subset, FS_CardinalityType DEF TwoFactorAssumption

(* A request that neither starts nor ends locking leaves the set of those  *)
(* about to lock.                                                          *)
LEMMA LocksKept ==
  ASSUME NEW h \in Handlers, \A g \in Handlers \ {h} : req'[g] = req[g],
         req[h].pc = "lock" <=> req'[h].pc = "lock"
  PROVE  At("lock")' = At("lock")
BY DEF At

(* A request about to lock is one more of them. *)
LEMMA LockAdded ==
  ASSUME NEW h \in Handlers, \A g \in Handlers \ {h} : req'[g] = req[g],
         req[h].pc # "lock", req'[h].pc = "lock"
  PROVE  Cardinality(At("lock"))' = Cardinality(At("lock")) + 1
<1>1. At("lock")' = At("lock") \cup {h} /\ h \notin At("lock")
  BY DEF At
<1> QED BY <1>1, LocksFinite, FS_AddElement

(* A request that has locked or failed to is one less of them. *)
LEMMA LockRemoved ==
  ASSUME NEW h \in Handlers, \A g \in Handlers \ {h} : req'[g] = req[g],
         req[h].pc = "lock", req'[h].pc # "lock"
  PROVE  Cardinality(At("lock"))' = Cardinality(At("lock")) - 1
<1>1. At("lock")' = At("lock") \ {h} /\ h \in At("lock")
  BY DEF At
<1> QED BY <1>1, LocksFinite, FS_RemoveElement

(* The counter of the row is the history of failures. *)
Counted == guesses = failed_login_attempts /\ FailuresBound

(* Every step keeps the counter equal to the failures counted, and within  *)
(* their bound.                                                            *)
LEMMA CountedKept == Typed /\ Counted /\ [Next]_vars => Counted'
<1> SUFFICES ASSUME Typed, Counted, [Next]_vars PROVE Counted'
  OBVIOUS
<1> USE DEF Counted, FailuresBound
<1>0. /\ Cardinality(At("lock")) \in Nat /\ guesses \in Nat /\ lost \in Nat
      /\ MaxFailures \in Nat \ {0}
  BY LocksFinite, TwoFactorAssumption DEF Typed, TypeOK, TwoFactorAssumption
<1>1. ASSUME UNCHANGED lockout, At("lock")' = At("lock") PROVE Counted'
  BY <1>1 DEF lockout
<1>2. ASSUME NEW h \in Handlers, NEW e \in Secrets, EnrollTotp(h, e) PROVE Counted'
  <2>1. At("lock")' = At("lock")
    BY <1>2, Enrolls, LocksKept DEF EnrollTotp, Idle
  <2> QED BY <1>1, <1>2, <2>1 DEF EnrollTotp
<1>3. ASSUME NEW h \in Handlers, SetTotpSecret(h) \/ PurgeCodes(h) PROVE Counted'
  <2>1. At("lock")' = At("lock")
    BY <1>3, MovesOn, LocksKept DEF SetTotpSecret, PurgeCodes
  <2> QED BY <1>1, <1>3, <2>1 DEF SetTotpSecret, PurgeCodes
<1>4. ASSUME NEW h \in Handlers, InsertRecoveryCode(h) PROVE Counted'
  <2>1. At("lock")' = At("lock")
    BY <1>4, Inserts, LocksKept DEF InsertRecoveryCode
  <2> QED BY <1>1, <1>4, <2>1 DEF InsertRecoveryCode
<1>5. ASSUME NEW h \in Handlers, IncrementLoginFailure(h) PROVE Counted'
  <2>1. req[h].pc # "lock" /\ \A g \in Handlers \ {h} : req'[g] = req[g]
    BY <1>5, LeavesEnrollment DEF Elsewhere, Leaves, IncrementLoginFailure
  <2>2. guesses' = guesses + 1 /\ failed_login_attempts' = guesses' /\ lost' = lost
    BY <1>5 DEF IncrementLoginFailure
  <2>3. CASE failed_login_attempts' >= MaxFailures
    <3>1. req'[h].pc = "lock"
      BY <1>5, <2>3, Others DEF IncrementLoginFailure
    <3> QED BY <1>0, <2>1, <2>2, <3>1, LockAdded
  <2>4. CASE ~(failed_login_attempts' >= MaxFailures)
    <3>1. req'[h].pc # "lock"
      BY <1>5, <2>4, Others DEF IncrementLoginFailure, Idle
    <3>2. At("lock")' = At("lock")
      BY <2>1, <3>1, LocksKept
    <3>3. guesses' < MaxFailures
      BY <1>0, <2>2, <2>4
    <3> QED BY <1>0, <2>2, <3>2, <3>3
  <2> QED BY <2>3, <2>4
<1>6. ASSUME NEW h \in Handlers, LockUserFails(h) PROVE Counted'
  <2>1. req[h].pc = "lock" /\ req'[h].pc # "lock" /\ \A g \in Handlers \ {h} : req'[g] = req[g]
    BY <1>6, Others DEF LockUserFails, Idle
  <2>2. guesses' = guesses /\ failed_login_attempts' = guesses' /\ lost' = lost + 1
    BY <1>6 DEF LockUserFails
  <2> QED BY <1>0, <2>1, <2>2, LockRemoved
<1>7. ASSUME guesses' = 0, failed_login_attempts' = 0, lost' = 0 PROVE Counted'
  <2>1. Cardinality(At("lock"))' \in Nat
    BY LocksFinite, TwoFactorAssumption, FS_Subset, FS_CardinalityType DEF TwoFactorAssumption, At
  <2> QED BY <1>0, <1>7, <2>1
<1>8. ASSUME NEW h \in Handlers, Elsewhere(h), ~IncrementLoginFailure(h), ~LockUserFails(h) PROVE Counted'
  <2>1. CASE LockUser(h)
    BY <1>7, <2>1 DEF LockUser
  <2>2. CASE ~LockUser(h)
    <3>1. req[h].pc # "lock"
      BY <1>8, <2>2
         DEF Elsewhere, Enrolled, ActivateTotp, EnableTotp, DisableTotp, ClearTotp, WipeCodes, Login,
             LoginTotp, ConsumeRecoveryCode, Welcome, Abort, Idle
    <3>2. At("lock")' = At("lock")
      BY <1>8, <3>1, LeavesEnrollment, LocksKept DEF Leaves
    <3>3. \/ UNCHANGED lockout
          \/ guesses' = 0 /\ failed_login_attempts' = 0 /\ lost' = 0
      BY <1>8, <2>2
         DEF Elsewhere, Enrolled, ActivateTotp, EnableTotp, DisableTotp, ClearTotp, WipeCodes, Login,
             LoginTotp, ConsumeRecoveryCode, Welcome, Abort
    <3> QED BY <1>1, <1>7, <3>2, <3>3
  <2> QED BY <2>1, <2>2
<1>9. CASE LockExpires \/ MfaTokenExpires \/ UNCHANGED vars
  BY <1>9 DEF LockExpires, MfaTokenExpires, vars, lockout, At
<1> HIDE DEF Counted, FailuresBound
<1> QED BY <1>2, <1>3, <1>4, <1>5, <1>6, <1>8, <1>9 DEF Next, Elsewhere

(* The lockout counts every failure and locks at the limit. *)
THEOREM FailuresBoundCorrect == Spec => []FailuresBound
<1>1. Init => Counted
  <2> SUFFICES ASSUME Init PROVE Counted
    OBVIOUS
  <2>1. Cardinality(At("lock")) \in Nat /\ MaxFailures \in Nat \ {0}
    BY LocksFinite, TwoFactorAssumption DEF TwoFactorAssumption
  <2> QED BY <2>1 DEF Init, Counted, FailuresBound
<1> QED BY <1>1, CountedKept, AlwaysTyped, PTL DEF Spec, Counted

-----------------------------------------------------------------------------
(* Enrolments under way have secrets of their own, not returned yet, and   *)
(* all their codes until they start to insert them.                        *)
Underway(h) == req[h].pc \in Enrollment

Apart ==
  /\ \A g, h \in Handlers : g # h /\ Underway(g) /\ Underway(h) => req[g].secret # req[h].secret
  /\ \A h \in Handlers : Underway(h) => req[h].secret \notin shown
  /\ \A h \in Handlers : req[h].pc \in {"set", "purge"} => req[h].left = CodesOf(req[h].secret)

(* No step gives two enrolments one secret. *)
LEMMA ApartKept == Typed /\ Apart /\ [Next]_vars => Apart'
<1> SUFFICES ASSUME Typed, Apart, [Next]_vars PROVE Apart'
  OBVIOUS
<1> USE DEF Apart, Underway, Enrollment, factor, codes, lockout, learned
<1>1. ASSUME NEW h \in Handlers, NEW e \in Secrets, EnrollTotp(h, e) PROVE Apart'
  <2>1. e \notin shown /\ \A g \in Handlers : Underway(g) => req[g].secret # e
    BY <1>1 DEF EnrollTotp, Typed, TypeOK
  <2>2. shown' = shown
    BY <1>1 DEF EnrollTotp
  <2> QED BY <1>1, <2>1, <2>2, Enrolls
<1>2. ASSUME NEW h \in Handlers, SetTotpSecret(h) \/ PurgeCodes(h) PROVE Apart'
  <2>1. shown' = shown /\ req[h].pc \in {"set", "purge"}
    BY <1>2 DEF SetTotpSecret, PurgeCodes
  <2> QED BY <1>2, <2>1, MovesOn
<1>3. ASSUME NEW h \in Handlers, InsertRecoveryCode(h) PROVE Apart'
  <2>1. shown' = shown /\ req[h].pc = "insert"
    BY <1>3 DEF InsertRecoveryCode
  <2>2. req'[h].pc = "insert" /\ req'[h].secret = req[h].secret /\ \A g \in Handlers \ {h} : req'[g] = req[g]
    BY <1>3, Inserts
  <2> QED BY <2>1, <2>2
<1>4. ASSUME NEW h \in Handlers, Elsewhere(h) PROVE Apart'
  <2>1. ~Underway(h)' /\ \A g \in Handlers \ {h} : req'[g] = req[g]
    BY <1>4, LeavesEnrollment DEF Leaves
  <2>2. CASE Enrolled(h)
    <3>1. shown' = shown \cup {req[h].secret} /\ Underway(h)
      BY <2>2 DEF Enrolled
    <3> QED BY <2>1, <3>1
  <2>3. CASE ~Enrolled(h)
    <3>1. shown' = shown
      BY <1>4, <2>3
         DEF Elsewhere, ActivateTotp, EnableTotp, DisableTotp, ClearTotp, WipeCodes, Login,
             LoginTotp, ConsumeRecoveryCode, Welcome, IncrementLoginFailure, LockUser, LockUserFails, Abort
    <3> QED BY <2>1, <3>1
  <2> QED BY <2>2, <2>3
<1>5. CASE LockExpires \/ MfaTokenExpires \/ UNCHANGED vars
  BY <1>5 DEF LockExpires, MfaTokenExpires, vars
<1> QED BY <1>1, <1>2, <1>3, <1>4, <1>5 DEF Next, Elsewhere

(* Two enrolments never have one secret. *)
LEMMA AlwaysApart == Spec => [](Typed /\ Apart)
<1>1. Init => Apart
  BY DEF Init, Apart, Underway, Enrollment, Idle
<1> QED BY <1>1, ApartKept, AlwaysTyped, PTL DEF Spec

-----------------------------------------------------------------------------
(* A recovery code is never in the table before its enrolment inserts it,  *)
(* which happens once, and not accepted while it can still be spent.       *)
CodeLife ==
  /\ RecoveryCodeOnce
  /\ \A c \in Codes : c[1] \notin generated => accepted[c] = 0 /\ c \notin recovery_codes
  /\ \A h \in Handlers :
       Underway(h) => \A c \in req[h].left : accepted[c] = 0 /\ c \notin recovery_codes
  /\ \A c \in recovery_codes \ used : accepted[c] = 0

(* Every step keeps the life of a code: inserted once, accepted at most    *)
(* once.                                                                   *)
LEMMA CodeLifeKept == Typed /\ Apart /\ CodeLife /\ [Next]_vars => CodeLife'
<1> SUFFICES ASSUME Typed, Apart, CodeLife, [Next]_vars PROVE CodeLife'
  OBVIOUS
<1> USE DEF CodeLife, RecoveryCodeOnce, Underway, factor, codes, lockout, learned
<1>0. /\ accepted \in [Codes -> Nat] /\ recovery_codes \subseteq Codes
      /\ \A h \in Handlers : Underway(h) => /\ req[h].secret \in generated
                                            /\ req[h].left \subseteq CodesOf(req[h].secret)
  BY DEF Typed, TypeOK
<1>1. ASSUME NEW h \in Handlers, NEW e \in Secrets, EnrollTotp(h, e) PROVE CodeLife'
  <2>1. UNCHANGED codes /\ generated' = generated \cup {e} /\ e \notin generated
    BY <1>1 DEF EnrollTotp
  <2>2. \A c \in CodesOf(e) : c \in Codes /\ c[1] = e
    BY DEF CodesOf, Codes
  <2> QED BY <1>1, <2>1, <2>2, Enrolls
<1>2. ASSUME recovery_codes' \subseteq recovery_codes, recovery_codes' \ used' \subseteq recovery_codes \ used,
             accepted' = accepted, generated' = generated,
             \A g \in Handlers : Underway(g)' => Underway(g) /\ req'[g].left \subseteq req[g].left
      PROVE  CodeLife'
  BY <1>2
<1>3. ASSUME NEW h \in Handlers, SetTotpSecret(h) \/ PurgeCodes(h) PROVE CodeLife'
  <2>1. \A g \in Handlers : Underway(g)' => Underway(g) /\ req'[g].left \subseteq req[g].left
    BY <1>3, MovesOn DEF SetTotpSecret, PurgeCodes, Enrollment
  <2>2. /\ recovery_codes' \subseteq recovery_codes /\ recovery_codes' \ used' \subseteq recovery_codes \ used
        /\ accepted' = accepted /\ generated' = generated
    BY <1>3 DEF SetTotpSecret, PurgeCodes, DeleteRecoveryCodes
  <2> QED BY <1>2, <2>1, <2>2
<1>4. ASSUME NEW h \in Handlers, InsertRecoveryCode(h) PROVE CodeLife'
  <2>1. PICK c \in req[h].left : /\ recovery_codes' = recovery_codes \cup {c}
                                 /\ req'[h].pc = "insert" /\ req'[h].secret = req[h].secret
                                 /\ req'[h].left = req[h].left \ {c}
                                 /\ \A g \in Handlers \ {h} : req'[g] = req[g]
    BY <1>4, Inserts
  <2>2. UNCHANGED <<used, accepted, generated>> /\ Underway(h)
    BY <1>4 DEF InsertRecoveryCode, Enrollment
  <2>3. accepted[c] = 0 /\ c[1] = req[h].secret /\ c[1] \in generated
    BY <1>0, <2>1, <2>2 DEF CodesOf
  <2>4. \A g \in Handlers \ {h} : Underway(g) => c \notin req[g].left
    BY <1>0, <2>2, <2>3 DEF Apart, CodesOf
  <2> QED BY <2>1, <2>2, <2>3, <2>4
<1>5. ASSUME NEW h \in Handlers, ConsumeRecoveryCode(h) PROVE CodeLife'
  <2>1. ~Underway(h)' /\ \A g \in Handlers \ {h} : req'[g] = req[g]
    BY <1>5, LeavesEnrollment DEF Elsewhere, Leaves
  <2>2. PICK c : c = req[h].code
    OBVIOUS
  <2>3. recovery_codes' = recovery_codes /\ generated' = generated
    BY <1>5 DEF ConsumeRecoveryCode
  <2>4. CASE Spendable(c)
    <3>1. used' = used \cup {c} /\ accepted' = [accepted EXCEPT ![c] = @ + 1]
      BY <1>5, <2>2, <2>4 DEF ConsumeRecoveryCode
    <3>2. c \in recovery_codes /\ accepted[c] = 0 /\ c \in Codes
      BY <1>0, <2>4 DEF Spendable
    <3>3. accepted'[c] = 1 /\ \A d \in Codes \ {c} : accepted'[d] = accepted[d]
      BY <1>0, <3>1, <3>2
    <3>4. \A g \in Handlers : Underway(g) => c \notin req[g].left /\ req[g].left \subseteq Codes
      <4>1. \A g \in Handlers : Underway(g) => req[g] \in Enrolling
        BY RequestFields DEF Typed, TypeOK
      <4> QED BY <3>2, <4>1 DEF Enrolling
    <3> QED BY <1>0, <2>1, <2>3, <3>1, <3>2, <3>3, <3>4
  <2>5. CASE ~Spendable(c)
    <3>1. used' = used /\ accepted' = accepted
      BY <1>5, <2>2, <2>5 DEF ConsumeRecoveryCode
    <3> QED BY <1>2, <2>1, <2>3, <3>1
  <2> QED BY <2>4, <2>5
<1>6. ASSUME NEW h \in Handlers, Elsewhere(h), ~ConsumeRecoveryCode(h) PROVE CodeLife'
  <2>1. \A g \in Handlers : Underway(g)' => Underway(g) /\ req'[g] = req[g]
    BY <1>6, LeavesEnrollment DEF Leaves
  <2>2. /\ recovery_codes' \subseteq recovery_codes /\ recovery_codes' \ used' \subseteq recovery_codes \ used
        /\ accepted' = accepted /\ generated' = generated
    BY <1>6 DEF Elsewhere, Enrolled, ActivateTotp, EnableTotp, DisableTotp, ClearTotp, WipeCodes,
             DeleteRecoveryCodes, Login, LoginTotp, Welcome, IncrementLoginFailure, LockUser,
             LockUserFails, Abort
  <2> QED BY <1>2, <2>1, <2>2
<1>7. CASE LockExpires \/ MfaTokenExpires \/ UNCHANGED vars
  BY <1>7 DEF LockExpires, MfaTokenExpires, vars
<1> HIDE DEF CodeLife, RecoveryCodeOnce, Underway
<1> QED BY <1>1, <1>3, <1>4, <1>5, <1>6, <1>7 DEF Next, Elsewhere

(* Every recovery code is accepted at most once. *)
THEOREM RecoveryCodeOnceCorrect == Spec => []RecoveryCodeOnce
<1>1. Init => CodeLife
  BY DEF Init, CodeLife, RecoveryCodeOnce, Underway, Enrollment, Idle
<1> QED BY <1>1, CodeLifeKept, AlwaysApart, PTL DEF Spec, CodeLife

-----------------------------------------------------------------------------
(* While no codes are mixed, whoever is still to change the table works    *)
(* for the secret in force, or there is none in force.                     *)
CodesHold ==
  /\ CodesFollowSecret
  /\ ~mixed =>
       \A h \in Handlers :
         /\ req[h].pc \in {"purge", "insert"} => totp_secret \in {NoSecret, req[h].secret}
         /\ req[h].pc = "insert" /\ req[h].secret = totp_secret
              => recovery_codes = CodesOf(totp_secret) \ req[h].left
         /\ req[h].pc = "wipe" => totp_secret = NoSecret

(* Every step keeps each code of the secret in force to insert or in the   *)
(* table.                                                                  *)
LEMMA CodesKept == Typed /\ Apart /\ CodesHold /\ [Next]_vars => CodesHold'
<1> SUFFICES ASSUME Typed, Apart, CodesHold, [Next]_vars PROVE CodesHold'
  OBVIOUS
<1> USE DEF CodesHold, CodesFollowSecret, factor, codes, lockout, learned
<1>0. /\ shown \subseteq Secrets /\ NoSecret \notin Secrets
      /\ \A h \in Handlers : Underway(h) => req[h].secret \in Secrets
  BY TwoFactorAssumption DEF TwoFactorAssumption, Typed, TypeOK, Underway
<1>1. ASSUME NEW h \in Handlers, NEW e \in Secrets, EnrollTotp(h, e) PROVE CodesHold'
  BY <1>1, Enrolls DEF EnrollTotp
<1>2. ASSUME NEW h \in Handlers, SetTotpSecret(h) PROVE CodesHold'
  <2>1. req'[h].pc = "purge" /\ req'[h].secret = req[h].secret /\ \A g \in Handlers \ {h} : req'[g] = req[g]
    BY <1>2, MovesOn DEF SetTotpSecret
  <2>2. totp_secret' = req[h].secret /\ shown' = shown /\ req[h].secret \notin shown
    BY <1>2 DEF SetTotpSecret, Apart, Underway, Enrollment
  <2>3. ~mixed' => \A g \in Handlers : req[g].pc \notin {"purge", "insert", "wipe"}
    BY <1>2 DEF SetTotpSecret, At
  <2> QED BY <2>1, <2>2, <2>3
<1>3. ASSUME NEW h \in Handlers, PurgeCodes(h) PROVE CodesHold'
  <2>1. /\ req'[h].pc = "insert" /\ req'[h].secret = req[h].secret
        /\ req'[h].left = CodesOf(req[h].secret) /\ \A g \in Handlers \ {h} : req'[g] = req[g]
    BY <1>3, MovesOn DEF PurgeCodes, Apart
  <2>2. totp_secret' = totp_secret /\ shown' = shown
    BY <1>3 DEF PurgeCodes
  <2>3. ~mixed' => ~mixed /\ recovery_codes' = {}
    BY <1>3 DEF PurgeCodes, DeleteRecoveryCodes
  <2>4. ~mixed => totp_secret \in {NoSecret, req[h].secret} /\ totp_secret \notin shown
    BY <1>0, <1>3 DEF PurgeCodes, Apart, Underway, Enrollment
  <2>5. ~mixed => \A g \in Handlers \ {h} : req[g].pc = "insert" => req[g].secret # totp_secret
    BY <1>0, <1>3, <2>4 DEF PurgeCodes, Apart, Underway, Enrollment
  <2> QED BY <2>1, <2>2, <2>3, <2>4, <2>5
<1>4. ASSUME NEW h \in Handlers, InsertRecoveryCode(h) PROVE CodesHold'
  <2>1. PICK c \in req[h].left : /\ recovery_codes' = recovery_codes \cup {c}
                                 /\ req'[h].pc = "insert" /\ req'[h].secret = req[h].secret
                                 /\ req'[h].left = req[h].left \ {c}
                                 /\ \A g \in Handlers \ {h} : req'[g] = req[g]
    BY <1>4, Inserts
  <2>2. UNCHANGED <<totp_secret, shown, mixed>> /\ req[h].pc = "insert"
    BY <1>4 DEF InsertRecoveryCode
  <2>3. c \in CodesOf(req[h].secret)
    BY <2>1, <2>2 DEF Typed, Enrollment
  <2>4. ~mixed => totp_secret \in {NoSecret, req[h].secret} /\ totp_secret \notin shown
    BY <1>0, <2>2 DEF Apart, Underway, Enrollment
  <2>5. ~mixed => \A g \in Handlers \ {h} : req[g].pc = "insert" => req[g].secret # totp_secret
    BY <1>0, <2>2, <2>4 DEF Apart, Underway, Enrollment
  <2> QED BY <2>1, <2>2, <2>3, <2>4, <2>5
<1>5. ASSUME NEW h \in Handlers, Enrolled(h) PROVE CodesHold'
  <2>1. req'[h].pc = "idle" /\ \A g \in Handlers \ {h} : req'[g] = req[g]
    BY <1>5, Others DEF Enrolled, Idle
  <2>2. UNCHANGED <<totp_secret, recovery_codes, mixed>> /\ shown' = shown \cup {req[h].secret}
    BY <1>5 DEF Enrolled
  <2>3. ~mixed /\ req[h].secret = totp_secret => recovery_codes = CodesOf(totp_secret)
    BY <1>5 DEF Enrolled
  <2> QED BY <2>1, <2>2, <2>3
<1>6. ASSUME NEW h \in Handlers, ClearTotp(h) PROVE CodesHold'
  <2>1. req'[h].pc = "wipe" /\ \A g \in Handlers \ {h} : req'[g] = req[g]
    BY <1>6, Others DEF ClearTotp
  <2>2. totp_secret' = NoSecret /\ UNCHANGED <<shown, mixed>>
    BY <1>6 DEF ClearTotp
  <2>3. \A g \in Handlers : req[g].pc = "insert" => req[g].secret # NoSecret
    BY <1>0 DEF Underway, Enrollment
  <2> QED BY <1>0, <2>1, <2>2, <2>3
<1>7. ASSUME NEW h \in Handlers, WipeCodes(h) PROVE CodesHold'
  <2>1. req'[h].pc = "idle" /\ \A g \in Handlers \ {h} : req'[g] = req[g]
    BY <1>7, Others DEF WipeCodes, Idle
  <2>2. totp_secret' = totp_secret /\ shown' = shown /\ (~mixed' => ~mixed)
    BY <1>7 DEF WipeCodes, DeleteRecoveryCodes
  <2>3. ~mixed => totp_secret = NoSecret
    BY <1>7 DEF WipeCodes
  <2>4. \A g \in Handlers : req[g].pc = "insert" => req[g].secret # NoSecret
    BY <1>0 DEF Underway, Enrollment
  <2> QED BY <1>0, <2>1, <2>2, <2>3, <2>4
<1>8. ASSUME NEW h \in Handlers, Elsewhere(h), ~Enrolled(h), ~ClearTotp(h), ~WipeCodes(h) PROVE CodesHold'
  <2>1. req'[h].pc \notin {"purge", "insert", "wipe"} /\ \A g \in Handlers \ {h} : req'[g] = req[g]
    BY <1>8, LeavesEnrollment DEF Leaves, Enrollment
  <2>2. UNCHANGED <<totp_secret, recovery_codes, mixed, shown>>
    BY <1>8 DEF Elsewhere, ActivateTotp, EnableTotp, DisableTotp, Login, LoginTotp, ConsumeRecoveryCode,
                Welcome, IncrementLoginFailure, LockUser, LockUserFails, Abort
  <2> QED BY <2>1, <2>2
<1>9. CASE LockExpires \/ MfaTokenExpires \/ UNCHANGED vars
  BY <1>9 DEF LockExpires, MfaTokenExpires, vars
<1> HIDE DEF CodesHold, CodesFollowSecret
<1> QED BY <1>1, <1>2, <1>3, <1>4, <1>5, <1>6, <1>7, <1>8, <1>9 DEF Next, Elsewhere

(* The recovery codes are those of the secret in force. *)
THEOREM CodesFollowSecretCorrect == Spec => []CodesFollowSecret
<1>1. Init => CodesHold
  BY TwoFactorAssumption DEF Init, CodesHold, CodesFollowSecret, Idle
<1> QED BY <1>1, CodesKept, AlwaysApart, PTL DEF Spec, CodesHold

-----------------------------------------------------------------------------
(* While a settled factor is in force, no enrolment is about to replace    *)
(* it, and who is about to clear it has verified a code of this factor.    *)
SettledHolds ==
  /\ \A h \in Handlers : req[h].pc = "enable" => req[h].secret \in shown
  /\ settled # NoSecret =>
       /\ totp_enabled /\ totp_secret = settled /\ settled \in shown
       /\ \A h \in Handlers : /\ req[h].pc # "set"
                              /\ req[h].pc = "off" /\ ~mixed => req[h].of = settled

(* Every step keeps a settled factor; the codes in the table are its own.  *)
LEMMA SettledKept == Typed /\ CodesHold /\ SettledHolds /\ [Next]_vars => SettledHolds'
<1> SUFFICES ASSUME Typed, CodesHold, SettledHolds, [Next]_vars PROVE SettledHolds'
  OBVIOUS
<1> USE DEF SettledHolds, factor, codes, lockout, learned
<1>1. ASSUME NEW h \in Handlers, NEW e \in Secrets, EnrollTotp(h, e) PROVE SettledHolds'
  BY <1>1, Enrolls DEF EnrollTotp
<1>2. ASSUME NEW h \in Handlers, SetTotpSecret(h) PROVE SettledHolds'
  <2>1. req'[h].pc = "purge" /\ \A g \in Handlers \ {h} : req'[g] = req[g]
    BY <1>2, MovesOn DEF SetTotpSecret
  <2> QED BY <1>2, <2>1 DEF SetTotpSecret
<1>3. ASSUME NEW h \in Handlers, PurgeCodes(h) PROVE SettledHolds'
  <2>1. req'[h].pc = "insert" /\ \A g \in Handlers \ {h} : req'[g] = req[g]
    BY <1>3, MovesOn DEF PurgeCodes
  <2> QED BY <1>3, <2>1 DEF PurgeCodes, DeleteRecoveryCodes
<1>4. ASSUME NEW h \in Handlers, InsertRecoveryCode(h) PROVE SettledHolds'
  <2>1. req'[h].pc = "insert" /\ \A g \in Handlers \ {h} : req'[g] = req[g]
    BY <1>4, Inserts
  <2> QED BY <1>4, <2>1 DEF InsertRecoveryCode
<1>5. ASSUME NEW h \in Handlers, ActivateTotp(h) PROVE SettledHolds'
  <2>1. Become(h, [pc |-> "enable", secret |-> totp_secret])
    BY <1>5 DEF ActivateTotp
  <2>2. req'[h].pc = "enable" /\ req'[h].secret = totp_secret /\ \A g \in Handlers \ {h} : req'[g] = req[g]
    BY <2>1, Others
  <2> QED BY <1>5, <2>2 DEF ActivateTotp, Authenticated
<1>6. ASSUME NEW h \in Handlers, EnableTotp(h) PROVE SettledHolds'
  <2>1. req'[h].pc = "idle" /\ \A g \in Handlers \ {h} : req'[g] = req[g]
    BY <1>6, Others DEF EnableTotp, Idle
  <2>2. /\ totp_enabled' /\ UNCHANGED <<totp_secret, mixed, shown>> /\ req[h].secret \in shown
        /\ settled' = IF req[h].secret = totp_secret /\ At("set") \cup At("off") = {}
                        THEN totp_secret ELSE settled
    BY <1>6 DEF EnableTotp
  <2>3. CASE req[h].secret = totp_secret /\ At("set") \cup At("off") = {}
    BY <2>1, <2>2, <2>3 DEF At
  <2>4. CASE ~(req[h].secret = totp_secret /\ At("set") \cup At("off") = {})
    BY <2>1, <2>2, <2>4
  <2> QED BY <2>3, <2>4
<1>7. ASSUME NEW h \in Handlers, DisableTotp(h) PROVE SettledHolds'
  <2>1. UNCHANGED <<factor, mixed, shown>>
    BY <1>7 DEF DisableTotp
  <2>2. CASE Become(h, [pc |-> "off", of |-> totp_secret])
    <3>1. req'[h].pc = "off" /\ req'[h].of = totp_secret /\ \A g \in Handlers \ {h} : req'[g] = req[g]
      BY <2>2, Others
    <3> QED BY <2>1, <3>1
  <2>3. ASSUME NEW c \in KnownCodes, Become(h, [pc |-> "consume", code |-> c, op |-> "disable"])
        PROVE  SettledHolds'
    <3>1. req'[h].pc = "consume" /\ \A g \in Handlers \ {h} : req'[g] = req[g]
      BY <2>3, Others
    <3> QED BY <2>1, <3>1
  <2> QED BY <1>7, <2>2, <2>3 DEF DisableTotp
<1>8. ASSUME NEW h \in Handlers, ConsumeRecoveryCode(h) PROVE SettledHolds'
  <2>1. UNCHANGED <<factor, mixed, shown>>
    BY <1>8 DEF ConsumeRecoveryCode
  <2>2. PICK c : c = req[h].code
    OBVIOUS
  <2>3. CASE Spendable(c) /\ req[h].op # "login"
    <3>1. Become(h, [pc |-> "off", of |-> c[1]])
      BY <1>8, <2>2, <2>3 DEF ConsumeRecoveryCode
    <3>2. req'[h].pc = "off" /\ req'[h].of = c[1] /\ \A g \in Handlers \ {h} : req'[g] = req[g]
      BY <3>1, Others
    <3>3. settled # NoSecret /\ ~mixed => c[1] = settled
      BY <2>3 DEF Spendable, CodesHold, CodesFollowSecret, CodesOf
    <3> QED BY <2>1, <3>2, <3>3
  <2>4. CASE ~(Spendable(c) /\ req[h].op # "login")
    <3>1. PICK r \in {Idle, [pc |-> "count"], [pc |-> "welcome", challenge |-> FALSE]} : Become(h, r)
      BY <1>8, <2>2, <2>4 DEF ConsumeRecoveryCode
    <3>2. req'[h].pc \in {"idle", "count", "welcome"} /\ \A g \in Handlers \ {h} : req'[g] = req[g]
      BY <3>1, Others DEF Idle
    <3> QED BY <2>1, <3>2
  <2> QED BY <2>3, <2>4
<1>9. ASSUME NEW h \in Handlers, ClearTotp(h) PROVE SettledHolds'
  <2>1. req'[h].pc = "wipe" /\ \A g \in Handlers \ {h} : req'[g] = req[g]
    BY <1>9, Others DEF ClearTotp
  <2>2. settled' = NoSecret
    BY <1>9 DEF ClearTotp
  <2> QED BY <1>9, <2>1, <2>2 DEF ClearTotp
<1>10. ASSUME NEW h \in Handlers, Elsewhere(h), ~ActivateTotp(h), ~EnableTotp(h), ~DisableTotp(h),
              ~ConsumeRecoveryCode(h), ~ClearTotp(h)
       PROVE  SettledHolds'
  <2>1. req'[h].pc \notin {"set", "enable"} /\ \A g \in Handlers \ {h} : req'[g] = req[g]
    BY <1>10, LeavesEnrollment DEF Leaves, Enrollment
  <2>2. req'[h].pc # "off"
    <3>1. PICK r \in {Idle, [pc |-> "count"], [pc |-> "lock"]}
                       \cup {[pc |-> "welcome", challenge |-> b] : b \in BOOLEAN}
                       \cup {[pc |-> "consume", code |-> c, op |-> "login"] : c \in KnownCodes} :
            Become(h, r)
      <4>1. CASE Login(h)
        BY <4>1 DEF Login, Typed, TypeOK
      <4>2. CASE LoginTotp(h)
        BY <4>2 DEF LoginTotp
      <4>3. CASE IncrementLoginFailure(h)
        BY <4>3 DEF IncrementLoginFailure
      <4> QED BY <1>10, <4>1, <4>2, <4>3
              DEF Elsewhere, Enrolled, WipeCodes, Welcome, LockUser, LockUserFails, Abort
    <3>2. r.pc # "off"
      BY <3>1 DEF Idle
    <3> QED BY <3>1, <3>2, Others
  <2>3. UNCHANGED factor /\ shown \subseteq shown' /\ (~mixed' => ~mixed)
    BY <1>10 DEF Elsewhere, Enrolled, WipeCodes, DeleteRecoveryCodes, Login, LoginTotp, Welcome,
                 IncrementLoginFailure, LockUser, LockUserFails, Abort
  <2> QED BY <2>1, <2>2, <2>3
<1>11. CASE LockExpires \/ MfaTokenExpires \/ UNCHANGED vars
  BY <1>11 DEF LockExpires, MfaTokenExpires, vars
<1> HIDE DEF SettledHolds
<1> QED BY <1>1, <1>2, <1>3, <1>4, <1>5, <1>6, <1>7, <1>8, <1>9, <1>10, <1>11 DEF Next, Elsewhere

(* A factor that was activated while nothing was about to replace or clear *)
(* it works until a request clears it that verified a code of this factor. *)
THEOREM SettledStaysCorrect == Spec => []SettledStays
<1>1. Init => CodesHold
  BY TwoFactorAssumption DEF Init, CodesHold, CodesFollowSecret, Idle
<1>2. Init => SettledHolds
  BY DEF Init, SettledHolds, Idle
<1>3. SettledHolds => SettledStays
  BY DEF SettledHolds, SettledStays
<1> QED BY <1>1, <1>2, <1>3, CodesKept, SettledKept, AlwaysApart, PTL DEF Spec
=============================================================================
