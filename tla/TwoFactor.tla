----------------------------- MODULE TwoFactor -----------------------------
(***************************************************************************)
(* The second factor of one account: enrolling, activating and disabling   *)
(* TOTP, the two steps of a login, recovery codes and the lockout both     *)
(* steps share.                                                            *)
(*                                                                         *)
(* A request reads the users row once and then writes it, and the recovery *)
(* codes, one autocommitted statement at a time.  An enrolment names the   *)
(* secret it makes and, with it, the recovery codes it makes.  A lock and  *)
(* an MFA token end at a time nothing else depends on.                     *)
(***************************************************************************)
EXTENDS Naturals, FiniteSets

CONSTANTS
  Secrets,      \* TOTP secrets that can be generated; bounds the enrolments
  NoSecret,     \* totp_secret IS NULL
  Numbers,      \* numbers of the recovery codes of one enrolment
  Handlers,     \* concurrently running requests, over all replicas
  MaxFailures,  \* LOGIN_MAX_FAILURES
  MaxLost       \* bound on the LockUser statements lost in a row

ASSUME TwoFactorAssumption ==
  /\ NoSecret \notin Secrets
  /\ IsFiniteSet(Handlers)
  /\ MaxFailures \in Nat \ {0}
  /\ MaxLost \in Nat

VARIABLES
  totp_secret, totp_enabled, failed_login_attempts, locked,  \* the users row
  recovery_codes,  \* rows of totp_recovery_codes
  used,            \* codes with a used_at
  challenged,      \* an unexpired MFA token is out
  req,             \* req[h]: the request running in h
  (* History. *)
  generated,       \* secrets that were generated
  shown,           \* secrets returned to the user together with their codes
  proven,          \* secrets for which the user presented a valid code
  raced,           \* the secret changed while an activation was under way
  mixed,           \* codes of two enrolments may be mixed in the table
  settled,         \* secret activated with nothing about to replace or clear it
  accepted,        \* accepted[c]: how often recovery code c was accepted
  guesses,         \* failures counted since the counter was last cleared
  lost             \* LockUser statements lost since then

factor == <<totp_secret, totp_enabled, raced, settled>>
codes == <<recovery_codes, used, mixed, accepted>>
lockout == <<failed_login_attempts, locked, guesses, lost>>
learned == <<generated, shown, proven>>
vars == <<factor, codes, lockout, learned, challenged, req>>

Codes == Secrets \X Numbers
CodesOf(e) == {e} \X Numbers

Idle == [pc |-> "idle"]
Enrolling == [pc : {"set", "purge", "insert"}, secret : Secrets, left : SUBSET Codes]
Activating == [pc : {"enable"}, secret : Secrets]
Redeeming == [pc : {"consume"}, code : Codes, op : {"login", "disable"}]
Disabling == [pc : {"off"}, of : Secrets]   \* history: whose TOTP or code was verified
Wiping == [pc : {"wipe"}]
Failing == [pc : {"count", "lock"}]
Entering == [pc : {"welcome"}, challenge : BOOLEAN]
Request == {Idle} \cup Enrolling \cup Activating \cup Redeeming \cup Disabling
             \cup Wiping \cup Failing \cup Entering

TypeOK ==
  /\ totp_secret \in Secrets \cup {NoSecret}
  /\ totp_enabled \in BOOLEAN /\ locked \in BOOLEAN /\ challenged \in BOOLEAN
  /\ raced \in BOOLEAN /\ mixed \in BOOLEAN
  /\ failed_login_attempts \in Nat /\ guesses \in Nat /\ lost \in Nat
  /\ recovery_codes \subseteq Codes
  /\ used \subseteq recovery_codes
  /\ req \in [Handlers -> Request]
  /\ generated \subseteq Secrets
  /\ shown \subseteq generated /\ proven \subseteq generated
  /\ settled \in Secrets \cup {NoSecret}
  /\ accepted \in [Codes -> Nat]

At(pc) == {h \in Handlers : req[h].pc = pc}

Become(h, r) == req' = [req EXCEPT ![h] = r]

(* The user can present a valid TOTP: there is a secret, and EnrollTotp,   *)
(* which returns it last, has returned it.                                 *)
Authenticated == totp_secret \in shown

(* The recovery codes the user can present, spent, deleted or neither; any *)
(* other code is a wrong code.                                             *)
KnownCodes == UNION {CodesOf(e) : e \in shown}

Init ==
  /\ totp_secret = NoSecret /\ totp_enabled = FALSE
  /\ failed_login_attempts = 0 /\ locked = FALSE
  /\ recovery_codes = {} /\ used = {}
  /\ challenged = FALSE
  /\ req = [h \in Handlers |-> Idle]
  /\ generated = {} /\ shown = {} /\ proven = {}
  /\ raced = FALSE /\ mixed = FALSE
  /\ settled = NoSecret
  /\ accepted = [c \in Codes |-> 0]
  /\ guesses = 0 /\ lost = 0

-----------------------------------------------------------------------------
(* Enrolment: read the row, store the secret, replace the codes. *)

EnrollTotp(h, e) ==
  /\ req[h] = Idle
  /\ ~totp_enabled
  /\ e \notin generated
  /\ generated' = generated \cup {e}
  /\ Become(h, [pc |-> "set", secret |-> e, left |-> CodesOf(e)])
  /\ UNCHANGED <<factor, codes, lockout, shown, proven, challenged>>

(* Faulty variant, for EnabledIsProven: the update keeps totp_enabled. *)
FaultyKeepEnabled(h) ==
  /\ req[h].pc = "set"
  /\ totp_secret' = req[h].secret
  /\ raced' = (At("enable") # {})
  /\ mixed' = (At("purge") \cup At("insert") \cup At("wipe") # {})
  /\ Become(h, [req[h] EXCEPT !.pc = "purge"])
  /\ UNCHANGED <<totp_enabled, settled, recovery_codes, used, accepted, lockout, learned,
                 challenged>>

SetTotpSecret(h) ==
  /\ req[h].pc = "set"
  /\ totp_secret' = req[h].secret
  /\ totp_enabled' = FALSE
  /\ raced' = (At("enable") # {})
  /\ mixed' = (At("purge") \cup At("insert") \cup At("wipe") # {})
  /\ Become(h, [req[h] EXCEPT !.pc = "purge"])
  /\ UNCHANGED <<settled, recovery_codes, used, accepted, lockout, learned, challenged>>

(* Faulty variant, for CodesFollowSecret and SettledStays: only spent      *)
(* codes are deleted.                                                      *)
FaultyDelete ==
  /\ recovery_codes' = recovery_codes \ used
  /\ used' = {}
  /\ mixed' = mixed

(* DELETE of all codes of the user; the error is ignored. *)
DeleteRecoveryCodes ==
  \/ recovery_codes' = {} /\ used' = {} /\ mixed' = mixed
  \/ recovery_codes' = recovery_codes /\ used' = used /\ mixed' = TRUE

(* After the last insert the secret and the codes are returned. *)
PurgeCodes(h) ==
  /\ req[h].pc = "purge"
  /\ DeleteRecoveryCodes
  /\ Become(h, [req[h] EXCEPT !.pc = "insert"])
  /\ UNCHANGED <<factor, accepted, lockout, learned, challenged>>

InsertRecoveryCode(h) ==
  /\ req[h].pc = "insert"
  /\ \E c \in req[h].left :
       /\ recovery_codes' = recovery_codes \cup {c}
       /\ Become(h, [req[h] EXCEPT !.left = @ \ {c}])
  /\ UNCHANGED <<factor, used, mixed, accepted, lockout, learned, challenged>>

Enrolled(h) ==
  /\ req[h].pc = "insert"
  /\ req[h].left = {}
  /\ shown' = shown \cup {req[h].secret}
  /\ Become(h, Idle)
  /\ UNCHANGED <<factor, codes, lockout, generated, proven, challenged>>

-----------------------------------------------------------------------------
(* Activation: read the secret, check the code against it, enable. *)

(* Faulty variant, for TypeOK: a pending enrolment is not asked for. *)
FaultyNoPending(h) ==
  /\ req[h] = Idle
  /\ Become(h, [pc |-> "enable", secret |-> totp_secret])
  /\ UNCHANGED <<factor, codes, lockout, learned, challenged>>

(* Nothing asks whether the factor is enabled already. *)
ActivateTotp(h) ==
  /\ req[h] = Idle
  /\ Authenticated
  /\ proven' = proven \cup {totp_secret}
  /\ Become(h, [pc |-> "enable", secret |-> totp_secret])
  /\ UNCHANGED <<factor, codes, lockout, generated, shown, challenged>>

EnableTotp(h) ==
  /\ req[h].pc = "enable"
  /\ totp_enabled' = TRUE
  /\ settled' = IF req[h].secret = totp_secret /\ At("set") \cup At("off") = {}
                   THEN totp_secret ELSE settled
  /\ Become(h, Idle)
  /\ UNCHANGED <<totp_secret, raced, codes, lockout, learned, challenged>>

-----------------------------------------------------------------------------
(* Disabling: read the row, check a TOTP or spend a recovery code, clear.  *)
DisableTotp(h) ==
  /\ req[h] = Idle
  /\ totp_enabled
  /\ \/ Authenticated /\ Become(h, [pc |-> "off", of |-> totp_secret])
     \/ \E c \in KnownCodes : Become(h, [pc |-> "consume", code |-> c, op |-> "disable"])
  /\ UNCHANGED <<factor, codes, lockout, learned, challenged>>

(* The statement of the same name, which clears the row. *)
ClearTotp(h) ==
  /\ req[h].pc = "off"
  /\ totp_secret' = NoSecret
  /\ totp_enabled' = FALSE
  /\ raced' = (At("enable") # {})
  /\ settled' = IF req[h].of = settled \/ mixed THEN NoSecret ELSE settled
  /\ Become(h, [pc |-> "wipe"])
  /\ UNCHANGED <<codes, lockout, learned, challenged>>

WipeCodes(h) ==
  /\ req[h].pc = "wipe"
  /\ DeleteRecoveryCodes
  /\ Become(h, Idle)
  /\ UNCHANGED <<factor, accepted, lockout, learned, challenged>>

-----------------------------------------------------------------------------
(* Logging in: the password step, then the MFA step. *)

(* Login of an account that is not locked, with a wrong or the right       *)
(* password.                                                               *)
Login(h) ==
  /\ req[h] = Idle
  /\ ~locked
  /\ \/ Become(h, [pc |-> "count"])
     \/ Become(h, [pc |-> "welcome", challenge |-> totp_enabled])
  /\ UNCHANGED <<factor, codes, lockout, learned, challenged>>

(* LoginTotp with a wrong code, a recovery code or a valid TOTP.           *)
LoginTotp(h) ==
  /\ req[h] = Idle
  /\ challenged
  /\ totp_enabled /\ totp_secret # NoSecret
  /\ ~locked
  /\ \/ Become(h, [pc |-> "count"])
     \/ \E c \in KnownCodes : Become(h, [pc |-> "consume", code |-> c, op |-> "login"])
     \/ Authenticated /\ Become(h, [pc |-> "welcome", challenge |-> FALSE])
  /\ UNCHANGED <<factor, codes, lockout, learned, challenged>>

(* Faulty variant, for RecoveryCodeOnce: no "used_at IS NULL".             *)
FaultySpendable(c) == c \in recovery_codes

(* The row the update matches. *)
Spendable(c) == c \in recovery_codes \ used

(* A code that cannot be spent is a wrong code: DisableTotp refuses,       *)
(* LoginTotp counts a failure.                                             *)
ConsumeRecoveryCode(h) ==
  LET c == req[h].code
      login == req[h].op = "login"
  IN
  /\ req[h].pc = "consume"
  /\ \/ /\ Spendable(c)
        /\ used' = used \cup {c}
        /\ accepted' = [accepted EXCEPT ![c] = @ + 1]
        /\ Become(h, IF login THEN [pc |-> "welcome", challenge |-> FALSE] ELSE [pc |-> "off", of |-> c[1]])
     \/ /\ ~Spendable(c)
        /\ UNCHANGED <<used, accepted>>
        /\ Become(h, IF login THEN [pc |-> "count"] ELSE Idle)
  /\ UNCHANGED <<factor, recovery_codes, mixed, lockout, learned, challenged>>

(* ResetLoginState, whose error is ignored, then the tokens go out, or the *)
(* MFA token if the factor was enabled when the row was read.              *)
Welcome(h) ==
  /\ req[h].pc = "welcome"
  /\ \/ failed_login_attempts' = 0 /\ locked' = FALSE /\ guesses' = 0 /\ lost' = 0
     \/ UNCHANGED lockout
  /\ challenged' = (challenged \/ req[h].challenge)
  /\ Become(h, Idle)
  /\ UNCHANGED <<factor, codes, learned>>

-----------------------------------------------------------------------------
(* The lockout of both steps. *)

(* Faulty variant, for FailuresBound: the limit is compared with >. *)
FaultyCount(h) ==
  /\ req[h].pc = "count"
  /\ failed_login_attempts' = failed_login_attempts + 1
  /\ guesses' = guesses + 1
  /\ Become(h, IF failed_login_attempts' > MaxFailures THEN [pc |-> "lock"] ELSE Idle)
  /\ UNCHANGED <<factor, codes, locked, lost, learned, challenged>>

IncrementLoginFailure(h) ==
  /\ req[h].pc = "count"
  /\ failed_login_attempts' = failed_login_attempts + 1
  /\ guesses' = guesses + 1
  /\ Become(h, IF failed_login_attempts' >= MaxFailures THEN [pc |-> "lock"] ELSE Idle)
  /\ UNCHANGED <<factor, codes, locked, lost, learned, challenged>>

LockUser(h) ==
  /\ req[h].pc = "lock"
  /\ failed_login_attempts' = 0 /\ locked' = TRUE /\ guesses' = 0 /\ lost' = 0
  /\ Become(h, Idle)
  /\ UNCHANGED <<factor, codes, learned, challenged>>

(* The update fails; the error is ignored.  Or the process stops.          *)
LockUserFails(h) ==
  /\ req[h].pc = "lock"
  /\ lost < MaxLost
  /\ lost' = lost + 1
  /\ Become(h, Idle)
  /\ UNCHANGED <<factor, codes, failed_login_attempts, locked, guesses, learned, challenged>>

(* A statement fails, or the process stops, anywhere else. *)
Abort(h) ==
  /\ req[h].pc \notin {"idle", "lock"}
  /\ Become(h, Idle)
  /\ UNCHANGED <<factor, codes, lockout, learned, challenged>>

LockExpires ==
  /\ locked' = FALSE
  /\ UNCHANGED <<failed_login_attempts, guesses, lost, factor, codes, learned, challenged, req>>

MfaTokenExpires ==
  /\ challenged' = FALSE
  /\ UNCHANGED <<factor, codes, lockout, learned, req>>

Next ==
  \/ \E h \in Handlers, e \in Secrets : EnrollTotp(h, e)
  \/ \E h \in Handlers : SetTotpSecret(h) \/ PurgeCodes(h) \/ InsertRecoveryCode(h) \/ Enrolled(h)
  \/ \E h \in Handlers : ActivateTotp(h) \/ EnableTotp(h)
  \/ \E h \in Handlers : DisableTotp(h) \/ ClearTotp(h) \/ WipeCodes(h)
  \/ \E h \in Handlers : Login(h) \/ LoginTotp(h) \/ ConsumeRecoveryCode(h) \/ Welcome(h)
  \/ \E h \in Handlers : IncrementLoginFailure(h) \/ LockUser(h) \/ LockUserFails(h) \/ Abort(h)
  \/ LockExpires \/ MfaTokenExpires

Spec == Init /\ [][Next]_vars

-----------------------------------------------------------------------------
(* The second factor in force is one whose authenticator the user has      *)
(* shown to work, unless an activation was under way when the secret was   *)
(* last changed.  In particular it is never a missing secret, with which   *)
(* LoginTotp refuses every code and EnrollTotp refuses a new secret.       *)
EnabledIsProven == totp_enabled /\ ~raced => totp_secret \in proven

(* A second factor that was activated while nothing was about to replace   *)
(* or clear it works until a request clears it that verified a TOTP or a   *)
(* recovery code of this very factor: not one begun for an earlier factor, *)
(* and no enrolment ("re-enrolling would reset the secret and silently     *)
(* disable working 2FA; require an explicit disable first").  Codes that   *)
(* may be mixed are anyone's.                                              *)
SettledStays == settled # NoSecret => totp_enabled /\ totp_secret = settled

(* The recovery codes in the table are those the user was shown with the   *)
(* secret in force, unless enrolments or a disabling overlapped or a       *)
(* DELETE failed.                                                          *)
CodesFollowSecret ==
  totp_secret \in shown /\ ~mixed => recovery_codes = CodesOf(totp_secret)

(* "One-time recovery codes": a code is accepted once, over both handlers  *)
(* that take one, whatever interleaving, deletion and new enrolment.       *)
RecoveryCodeOnce == \A c \in Codes : accepted[c] <= 1

(* The lockout holds up under parallel failures: since the counter was     *)
(* last cleared it has counted fewer failures than the limit, but for the  *)
(* requests about to lock the account and the LockUser statements lost.    *)
FailuresBound == guesses < MaxFailures + Cardinality(At("lock")) + lost
=============================================================================
