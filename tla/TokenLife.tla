----------------------------- MODULE TokenLife -----------------------------
(***************************************************************************)
(* What refresh-token rotation promises, without clocks, users or rows.    *)
(*                                                                         *)
(* A token moves forward through its life and never back:                  *)
(*                                                                         *)
(*    unborn -> live -> lapsed -> rotated -> dead   (any stage but unborn  *)
(*                                                   may be skipped)       *)
(*                                                                         *)
(* "lapsed" is expired but not revoked, "rotated" is replaced by a         *)
(* successor and still tolerated.  Only a live or rotated token can be     *)
(* presented with success; that gives the request a warrant, one warrant   *)
(* mints one token, and a minted token knows which token it was minted     *)
(* for.  A dead token never earns a warrant again.                         *)
(***************************************************************************)
CONSTANTS Tokens, Handlers, NoToken

VARIABLES
  life,     \* the stage each token is in
  parent,   \* on every token that was ever minted: what was presented for it
  warrant,  \* the token request h presented with success, until it mints
  owes      \* the token request h has minted for and has still to retire

lifeVars == <<life, parent, warrant, owes>>

Presentable == {"live", "rotated"}

LifeInit ==
  /\ life = [t \in Tokens |-> "unborn"]
  /\ parent = [t \in {} |-> NoToken]
  /\ warrant = [h \in Handlers |-> NoToken]
  /\ owes = [h \in Handlers |-> NoToken]

Birth(t, p) ==
  /\ life[t] = "unborn"
  /\ life' = [life EXCEPT ![t] = "live"]
  /\ parent' = [x \in DOMAIN parent \cup {t} |-> IF x = t THEN p ELSE parent[x]]

(* A user signs in. *)
Open(t) == Birth(t, NoToken) /\ UNCHANGED <<warrant, owes>>

(* Token p is presented and accepted. *)
Accept(h, p) ==
  /\ warrant[h] = NoToken
  /\ life[p] \in Presentable
  /\ warrant' = [warrant EXCEPT ![h] = p]
  /\ UNCHANGED <<life, parent, owes>>

(* The accepted request mints its one token. *)
Renew(h, t) ==
  /\ warrant[h] # NoToken
  /\ Birth(t, warrant[h])
  /\ warrant' = [warrant EXCEPT ![h] = NoToken]
  /\ \/ owes' = [owes EXCEPT ![h] = warrant[h]]
     \/ UNCHANGED owes

(* The presented token is retired, unless something ended it before. *)
Retire(h) ==
  /\ owes[h] # NoToken
  /\ life' = IF life[owes[h]] \in {"live", "lapsed"}
               THEN [life EXCEPT ![owes[h]] = "rotated"]
               ELSE life
  /\ owes' = [owes EXCEPT ![h] = NoToken]
  /\ UNCHANGED <<parent, warrant>>

Drop(h) ==
  /\ warrant' = [warrant EXCEPT ![h] = NoToken]
  /\ owes' = [owes EXCEPT ![h] = NoToken]
  /\ UNCHANGED <<life, parent>>

(* Logout, theft detection, a new password, deletion of the user. *)
End(S) ==
  /\ \A t \in S : life[t] # "unborn"
  /\ life' = [t \in Tokens |-> IF t \in S THEN "dead" ELSE life[t]]
  /\ UNCHANGED <<parent, warrant, owes>>

(* Time passes: live tokens lapse and the grace of rotated ones runs out. *)
Pass(S) ==
  /\ life' = [t \in Tokens |->
                CASE t \in S /\ life[t] = "live" -> "lapsed"
                  [] t \in S /\ life[t] = "rotated" -> "dead"
                  [] OTHER -> life[t]]
  /\ UNCHANGED <<parent, warrant, owes>>

LifeNext ==
  \/ \E t \in Tokens : Open(t)
  \/ \E h \in Handlers, t \in Tokens : Accept(h, t) \/ Renew(h, t)
  \/ \E h \in Handlers : Retire(h) \/ Drop(h)
  \/ \E S \in SUBSET Tokens : End(S) \/ Pass(S)

LifeSpec == LifeInit /\ [][LifeNext]_lifeVars
=============================================================================
