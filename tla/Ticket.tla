------------------------------- MODULE Ticket -------------------------------
(***************************************************************************)
(* What a single-use secret promises, without tables, clocks or users: a   *)
(* password-reset token, an e-mail verification token, an OIDC             *)
(* authorization code.                                                     *)
(*                                                                         *)
(*    unborn -> open -> spent                                              *)
(*                                                                         *)
(* A request takes an open ticket and spends it in the same step; that     *)
(* gives it a claim.  A claim is honoured once, or wasted: the ticket      *)
(* stays spent either way, so its effect happens at most once, and only    *)
(* by the request that took it.                                            *)
(***************************************************************************)
EXTENDS Naturals

CONSTANTS Tickets, Handlers

VARIABLES
  stage,     \* the stage each ticket is in
  claim,     \* the tickets taken by request h whose effect is still to come
  honoured   \* how often a ticket has had its effect

ticketVars == <<stage, claim, honoured>>

TicketInit ==
  /\ stage = [t \in Tickets |-> "unborn"]
  /\ claim = [h \in Handlers |-> {}]
  /\ honoured = [t \in Tickets |-> 0]

(* A ticket is made out. *)
Issue(t) ==
  /\ stage[t] = "unborn"
  /\ stage' = [stage EXCEPT ![t] = "open"]
  /\ UNCHANGED <<claim, honoured>>

(* Tickets are given up: they expire, or their owner is gone. *)
Withdraw(T) ==
  /\ \A t \in T : stage[t] \in {"open", "spent"}
  /\ stage' = [t \in Tickets |-> IF t \in T THEN "spent" ELSE stage[t]]
  /\ UNCHANGED <<claim, honoured>>

Take(h, t) ==
  /\ claim[h] = {}
  /\ stage[t] = "open"
  /\ stage' = [stage EXCEPT ![t] = "spent"]
  /\ claim' = [claim EXCEPT ![h] = {t}]
  /\ UNCHANGED honoured

Honour(h, t) ==
  /\ t \in claim[h]
  /\ honoured[t] = 0
  /\ honoured' = [honoured EXCEPT ![t] = 1]
  /\ claim' = [claim EXCEPT ![h] = {}]
  /\ UNCHANGED stage

Waste(h) ==
  /\ claim[h] # {}
  /\ claim' = [claim EXCEPT ![h] = {}]
  /\ UNCHANGED <<stage, honoured>>

TicketNext ==
  \/ \E t \in Tickets : Issue(t)
  \/ \E T \in SUBSET Tickets : Withdraw(T)
  \/ \E h \in Handlers, t \in Tickets : Take(h, t) \/ Honour(h, t)
  \/ \E h \in Handlers : Waste(h)

TicketSpec == TicketInit /\ [][TicketNext]_ticketVars
=============================================================================
