---------------------------- MODULE AtLeastOnce ----------------------------
(***************************************************************************)
(* What a transactional outbox promises: a message that was accepted with  *)
(* a committed change is delivered, possibly more than once, nothing else  *)
(* is, and it is settled (never sent again) only after it was delivered.   *)
(* Messages is finite, so fairness to some message is fairness to each.    *)
(***************************************************************************)
CONSTANT Messages

VARIABLES accepted, delivered, settled

vars == <<accepted, delivered, settled>>

TypeOK ==
  /\ accepted \subseteq Messages
  /\ delivered \subseteq accepted
  /\ settled \subseteq delivered

Init == accepted = {} /\ delivered = {} /\ settled = {}

Accept(m) ==
  /\ m \notin accepted
  /\ accepted' = accepted \cup {m}
  /\ UNCHANGED <<delivered, settled>>

Deliver(m) ==
  /\ m \in accepted \ delivered
  /\ delivered' = delivered \cup {m}
  /\ UNCHANGED <<accepted, settled>>

Settle(m) ==
  /\ m \in delivered \ settled
  /\ settled' = settled \cup {m}
  /\ UNCHANGED <<accepted, delivered>>

Next == \E m \in Messages : Accept(m) \/ Deliver(m) \/ Settle(m)

Safe == Init /\ [][Next]_vars

Spec ==
  /\ Safe
  /\ WF_vars(\E m \in Messages : Deliver(m))
  /\ WF_vars(\E m \in Messages : Settle(m))
=============================================================================
