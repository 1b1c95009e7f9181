-------------------------- MODULE SettlementLifecycle --------------------------
(***************************************************************************)
(* What a settlement promises, without callers, queues or disputes: the    *)
(* seller's share of one payment is held, released once the protection     *)
(* window is served, and then either paid exactly once or written off.     *)
(* Settlement implements this specification.                               *)
(***************************************************************************)
VARIABLES
  phase,     \* held, released, sending, paid or void
  served,    \* the protection window has been served
  moneyOut   \* Stripe has moved the money to the seller

vars == <<phase, served, moneyOut>>

Init ==
  /\ phase = "held"
  /\ served = FALSE
  /\ moneyOut = FALSE

Serve ==
  /\ ~served
  /\ served' = TRUE
  /\ UNCHANGED <<phase, moneyOut>>

Release ==
  /\ phase = "held" /\ served
  /\ phase' = "released"
  /\ UNCHANGED <<served, moneyOut>>

\* A freeze or a dispute takes a released settlement back.
Recall ==
  /\ phase = "released"
  /\ phase' = "held"
  /\ UNCHANGED <<served, moneyOut>>

StartSending ==
  /\ phase = "released"
  /\ phase' = "sending"
  /\ UNCHANGED <<served, moneyOut>>

\* The one step in which money leaves through Stripe.
MoneyLeaves ==
  /\ phase = "sending" /\ ~moneyOut
  /\ moneyOut' = TRUE
  /\ UNCHANGED <<phase, served>>

SendingFails ==
  /\ phase = "sending" /\ ~moneyOut
  /\ phase' = "released"
  /\ UNCHANGED <<served, moneyOut>>

SendingSucceeds ==
  /\ phase = "sending" /\ moneyOut
  /\ phase' = "paid"
  /\ UNCHANGED <<served, moneyOut>>

\* Paid by bank transfer, or withheld against an earlier debt.
PaidDirectly ==
  /\ phase = "released" /\ ~moneyOut
  /\ phase' = "paid"
  /\ UNCHANGED <<served, moneyOut>>

\* Refunded, charged back or cancelled before the seller was paid.
WrittenOff ==
  /\ phase \in {"held", "released"} /\ ~moneyOut
  /\ phase' = "void"
  /\ UNCHANGED <<served, moneyOut>>

Next ==
  \/ Serve \/ Release \/ Recall \/ StartSending \/ MoneyLeaves
  \/ SendingFails \/ SendingSucceeds \/ PaidDirectly \/ WrittenOff

Spec == Init /\ [][Next]_vars
===============================================================================
