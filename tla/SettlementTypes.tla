--------------------------- MODULE SettlementTypes ---------------------------
(***************************************************************************)
(* The settlement state machine as data: the statuses a SellerSettlement   *)
(* row may hold, the legal moves between them, and the sets of statuses    *)
(* the rest of the server branches on.  The four deprecated members of the *)
(* Prisma enum are never written and are left out.                         *)
(***************************************************************************)

Status == {"PENDING", "ON_HOLD", "ELIGIBLE", "TRANSFER_PENDING", "TRANSFERRED",
           "PAID_OUT", "FROZEN", "DISPUTED", "TRANSFER_FAILED", "REFUNDED",
           "CANCELLED"}

\* Where each status may go: transitionSettlement refuses anything else.
AllowedTransitions ==
  [PENDING          |-> {"ON_HOLD", "FROZEN", "DISPUTED", "REFUNDED", "CANCELLED"},
   ON_HOLD          |-> {"ELIGIBLE", "FROZEN", "DISPUTED", "REFUNDED", "CANCELLED"},
   ELIGIBLE         |-> {"TRANSFER_PENDING", "PAID_OUT", "FROZEN", "DISPUTED",
                         "REFUNDED", "ON_HOLD"},
   TRANSFER_PENDING |-> {"TRANSFERRED", "TRANSFER_FAILED", "ELIGIBLE"},
   TRANSFERRED      |-> {"PAID_OUT", "TRANSFER_FAILED"},
   TRANSFER_FAILED  |-> {"ELIGIBLE", "PAID_OUT", "FROZEN"},
   FROZEN           |-> {"PENDING", "ON_HOLD", "REFUNDED", "CANCELLED", "DISPUTED"},
   DISPUTED         |-> {"PENDING", "ON_HOLD", "FROZEN", "REFUNDED", "CANCELLED"},
   PAID_OUT         |-> {},
   REFUNDED         |-> {},
   CANCELLED        |-> {}]

\* The seller has the money: disputes and refunds become recoveries.
WithSeller == {"TRANSFERRED", "PAID_OUT"}

\* Statuses a settlement may only reach after the protection window.
PastWindow == {"ELIGIBLE", "TRANSFER_PENDING", "TRANSFER_FAILED"} \cup WithSeller

\* What freezeSettlement may record as the reason of a hold.
FreezeReasons == {"ADMIN_HOLD", "RETURN", "BUYER_DISPUTE_CASE"}
=============================================================================
