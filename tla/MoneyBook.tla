----------------------------- MODULE MoneyBook -----------------------------
(***************************************************************************)
(* What payment.service.js and refund.service.js promise about the money   *)
(* of one order, whatever handlers, webhooks and retries do: a payment is  *)
(* counted or owed back, never both; at most one is ever counted; money    *)
(* goes back once, and a counted payment only goes back when the order was *)
(* cancelled before the kitchen started or by someone else than the        *)
(* customer.                                                               *)
(***************************************************************************)
CONSTANT Payments

VARIABLES
    fate,   \* what became of each payment
    order   \* "open", "cancelled", or "forfeited": cancelled with no refund due

bookVars == <<fate, order>>

Fates == {"unseen", "counted", "refunded", "owed", "returned"}

BookInit == fate = [p \in Payments |-> "unseen"] /\ order = "open"

CountPayment(p) ==
    /\ fate[p] = "unseen"
    /\ \A q \in Payments : fate[q] \notin {"counted", "refunded"}
    /\ fate' = [fate EXCEPT ![p] = "counted"]
    /\ UNCHANGED order

OwePayment(p) ==
    /\ fate[p] = "unseen"
    /\ fate' = [fate EXCEPT ![p] = "owed"]
    /\ UNCHANGED order

RefundCounted(p) ==
    /\ fate[p] = "counted" /\ order = "cancelled"
    /\ fate' = [fate EXCEPT ![p] = "refunded"]
    /\ UNCHANGED order

ReturnOwed(p) ==
    /\ fate[p] = "owed"
    /\ fate' = [fate EXCEPT ![p] = "returned"]
    /\ UNCHANGED order

CloseOrder ==
    /\ order = "open"
    /\ order' \in {"cancelled", "forfeited"}
    /\ UNCHANGED fate

BookNext ==
    \/ CloseOrder
    \/ \E p \in Payments : CountPayment(p) \/ OwePayment(p) \/ RefundCounted(p) \/ ReturnOwed(p)

BookSpec == BookInit /\ [][BookNext]_bookVars
=============================================================================
