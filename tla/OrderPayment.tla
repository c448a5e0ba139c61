---------------------------- MODULE OrderPayment ----------------------------
(***************************************************************************)
(* One online order and the Razorpay payments made for it:                 *)
(* services/payment.service.js (verify, webhook settlement, refusal) and   *)
(* services/refund.service.js (the refund engine, stray payments, refund   *)
(* webhooks, admin retry), driven by the cancellations of                  *)
(* services/kitchen.service.js.                                            *)
(*                                                                         *)
(* A handler is a task with a program counter: every await of a database   *)
(* or gateway call is an interleaving point, every database call is one    *)
(* atomic action, as a MongoDB document write is.  Fields of the order     *)
(* document the money does not depend on are left out.                     *)
(*                                                                         *)
(* A definition X_Y is X with the seeded fault Y, used to see that a       *)
(* property can fail.                                                      *)
(***************************************************************************)
EXTENDS Naturals

CONSTANTS
    Payments,    \* Razorpay payments customers may make on the order's Razorpay orders
    Exact,       \* those for exactly expectedOrderPaise; the others are refused
    NoPayment,   \* razorpayPaymentId = null, amountPaise = null
    Tasks,       \* handlers in flight at the same time
    MaxRefunds,  \* bound: Razorpay refunds per payment (a failed one may be followed by another)
    MaxMoves,    \* attempts of moveRefundToStray's loop (5 in the code)
    MaxFaults    \* bound: crashes, gateway errors and database errors

ASSUME PaymentsAssumption == Exact \subseteq Payments /\ NoPayment \notin Payments
ASSUME BoundsAssumption == /\ MaxRefunds \in Nat \ {0}
                           /\ MaxMoves \in Nat \ {0}
                           /\ MaxFaults \in Nat

Kinds == {"refused_payment", "duplicate_payment"}
OrderDoc == <<"order", NoPayment>>
Strays == Kinds \X Payments               \* unique index (kind, payment, order)
Docs == {OrderDoc} \union Strays          \* the documents that carry a refund

NoRefund == <<NoPayment, 0>>
RefundIds == Payments \X (1..MaxRefunds)  \* the n-th Razorpay refund of a payment
MaybePayment == Payments \union {NoPayment}
MaybeRefund == RefundIds \union {NoRefund}

RefundStatus == {"none", "pending", "processing", "processed", "failed"}

\* refundSchema: razorpayRefundId is id; amountPaise is amt, the payment whose amount
\* it is; initiatedAt is since, how many refunds the payment already had at Razorpay.
Refund == [status : RefundStatus, id : MaybeRefund, amt : MaybePayment, since : 0..MaxRefunds]
EmptyRefund == [status |-> "none", id |-> NoRefund, amt |-> NoPayment, since |-> 0]

UNCOUNTABLE == {"paid", "refunded"}

VARIABLES
    status,      \* order.status: "preparing" stands for preparing..out_for_delivery
    forfeited,   \* cancelled by the customer after the kitchen started
    pay,         \* order.paymentStatus
    pid,         \* order.razorpayPaymentId
    refund,      \* the refund subdocument of the order and of each stray payment
    gw,          \* each payment at Razorpay
    sent,        \* how many refunds of each payment Razorpay has created
    gwRefund,    \* each refund at Razorpay
    task,        \* the handlers in flight
    acked,       \* payments whose payment.captured event was answered 2xx
    ackedRefund, \* refunds whose refund.* event was answered 2xx
    faults

orderVars == <<status, forfeited, pay, pid>>
gwVars == <<gw, sent, gwRefund>>
ackVars == <<acked, ackedRefund>>
vars == <<status, forfeited, pay, pid, refund, gw, sent, gwRefund, task, acked, ackedRefund, faults>>

\* Program counters: the call the handler is about to make.
SettlePcs == {"duplicate", "confirm", "alreadyFlagged", "flag", "failOrder",
              "strayCheck", "orderCheck", "strayInsert",
              "moveRead", "moveCopy", "moveClear", "count"}
RunnerPcs == {"amount", "send", "saveId", "sendFailed"}  \* holds a claimed refund
RefundPcs == {"settings", "claim", "processed", "refunded", "failedEvent"} \union RunnerPcs
Pcs == {"idle"} \union SettlePcs \union RefundPcs
Sources == {"none", "verify", "webhook", "cancel", "admin", "refundWebhook"}

\* p is the payment handled; doc the document being written (the stray being made or
\* the document whose refund runs); held the refund values read earlier.
Task == [pc : Pcs, src : Sources, p : MaybePayment, doc : Docs,
         held : Refund, rid : MaybeRefund, moves : 0..MaxMoves]
Idle == [pc |-> "idle", src |-> "none", p |-> NoPayment, doc |-> OrderDoc,
         held |-> EmptyRefund, rid |-> NoRefund, moves |-> 0]

TypeOK ==
    /\ status \in {"placed", "confirmed", "preparing", "delivered", "cancelled"}
    /\ forfeited \in BOOLEAN
    /\ pay \in {"pending", "failed"} \union UNCOUNTABLE
    /\ pid \in MaybePayment
    /\ refund \in [Docs -> Refund]
    /\ gw \in [Payments -> {"none", "authorized", "captured"}]
    /\ sent \in [Payments -> 0..MaxRefunds]
    /\ gwRefund \in [RefundIds -> {"none", "pending", "processed", "failed"}]
    /\ task \in [Tasks -> Task]
    /\ acked \subseteq Payments
    /\ ackedRefund \subseteq RefundIds
    /\ faults \in 0..MaxFaults

Init ==
    /\ status = "placed" /\ forfeited = FALSE
    /\ pay = "pending" /\ pid = NoPayment
    /\ refund = [d \in Docs |-> EmptyRefund]
    /\ gw = [p \in Payments |-> "none"]
    /\ sent = [p \in Payments |-> 0]
    /\ gwRefund = [r \in RefundIds |-> "none"]
    /\ task = [t \in Tasks |-> Idle]
    /\ acked = {} /\ ackedRefund = {} /\ faults = 0

-----------------------------------------------------------------------------
\* Task steps.

At(t, pc) == task[t].pc = pc
Goto(t, pc) == task' = [task EXCEPT ![t].pc = pc]

Ack(t) ==
    /\ acked' = IF task[t].src = "webhook" THEN acked \union {task[t].p} ELSE acked
    /\ ackedRefund' = IF task[t].src = "refundWebhook"
                      THEN ackedRefund \union {task[t].rid} ELSE ackedRefund

\* The handler returns: a webhook is answered 2xx and not delivered again.
Finish(t) == task' = [task EXCEPT ![t] = Idle] /\ Ack(t)

\* The handler throws: a webhook's event row stays 'processing' and Razorpay redelivers.
Drop(t) == task' = [task EXCEPT ![t] = Idle] /\ UNCHANGED ackVars

\* Go on at pc, or return if the condition for going on does not hold.
GotoIf(t, cond, pc) == IF cond THEN Goto(t, pc) /\ UNCHANGED ackVars ELSE Finish(t)

Fault == faults < MaxFaults /\ faults' = faults + 1

PaymentOf(d) == IF d = OrderDoc THEN pid ELSE d[2]
Unsettled == pay \notin UNCOUNTABLE
IsStray(p) == \E k \in Kinds : refund[<<k, p>>].status # "none"
LiveRefund(p) == \E n \in 1..MaxRefunds : gwRefund[<<p, n>>] \in {"pending", "processed"}

-----------------------------------------------------------------------------
\* Razorpay and the customer's checkout.

Pay(p) ==
    /\ gw[p] = "none"
    /\ gw' = [gw EXCEPT ![p] = "authorized"]
    /\ UNCHANGED <<orderVars, refund, sent, gwRefund, task, ackVars, faults>>

AutoCapture(p) ==
    /\ gw[p] = "authorized"
    /\ gw' = [gw EXCEPT ![p] = "captured"]
    /\ UNCHANGED <<orderVars, refund, sent, gwRefund, task, ackVars, faults>>

\* A 'normal' speed refund accepted as pending is later paid out or fails.
GatewaySettles(r) ==
    /\ gwRefund[r] = "pending"
    /\ \E s \in {"processed", "failed"} : gwRefund' = [gwRefund EXCEPT ![r] = s]
    /\ UNCHANGED <<orderVars, refund, gw, sent, task, ackVars, faults>>

-----------------------------------------------------------------------------
\* The order's own life, as far as the money depends on it.

\* PAID_OR_OFFLINE inside the compare-and-swap.
Accept ==
    /\ status = "placed" /\ pay = "paid"
    /\ status' = "confirmed"
    /\ UNCHANGED <<forfeited, pay, pid, refund, gwVars, task, ackVars, faults>>

StartPreparing ==
    /\ status = "confirmed"
    /\ status' = "preparing"
    /\ UNCHANGED <<forfeited, pay, pid, refund, gwVars, task, ackVars, faults>>

Deliver ==
    /\ status = "preparing"
    /\ status' = "delivered"
    /\ UNCHANGED <<forfeited, pay, pid, refund, gwVars, task, ackVars, faults>>

\* updateOrderStatus to 'cancelled', then onOrderCancelled on the document as that
\* write returned it: whether a refund is due is decided on that snapshot.
Cancel_OnlyAccepted(byCustomer) ==
    /\ status \in {"placed", "confirmed", "preparing"}
    /\ status' = "cancelled"
    /\ forfeited' = (byCustomer /\ status = "preparing")
    /\ IF pay = "paid" /\ status = "confirmed"
       THEN \E t \in Tasks :
              /\ At(t, "idle")
              /\ task' = [task EXCEPT ![t] = [Idle EXCEPT !.pc = "settings", !.src = "cancel"]]
       ELSE UNCHANGED task
    /\ UNCHANGED <<pay, pid, refund, gwVars, ackVars, faults>>

Cancel(byCustomer) ==
    /\ status \in {"placed", "confirmed", "preparing"}
    /\ status' = "cancelled"
    /\ forfeited' = (byCustomer /\ status = "preparing")
    /\ IF pay = "paid" /\ ~forfeited'
       THEN \E t \in Tasks :
              /\ At(t, "idle")
              /\ task' = [task EXCEPT ![t] = [Idle EXCEPT !.pc = "settings", !.src = "cancel"]]
       ELSE UNCHANGED task
    /\ UNCHANGED <<pay, pid, refund, gwVars, ackVars, faults>>

-----------------------------------------------------------------------------
\* Payment status without money: a payment.failed event for the current Razorpay
\* order, a verify with a bad signature, and the customer's retry.

PaymentFailedEvent_Unconditional ==
    /\ pay' = "failed"
    /\ UNCHANGED <<status, forfeited, pid, refund, gwVars, task, ackVars, faults>>

PaymentFailedEvent ==
    /\ Unsettled
    /\ pay' = "failed"
    /\ UNCHANGED <<status, forfeited, pid, refund, gwVars, task, ackVars, faults>>

BadSignature ==
    /\ Unsettled
    /\ pay' = "failed"
    /\ UNCHANGED <<status, forfeited, pid, refund, gwVars, task, ackVars, faults>>

RetryPayment ==
    /\ Unsettled /\ status # "cancelled"
    /\ pay' = "pending"
    /\ UNCHANGED <<status, forfeited, pid, refund, gwVars, task, ackVars, faults>>

-----------------------------------------------------------------------------
\* Settling a payment: verifyOrderPayment and settleOrderFromWebhook.

Begin(t, pc, src, p) == task' = [task EXCEPT ![t] = [Idle EXCEPT !.pc = pc, !.src = src, !.p = p]]

\* What the handler does next is decided on the order as read here; a payment already
\* counted needs nothing more.
StartSettle(t, p, src) ==
    /\ At(t, "idle")
    /\ \/ Unsettled /\ Begin(t, "confirm", src, p) /\ UNCHANGED acked
       \/ ~Unsettled /\ pid # p /\ Begin(t, "duplicate", src, p) /\ UNCHANGED acked
       \/ /\ ~Unsettled /\ pid = p
          /\ acked' = IF src = "webhook" THEN acked \union {p} ELSE acked
          /\ UNCHANGED task
    /\ UNCHANGED <<orderVars, refund, gwVars, ackedRefund, faults>>

Verify(t, p) == gw[p] # "none" /\ StartSettle(t, p, "verify")

\* payment.captured or order.paid, delivered until answered 2xx; a redelivery may overlap
\* the first delivery.
Webhook(t, p) == gw[p] = "captured" /\ p \notin acked /\ StartSettle(t, p, "webhook")

\* recordUncountedPayment for a second payment of a paid order: only a captured
\* payment is owed back.
Duplicate(t) ==
    /\ At(t, "duplicate")
    /\ IF gw[task[t].p] = "captured"
       THEN /\ task' = [task EXCEPT ![t].pc = "strayCheck",
                                    ![t].doc = <<"duplicate_payment", task[t].p>>]
            /\ UNCHANGED ackVars
       ELSE Finish(t)
    /\ UNCHANGED <<orderVars, refund, gwVars, faults>>

\* confirmCapturedPayment: an exact payment is captured and goes on to be counted; any
\* other is refused, held.amt being what was captured of it.
Confirm(t) ==
    LET p == task[t].p IN
    /\ At(t, "confirm")
    /\ IF p \in Exact
       THEN gw' = [gw EXCEPT ![p] = "captured"] /\ Goto(t, "moveRead")
       ELSE /\ UNCHANGED gw
            /\ task' = [task EXCEPT ![t].pc = "alreadyFlagged",
                                    ![t].held = [@ EXCEPT !.amt = IF gw[p] = "captured" THEN p ELSE NoPayment]]
    /\ UNCHANGED <<orderVars, refund, sent, gwRefund, ackVars, faults>>

-----------------------------------------------------------------------------
\* rejectOrderPayment.

AlreadyFlagged(t) ==
    /\ At(t, "alreadyFlagged")
    /\ GotoIf(t, ~(pid = task[t].p /\ refund[OrderDoc].status # "none"), "flag")
    /\ UNCHANGED <<orderVars, refund, gwVars, faults>>

\* The order itself is flagged as owing the payment back, unless it is settled or
\* already carries a refund.
Flag(t) ==
    LET p == task[t].p IN
    /\ At(t, "flag")
    /\ IF task[t].held.amt = NoPayment
       THEN /\ pay' = IF Unsettled THEN "failed" ELSE pay
            /\ UNCHANGED <<pid, refund>>
            /\ Finish(t)
       ELSE IF Unsettled /\ refund[OrderDoc].status = "none"
       THEN /\ pay' = "failed" /\ pid' = p
            /\ refund' = [refund EXCEPT ![OrderDoc].status = "pending", ![OrderDoc].amt = p]
            /\ Finish(t)
       ELSE /\ UNCHANGED <<pay, pid, refund, ackVars>>
            /\ Goto(t, "failOrder")
    /\ UNCHANGED <<status, forfeited, gwVars, faults>>

FailOrder(t) ==
    /\ At(t, "failOrder")
    /\ pay' = IF Unsettled THEN "failed" ELSE pay
    /\ task' = [task EXCEPT ![t].pc = "strayCheck", ![t].doc = <<"refused_payment", task[t].p>>,
                            ![t].held = EmptyRefund]
    /\ UNCHANGED <<status, forfeited, pid, refund, gwVars, ackVars, faults>>

-----------------------------------------------------------------------------
\* recordStrayPayment: three reads, then an upsert that never overwrites.  The stray
\* read comes first, the order of the reads that lets the most happen in between.

StrayCheck_Skipped(t) ==
    /\ At(t, "strayCheck")
    /\ Goto(t, "orderCheck")
    /\ UNCHANGED <<orderVars, refund, gwVars, ackVars, faults>>

StrayCheck(t) ==
    /\ At(t, "strayCheck")
    /\ GotoIf(t, ~IsStray(task[t].p), "orderCheck")
    /\ UNCHANGED <<orderVars, refund, gwVars, faults>>

OrderCheck(t) ==
    /\ At(t, "orderCheck")
    /\ GotoIf(t, pid # task[t].p, "strayInsert")
    /\ UNCHANGED <<orderVars, refund, gwVars, faults>>

StrayInsert(t) ==
    LET d == task[t].doc IN
    /\ At(t, "strayInsert")
    /\ refund' = IF refund[d].status = "none"
                 THEN [refund EXCEPT ![d] = [EmptyRefund EXCEPT !.status = "pending", !.amt = task[t].p]]
                 ELSE refund
    /\ Finish(t)
    /\ UNCHANGED <<orderVars, gwVars, faults>>

-----------------------------------------------------------------------------
\* recordCapturedPayment: moveRefundToStray, then the paid write.

MoveRead_Skipped(t) ==
    /\ At(t, "moveRead")
    /\ Goto(t, "count")
    /\ UNCHANGED <<orderVars, refund, gwVars, ackVars, faults>>

MoveRead(t) ==
    LET r == refund[OrderDoc] IN
    /\ At(t, "moveRead")
    /\ IF /\ Unsettled /\ pid \notin {NoPayment, task[t].p}
          /\ r.status # "none" /\ r.amt # NoPayment
          /\ task[t].moves < MaxMoves
       THEN task' = [task EXCEPT ![t].pc = "moveCopy", ![t].doc = <<"refused_payment", pid>>,
                                 ![t].held = r, ![t].moves = @ + 1]
       ELSE task' = [task EXCEPT ![t].pc = "count", ![t].doc = OrderDoc,
                                 ![t].held = EmptyRefund, ![t].moves = 0]
    /\ UNCHANGED <<orderVars, refund, gwVars, ackVars, faults>>

MoveCopy(t) ==
    /\ At(t, "moveCopy")
    /\ refund' = [refund EXCEPT ![task[t].doc] = task[t].held]
    /\ Goto(t, "moveClear")
    /\ UNCHANGED <<orderVars, gwVars, ackVars, faults>>

MoveClear_OnlyCopies(t) ==
    /\ At(t, "moveClear")
    /\ Goto(t, "count")
    /\ UNCHANGED <<orderVars, refund, gwVars, ackVars, faults>>

\* Clears only the refund exactly as copied, else copies again.
MoveClear(t) ==
    LET r == refund[OrderDoc]
        asCopied == /\ Unsettled /\ pid = task[t].doc[2]
                    /\ r.status = task[t].held.status /\ r.id = task[t].held.id
    IN
    /\ At(t, "moveClear")
    /\ IF asCopied
       THEN /\ refund' = [refund EXCEPT ![OrderDoc] = EmptyRefund]
            /\ task' = [task EXCEPT ![t].pc = "count", ![t].doc = OrderDoc,
                                    ![t].held = EmptyRefund, ![t].moves = 0]
       ELSE UNCHANGED refund /\ Goto(t, "moveRead")
    /\ UNCHANGED <<orderVars, gwVars, ackVars, faults>>

Count_NoCancelCheck(t) ==
    LET p == task[t].p IN
    /\ At(t, "count")
    /\ IF Unsettled
       THEN pay' = "paid" /\ pid' = p /\ Finish(t)
       ELSE /\ UNCHANGED <<pay, pid>>
            /\ IF pid # p
               THEN /\ task' = [task EXCEPT ![t].pc = "strayCheck", ![t].doc = <<"duplicate_payment", p>>]
                    /\ UNCHANGED ackVars
               ELSE Finish(t)
    /\ UNCHANGED <<status, forfeited, refund, gwVars, faults>>

\* The one write that makes an order paid.  It returns the order as it then stands, so a
\* cancelled order is refunded from here.  A settled order's payment never changes, so the
\* re-read of the losing branch is part of the step.
Count(t) ==
    LET p == task[t].p IN
    /\ At(t, "count")
    /\ IF Unsettled
       THEN /\ pay' = "paid" /\ pid' = p
            /\ GotoIf(t, status = "cancelled", "settings")
       ELSE /\ UNCHANGED <<pay, pid>>
            /\ IF pid # p
               THEN /\ task' = [task EXCEPT ![t].pc = "strayCheck", ![t].doc = <<"duplicate_payment", p>>]
                    /\ UNCHANGED ackVars
               ELSE Finish(t)
    /\ UNCHANGED <<status, forfeited, refund, gwVars, faults>>

-----------------------------------------------------------------------------
\* The refund engine: initiateFullRefund, refundFlagged, runRefund.

Settings(t) ==
    /\ At(t, "settings")
    /\ Goto(t, "claim")
    /\ UNCHANGED <<orderVars, refund, gwVars, ackVars, faults>>

Stale_NoWait(d) == refund[d].status = "processing" /\ refund[d].id = NoRefund

\* Unsent for STALE_PROCESSING_MS: an attempt that old is no longer running.
Stale(d) ==
    /\ refund[d].status = "processing" /\ refund[d].id = NoRefund
    /\ \A t \in Tasks : task[t].pc \in RunnerPcs => task[t].p # PaymentOf(d)

Claimable(d) ==
    /\ PaymentOf(d) # NoPayment
    /\ IF d = OrderDoc
       THEN /\ refund[d].status \in {"none", "pending", "failed"} \/ Stale(d)
            /\ \/ pay = "paid"
               \/ /\ refund[d].status \in {"pending", "failed", "processing"}
                  /\ refund[d].amt # NoPayment
       ELSE /\ refund[d].status \in {"pending", "failed"} \/ Stale(d)
            /\ refund[d].amt # NoPayment

Claim(t) ==
    LET d == task[t].doc
        p == PaymentOf(d)
        amount == IF refund[d].amt # NoPayment THEN refund[d].amt ELSE p
    IN
    /\ At(t, "claim")
    /\ IF Claimable(d)
       THEN /\ refund' = [refund EXCEPT ![d].status = "processing", ![d].id = NoRefund,
                                        ![d].since = sent[p]]
            /\ task' = [task EXCEPT ![t].pc = "amount", ![t].p = p, ![t].held = [@ EXCEPT !.amt = amount]]
            /\ UNCHANGED ackVars
       ELSE UNCHANGED refund /\ Finish(t)
    /\ UNCHANGED <<orderVars, gwVars, faults>>

\* The amount is written by _id alone.
Amount(t) ==
    /\ At(t, "amount")
    /\ refund' = [refund EXCEPT ![task[t].doc].amt = task[t].held.amt]
    /\ Goto(t, "send")
    /\ UNCHANGED <<orderVars, gwVars, ackVars, faults>>

\* Razorpay refunds a captured payment unless it is already being returned in full.
CanRefund(p) == gw[p] = "captured" /\ ~LiveRefund(p) /\ sent[p] < MaxRefunds

CreateRefund(p, s) ==
    /\ sent' = [sent EXCEPT ![p] = @ + 1]
    /\ gwRefund' = [gwRefund EXCEPT ![<<p, sent[p] + 1>>] = s]

Send(t) ==
    LET p == task[t].p IN
    /\ At(t, "send")
    /\ IF CanRefund(p)
       THEN \E s \in {"pending", "processed"} :
              /\ CreateRefund(p, s)
              /\ task' = [task EXCEPT ![t].pc = "saveId", ![t].rid = <<p, sent[p] + 1>>,
                                      ![t].held = [@ EXCEPT !.status = IF s = "processed" THEN s ELSE "processing"]]
       ELSE UNCHANGED <<sent, gwRefund>> /\ Goto(t, "sendFailed")
    /\ UNCHANGED <<orderVars, refund, gw, ackVars, faults>>

\* The call throws: Razorpay never saw it, or created the refund and the answer was lost.
SendLost(t) ==
    LET p == task[t].p IN
    /\ At(t, "send") /\ Fault
    /\ \/ UNCHANGED <<sent, gwRefund>>
       \/ CanRefund(p) /\ CreateRefund(p, "pending")
    /\ Goto(t, "sendFailed")
    /\ UNCHANGED <<orderVars, refund, gw, ackVars>>

SaveId_PendingIsProcessed(t) ==
    /\ At(t, "saveId")
    /\ refund' = [refund EXCEPT ![task[t].doc].id = task[t].rid]
    /\ Goto(t, "processed")
    /\ UNCHANGED <<orderVars, gwVars, ackVars, faults>>

\* The refund id is written by _id alone.
SaveId(t) ==
    /\ At(t, "saveId")
    /\ refund' = [refund EXCEPT ![task[t].doc].id = task[t].rid]
    /\ GotoIf(t, task[t].held.status = "processed", "processed")
    /\ UNCHANGED <<orderVars, gwVars, faults>>

SendFailed_UnknownStatus(t) ==
    /\ At(t, "sendFailed")
    /\ refund' = [refund EXCEPT ![task[t].doc].status = "refused"]
    /\ Finish(t)
    /\ UNCHANGED <<orderVars, gwVars, faults>>

\* markRefundFailed.
SendFailed(t) ==
    LET d == task[t].doc IN
    /\ At(t, "sendFailed")
    /\ refund' = IF refund[d].status # "processed"
                 THEN [refund EXCEPT ![d].status = "failed"] ELSE refund
    /\ Finish(t)
    /\ UNCHANGED <<orderVars, gwVars, faults>>

\* markRefundProcessed, first write: never over a different refund than the one in flight.
Processed(t) ==
    LET d == task[t].doc IN
    /\ At(t, "processed")
    /\ refund' = IF refund[d].status # "processed" /\ refund[d].id \in {task[t].rid, NoRefund}
                 THEN [refund EXCEPT ![d].status = "processed", ![d].id = task[t].rid] ELSE refund
    /\ GotoIf(t, d = OrderDoc, "refunded")
    /\ UNCHANGED <<orderVars, gwVars, faults>>

\* markRefundProcessed, second write: only the payment that was refunded.
Refunded(t) ==
    /\ At(t, "refunded")
    /\ pay' = IF pay = "paid" /\ refund[OrderDoc].status = "processed" /\ pid = task[t].rid[1]
              THEN "refunded" ELSE pay
    /\ Finish(t)
    /\ UNCHANGED <<status, forfeited, pid, refund, gwVars, faults>>

-----------------------------------------------------------------------------
\* handleRefundWebhook.

\* findRefundTarget: by refund id on a document of that payment, else a refund of the
\* payment in flight with no id yet.  An event older than the attempt matches only inside
\* the clock-skew allowance.
RefundTargets(r) ==
    LET byId == {d \in Docs : refund[d].id = r /\ PaymentOf(d) \in {r[1], NoPayment}}
        inFlight(skew) == {d \in Docs : /\ PaymentOf(d) = r[1]
                                        /\ refund[d].status = "processing" /\ refund[d].id = NoRefund
                                        /\ skew \/ r[2] > refund[d].since}
        first(S) == IF OrderDoc \in S THEN {OrderDoc} ELSE S
    IN  IF byId # {} THEN {first(byId)} ELSE {first(inFlight(TRUE)), first(inFlight(FALSE))}

RefundWebhook(t, r) ==
    /\ At(t, "idle")
    /\ gwRefund[r] \in {"processed", "failed"} /\ r \notin ackedRefund
    /\ \E S \in RefundTargets(r) :
         IF S = {}
         THEN ackedRefund' = ackedRefund \union {r} /\ UNCHANGED task
         ELSE /\ \E d \in S : task' = [task EXCEPT ![t] = [Idle EXCEPT
                   !.pc = IF gwRefund[r] = "processed" THEN "processed" ELSE "failedEvent",
                   !.src = "refundWebhook", !.doc = d, !.rid = r]]
              /\ UNCHANGED ackedRefund
    /\ UNCHANGED <<orderVars, refund, gwVars, acked, faults>>

FailedEvent(t) ==
    LET d == task[t].doc IN
    /\ At(t, "failedEvent")
    /\ refund' = IF refund[d].status # "processed" /\ refund[d].id \in {task[t].rid, NoRefund}
                 THEN [refund EXCEPT ![d].status = "failed", ![d].id = task[t].rid] ELSE refund
    /\ Finish(t)
    /\ UNCHANGED <<orderVars, gwVars, faults>>

-----------------------------------------------------------------------------
\* retryRefund.

Retryable_Anything(d) == TRUE

Retryable(d) == refund[d].status \in {"failed", "pending"} \/ Stale(d)

RetryRefund(t, d) ==
    /\ At(t, "idle")
    /\ Retryable(d) /\ PaymentOf(d) # NoPayment
    /\ d = OrderDoc => pay = "paid" \/ refund[d].amt # NoPayment
    /\ task' = [task EXCEPT ![t] = [Idle EXCEPT !.pc = IF d = OrderDoc THEN "settings" ELSE "claim",
                                                !.src = "admin", !.doc = d]]
    /\ UNCHANGED <<orderVars, refund, gwVars, ackVars, faults>>

-----------------------------------------------------------------------------
\* Faults.

\* The process dies; every handler in flight is gone.
Crash ==
    /\ \E t \in Tasks : ~At(t, "idle")
    /\ Fault
    /\ task' = [t \in Tasks |-> Idle]
    /\ UNCHANGED <<orderVars, refund, gwVars, ackVars>>

HandlerError_Acked(t) ==
    /\ task[t].pc \in {"duplicate", "confirm", "settings"}
    /\ Fault
    /\ Finish(t)
    /\ UNCHANGED <<orderVars, refund, gwVars>>

\* The gateway cannot be asked about the payment, or the settings cannot be read:
\* the handler throws (onOrderCancelled swallows it, a webhook is redelivered).
HandlerError(t) ==
    /\ task[t].pc \in {"duplicate", "confirm", "settings"}
    /\ Fault
    /\ Drop(t)
    /\ UNCHANGED <<orderVars, refund, gwVars>>

-----------------------------------------------------------------------------

SettleStep(t) ==
    \/ Duplicate(t) \/ Confirm(t) \/ AlreadyFlagged(t) \/ Flag(t) \/ FailOrder(t)
    \/ StrayCheck(t) \/ OrderCheck(t) \/ StrayInsert(t)
    \/ MoveRead(t) \/ MoveCopy(t) \/ MoveClear(t) \/ Count(t)

RefundStep(t) ==
    \/ Settings(t) \/ Claim(t) \/ Amount(t) \/ Send(t) \/ SaveId(t) \/ SendFailed(t)
    \/ Processed(t) \/ Refunded(t) \/ FailedEvent(t)

Next ==
    \/ \E p \in Payments : Pay(p) \/ AutoCapture(p)
    \/ \E r \in RefundIds : GatewaySettles(r)
    \/ Accept \/ StartPreparing \/ Deliver
    \/ PaymentFailedEvent \/ BadSignature \/ RetryPayment
    \/ \E byCustomer \in BOOLEAN : Cancel(byCustomer)
    \/ \E t \in Tasks, p \in Payments : Verify(t, p) \/ Webhook(t, p)
    \/ \E t \in Tasks, r \in RefundIds : RefundWebhook(t, r)
    \/ \E t \in Tasks, d \in Docs : RetryRefund(t, d)
    \/ \E t \in Tasks : SettleStep(t) \/ RefundStep(t)
    \/ \E t \in Tasks : SendLost(t) \/ HandlerError(t)
    \/ Crash

Spec == Init /\ [][Next]_vars

\* Node runs every handler to its next await and MongoDB answers; Razorpay redelivers an
\* event until it is answered 2xx (the slots of Tasks are a bound of the model, so a
\* delivery is not starved of one); a pending refund is settled.  Nothing is assumed of
\* customers, of the restaurant or of the admin.
Fairness ==
    /\ \A t \in Tasks : WF_vars(SettleStep(t) \/ RefundStep(t))
    /\ \A p \in Payments : SF_vars(\E t \in Tasks : Webhook(t, p))
    /\ \A r \in RefundIds : SF_vars(\E t \in Tasks : RefundWebhook(t, r)) /\ WF_vars(GatewaySettles(r))

FairSpec == Spec /\ Fairness

-----------------------------------------------------------------------------
\* Properties.

Quiet == \A t \in Tasks : At(t, "idle")

Counted(p) == pid = p /\ ~Unsettled
Owed(p) == IsStray(p) \/ (pid = p /\ Unsettled /\ refund[OrderDoc].status # "none")
Returned(p) == \E n \in 1..MaxRefunds : gwRefund[<<p, n>>] = "processed"
NeverFailed(p) == \A n \in 1..MaxRefunds : gwRefund[<<p, n>>] # "failed"

\* recordStrayPayment's promise: one owed-back record per payment, whatever the cause, and
\* none for the payment the order counts.
OneRecordPerPayment ==
    \A p \in Payments :
        /\ ~(Counted(p) /\ IsStray(p))
        /\ \E k \in Kinds : refund[<<k, p>>].status = "none"

\* The payment of an order that was not cancelled, or was cancelled by the customer after the
\* kitchen started, is never sent back.
LiveOrderKeepsItsMoney ==
    ~Unsettled /\ (status # "cancelled" \/ forfeited) => sent[pid] = 0

\* moveRefundToStray's promise: the refund on a settled order is a refund of its own payment,
\* never one of a refused payment it superseded.
RefundOfOwnPayment ==
    ~Unsettled => refund[OrderDoc].id = NoRefund \/ refund[OrderDoc].id[1] = pid

\* An order marked 'refunded' had the very payment it counted returned by Razorpay.
RefundedMeansReturned == pay = "refunded" => Returned(pid)

\* runRefund's claim: a double cancel, a retry and webhooks racing them never ask for a second
\* refund of a payment none of whose refunds has failed.
SendsOnce ==
    \A t \in Tasks : At(t, "send") /\ NeverFailed(task[t].p) => sent[task[t].p] = 0

\* Once no handler runs, a paid order cancelled with a refund due has a refund on record, which
\* is what the admin's refunds screen can list and retry: the cancellation or the payment,
\* whichever came second, saw the other.
CancelledMoneyIsRefundable ==
    Quiet /\ status = "cancelled" /\ pay = "paid" /\ ~forfeited => refund[OrderDoc].status # "none"

\* No handler, webhook or retry takes an order out of 'paid'/'refunded' or puts another payment
\* in place of the one it counted.
PaidIsFinal == [][~Unsettled => pay' \in UNCOUNTABLE /\ pid' = pid]_vars

\* Every captured payment is eventually counted or owed back, crashes notwithstanding: Razorpay
\* redelivers what was not answered.
CapturedIsSettled == \A p \in Payments : gw[p] = "captured" ~> (Counted(p) \/ Owed(p))

\* While no handler fails, money of a cancelled order goes back, or its refund is 'failed' for
\* the admin to retry.
CancelledMoneyGoesBack ==
    [](faults = 0) =>
        ((status = "cancelled" /\ pay = "paid" /\ ~forfeited)
            ~> (pay = "refunded" \/ refund[OrderDoc].status = "failed"))

\* The order's payments as MoneyBook sees them.
fate == [p \in Payments |->
    IF Counted(p) THEN IF Returned(p) THEN "refunded" ELSE "counted"
    ELSE IF Owed(p) THEN IF Returned(p) THEN "returned" ELSE "owed"
    ELSE "unseen"]
order == IF status # "cancelled" THEN "open" ELSE IF forfeited THEN "forfeited" ELSE "cancelled"

Book == INSTANCE MoneyBook WITH Payments <- Payments, fate <- fate, order <- order

\* The handlers, one at a time, implement the book: counted at most once, returned at most
\* once, and only what is owed or was cancelled.
ImplementsBook == Book!BookSpec
=============================================================================
