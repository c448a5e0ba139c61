----------------------------- MODULE DineInBill -----------------------------
(***************************************************************************)
(* One sitting at one table, from its rounds to its settled bill: the      *)
(* rounds guests place and the kitchen decides (guestOrder, order and      *)
(* kitchen services), the bill assembled from them and frozen while a      *)
(* guest pays (billing.service.js), the guest's payment through Razorpay   *)
(* (publicBill.controller.js, payment.service.js) and the staff's at the   *)
(* counter (counterPayment.service.js).  Handlers run a step between two   *)
(* awaits, so a bill read is a bill that may have changed.                 *)
(*                                                                         *)
(* A round costs 2 and a discount takes 1 off; GST and the service charge  *)
(* are a function of that.  "preparing" is preparing or ready.  One        *)
(* payment succeeds on a Razorpay order.  The sitting's bill has been      *)
(* opened once, before the kitchen accepted its first round.  The diner's  *)
(* personal offer is in OfferCheckout.  Paying refunds out is modelled for *)
(* orders only: here a refund on record is owed, in flight, done or failed.*)
(*                                                                         *)
(* A definition X_Y is X with the seeded fault Y, used to see that a       *)
(* property can fail.                                                      *)
(***************************************************************************)
EXTENDS Integers, FiniteSets

CONSTANTS
    Rounds,         \* rounds that may be ordered
    First,          \* the round the sitting opens with
    Intents,        \* Razorpay orders that may be created
    Tasks,          \* handlers in flight at the same time
    None,           \* no Razorpay order
    MaxDiscounts    \* bound: discounts put on the bill

ASSUME RoundsAssumption == IsFiniteSet(Rounds) /\ First \in Rounds
ASSUME IntentAssumption == None \notin Intents
ASSUME DiscountsAssumption == MaxDiscounts \in Nat

VARIABLES
    round,      \* a round's Order.status, "none" before it is ordered
    listed,     \* TableSession.orders
    marked,     \* rounds whose paymentStatus is 'paid'
    session,    \* TableSession.status
    bill,       \* the sitting's Bill
    rzp,        \* Razorpay orders: how far a payment on each has come, and its amount
    strays,     \* payments with a StrayPayment of their own: owed back
    flagged,    \* rounds flagged for a refund: StrayPayment 'dine_in_round_cancelled'
    forfeited,  \* rounds their customer cancelled once the kitchen had started: no refund
    answered,   \* captured payments a verify call or a webhook was answered for
    task        \* handlers in flight

floorVars == <<round, listed, marked, session, forfeited>>
moneyVars == <<rzp, strays, flagged, answered>>
vars == <<floorVars, bill, moneyVars, task>>

RoundStatuses == {"none", "placed", "confirmed", "preparing", "served", "cancelled"}
Paths == {"view", "pay", "counter", "release"}
Pcs == {"idle", "create", "push", "cancel", "flag", "final", "bill", "abandoned", "write", "live", "open",
        "adopt", "lock", "move", "copy", "clear", "settle", "refuse", "refused", "reopen", "stray",
        "close", "void", "counted", "backout", "released", "discount"}
Price == 2
Amounts == -MaxDiscounts..(Price * Cardinality(Rounds))

\* rounds: the billed batches; off: how many discounts are on it; pid: razorpayPaymentId, the
\* payment counted or one refused; refund: whether the bill's own refund is on record, of pid.
Bill == [status : {"open", "paid"}, rounds : SUBSET Rounds, off : 0..MaxDiscounts, total : Amounts,
         channel : {"none", "online", "counter"},
         pid : Intents \union {None}, refund : BOOLEAN,
         intent : Intents \union {None}, history : SUBSET Intents]
Intent == [state : {"none", "created", "handed", "authorized", "captured"}, amount : Amounts]

\* r, i: the round or Razorpay order in hand; path: what the bill is assembled for; saw: what it
\* needs of the bill as read; ate: the billed rounds as read; was: the session, or the round, as read.
FirstBill == [status |-> "open", rounds |-> {}, off |-> 0, total |-> 0, channel |-> "none",
              pid |-> None, refund |-> FALSE, intent |-> None, history |-> {}]
Task == [pc : Pcs, path : Paths, r : Rounds, i : Intents \union {None}, saw : Bill, ate : SUBSET Rounds,
         was : RoundStatuses \union {"open", "bill_requested", "paid"}]
Idle == [pc |-> "idle", path |-> "view", r |-> First, i |-> None, saw |-> FirstBill, ate |-> {},
         was |-> "none"]

Init ==
    /\ round = [r \in Rounds |-> IF r = First THEN "placed" ELSE "none"]
    /\ listed = {First} /\ marked = {}
    /\ session = "open"
    /\ bill = FirstBill
    /\ rzp = [i \in Intents |-> [state |-> "none", amount |-> 0]]
    /\ strays = {} /\ flagged = {} /\ forfeited = {} /\ answered = {}
    /\ task = [t \in Tasks |-> Idle]

-----------------------------------------------------------------------------
At(t, pc) == task[t].pc = pc
Become(t, v) == task' = [task EXCEPT ![t] = v]
Goto(t, pc) == Become(t, [task[t] EXCEPT !.pc = pc])
Finish(t) == Become(t, Idle)

\* isBilledOrder: neither cancelled nor still to be accepted.
BilledOrders(rs) == {r \in rs : round[r] \notin {"none", "placed", "cancelled"}}
Amount(rs, off) == Price * Cardinality(rs) - off

\* assertSessionFullyServed
FullyServed == \A r \in listed : round[r] \in {"served", "cancelled"}

\* isOwedBack: as a stray payment, or as the refund of a bill still open.
OwedBack(i) == i \in strays \/ (bill.status = "open" /\ bill.pid = i /\ bill.refund)
\* hasLivePayment: a payment that can still settle the amount; not one refused and owed back.
PaidState(i) == rzp[i].state \in {"authorized", "captured"}
HasLivePayment(ids, amount) == \E i \in ids : PaidState(i) /\ rzp[i].amount = amount /\ ~OwedBack(i)

-----------------------------------------------------------------------------
(* Rounds.                                                                 *)

\* createOrder for a sitting: counted on an open session, then created, then listed.
PlaceRound(t, r) ==
    /\ At(t, "idle") /\ session = "open"
    /\ round[r] = "none" /\ \A u \in Tasks : At(u, "create") => task[u].r # r
    /\ Become(t, [Idle EXCEPT !.pc = "create", !.r = r])
    /\ UNCHANGED <<floorVars, bill, moneyVars>>
\* A guest's round waits for the owner, a waiter's goes straight to the kitchen.
CreateRound(t) ==
    /\ At(t, "create")
    /\ \E status \in {"placed", "confirmed"} : round' = [round EXCEPT ![task[t].r] = status]
    /\ Goto(t, "push")
    /\ UNCHANGED <<listed, marked, session, forfeited, bill, moneyVars>>
PushRound(t) ==
    /\ At(t, "push")
    /\ listed' = listed \union {task[t].r}
    /\ Finish(t)
    /\ UNCHANGED <<round, marked, session, forfeited, bill, moneyVars>>

\* updateOrderStatus: the owner accepts; the kitchen starts, and the waiter serves.
Advance(r, from, to) ==
    /\ round[r] = from
    /\ round' = [round EXCEPT ![r] = to]
    /\ UNCHANGED <<listed, marked, session, forfeited, bill, moneyVars, task>>
Accept(r) == Advance(r, "placed", "confirmed")
Prepare(r) == Advance(r, "confirmed", "preparing")
Serve(r) == Advance(r, "preparing", "served")

\* updateOrderStatus to 'cancelled', refused (assertRoundCancellable) while the guest is paying.
StartCancel(t, r) ==
    /\ At(t, "idle")
    /\ round[r] \notin {"none", "cancelled"}
    /\ ~(session = "bill_requested" /\ bill.status = "open" /\ bill.intent # None)
    /\ Become(t, [Idle EXCEPT !.pc = "cancel", !.r = r, !.was = round[r]])
    /\ UNCHANGED <<floorVars, bill, moneyVars>>
\* onOrderCancelled: the customer walked away once the kitchen had started, so no refund.
Forfeits(byCustomer, was) == byCustomer /\ was = "preparing"
\* The compare-and-swap hands back the round it cancelled, which says whether it was paid for. Its
\* customer may cancel it until it is served (cancelByCustomer).
CancelRound(t) ==
    LET r == task[t].r
        done == round[r] = task[t].was IN
    /\ At(t, "cancel")
    /\ \E byCustomer \in (IF task[t].was = "served" THEN {FALSE} ELSE BOOLEAN) :
          LET forfeits == Forfeits(byCustomer, task[t].was) IN
          /\ round' = IF done THEN [round EXCEPT ![r] = "cancelled"] ELSE round
          /\ forfeited' = IF done /\ forfeits THEN forfeited \union {r} ELSE forfeited
          /\ IF done /\ ~forfeits /\ r \in marked /\ bill.channel = "online"
             THEN Goto(t, "flag") ELSE Finish(t)
    /\ UNCHANGED <<listed, marked, session, bill, moneyVars>>
\* flagCancelledPaidDineInRound
FlagCancelled(t) ==
    /\ At(t, "flag")
    /\ flagged' = IF bill.channel = "online" THEN flagged \union {task[t].r} ELSE flagged
    /\ Finish(t)
    /\ UNCHANGED <<floorVars, bill, rzp, strays, answered>>

-----------------------------------------------------------------------------
(* assembleBill.                                                           *)

\* A guest starting to pay and staff settling at the counter first see the table fully served.
AskFinal(t, path) ==
    /\ At(t, "idle") /\ path \in {"pay", "counter"}
    /\ path = "pay" => session \in {"open", "bill_requested"}
    /\ FullyServed
    /\ Become(t, [Idle EXCEPT !.pc = "final", !.path = path])
    /\ UNCHANGED <<floorVars, bill, moneyVars>>
\* The sitting is read, by them or by a screen.
Assemble(t, path) ==
    /\ IF path = "view" THEN At(t, "idle") ELSE At(t, "final") /\ task[t].path = path
    /\ Become(t, [Idle EXCEPT !.pc = "bill", !.path = path, !.ate = BilledOrders(listed), !.was = session])
    /\ UNCHANGED <<floorVars, bill, moneyVars>>

\* Where a handler goes with the bill it was given.
After(path) == IF path = "pay" THEN "live" ELSE IF path = "counter" THEN "counted" ELSE "idle"
Given(t, b) == Become(t, IF After(task[t].path) = "idle" THEN Idle
                         ELSE [Idle EXCEPT !.pc = After(task[t].path), !.saw = b])

\* A settled bill is handed back; so is one being paid, unless its hold has run out.
ReadBill(t) ==
    LET held == task[t].was = "bill_requested" /\ bill.intent # None IN
    /\ At(t, "bill")
    /\ \/ bill.status # "open" /\ Given(t, bill)
       \/ bill.status = "open" /\ held /\ Given(t, bill)
       \/ bill.status = "open" /\ held /\ ~HasLivePayment(bill.history, bill.total)
          /\ Become(t, [task[t] EXCEPT !.pc = "abandoned", !.saw.off = bill.off])
       \/ bill.status = "open" /\ ~held
          /\ Become(t, [task[t] EXCEPT !.pc = "write", !.saw.off = bill.off])
    /\ UNCHANGED <<floorVars, bill, moneyVars>>

Reopened == IF session = "bill_requested" THEN "open" ELSE session
\* releaseIfAbandoned
ReleaseAbandoned(t) ==
    /\ At(t, "abandoned")
    /\ session' = Reopened
    /\ Goto(t, "write")
    /\ UNCHANGED <<round, listed, marked, forfeited, bill, moneyVars>>

\* Written only while still open; otherwise the bill as it stands.
Priced(t) == [bill EXCEPT !.rounds = task[t].ate, !.off = task[t].saw.off,
                          !.total = Amount(task[t].ate, task[t].saw.off)]
WriteBill(t) ==
    /\ At(t, "write")
    /\ bill' = IF bill.status = "open" THEN Priced(t) ELSE bill
    /\ Given(t, bill')
    /\ UNCHANGED <<floorVars, moneyVars>>

-----------------------------------------------------------------------------
(* The guest starts to pay: payBill with ensureRazorpayOrder.              *)

CheckLive(t) ==
    LET b == task[t].saw IN
    /\ At(t, "live")
    /\ IF b.total <= 0 \/ HasLivePayment(b.history, b.total) THEN Finish(t) ELSE Goto(t, "open")
    /\ UNCHANGED <<floorVars, bill, moneyVars>>

\* The current Razorpay order while it is unpaid and for this amount, else a new one.
OpenRazorpay(t) ==
    LET b == task[t].saw
        reusable == b.intent # None /\ rzp[b.intent].state \in {"created", "handed"}
                                    /\ rzp[b.intent].amount = b.total IN
    /\ At(t, "open")
    /\ \/ /\ reusable
          /\ Become(t, [Idle EXCEPT !.pc = "lock", !.i = b.intent])
          /\ UNCHANGED rzp
       \/ /\ ~reusable
          /\ \E i \in Intents :
                /\ rzp[i].state = "none"
                /\ rzp' = [rzp EXCEPT ![i] = [state |-> "created", amount |-> b.total]]
                /\ Become(t, [Idle EXCEPT !.pc = "adopt", !.i = i])
    /\ UNCHANGED <<floorVars, bill, strays, flagged, answered>>

\* Adopted only by a bill still open.
Adopt(t) ==
    LET i == task[t].i IN
    /\ At(t, "adopt")
    /\ IF bill.status = "open"
       THEN /\ bill' = [bill EXCEPT !.intent = i, !.history = @ \union {i}]
            /\ Goto(t, "lock")
       ELSE /\ UNCHANGED bill
            /\ Finish(t)
    /\ UNCHANGED <<floorVars, moneyVars>>

\* The table is locked against new rounds, and the guest gets the Razorpay order.
Lock(t) ==
    LET i == task[t].i IN
    /\ At(t, "lock")
    /\ session' = IF session = "open" THEN "bill_requested" ELSE session
    /\ rzp' = [rzp EXCEPT ![i].state = IF @ = "created" THEN "handed" ELSE @]
    /\ Finish(t)
    /\ UNCHANGED <<round, listed, marked, forfeited, bill, strays, flagged, answered>>

\* Razorpay (external): the guest pays an order they were handed, whenever they like.
GuestPays(i) ==
    /\ rzp[i].state = "handed"
    /\ \E state \in {"authorized", "captured"} : rzp' = [rzp EXCEPT ![i].state = state]
    /\ UNCHANGED <<floorVars, bill, strays, flagged, answered, task>>

-----------------------------------------------------------------------------
(* A payment is answered for: verifyBillPayment or settleBillFromWebhook.  *)

Answer(i) == answered' = IF rzp[i].state = "captured" THEN answered \union {i} ELSE answered

\* confirmCapturedPayment checks the payment against the total read and captures it.
StartSettle(t, i) ==
    LET it == [Idle EXCEPT !.i = i] IN
    /\ At(t, "idle") /\ PaidState(i) /\ i \in bill.history
    /\ IF bill.status = "open" /\ rzp[i].amount = bill.total
       THEN /\ Become(t, [it EXCEPT !.pc = "move"])
            /\ rzp' = [rzp EXCEPT ![i].state = "captured"]
            /\ UNCHANGED answered
       ELSE /\ IF bill.status # "open" /\ bill.pid = i
               THEN Become(t, Idle) /\ Answer(i)
               ELSE /\ Become(t, [it EXCEPT !.pc = IF bill.status = "open" THEN "refuse"
                                                    ELSE "stray"])
                    /\ UNCHANGED answered
            /\ UNCHANGED rzp
    /\ UNCHANGED <<floorVars, bill, strays, flagged>>

\* moveRefundToStray: the bill has one payment and one refund, so the refund of a payment refused
\* before makes room for this one. It is read...
ToMove(i) == bill.status = "open" /\ bill.refund /\ bill.pid # i
MoveRead(t) ==
    /\ At(t, "move")
    /\ IF ToMove(task[t].i) THEN Become(t, [task[t] EXCEPT !.pc = "copy", !.saw.pid = bill.pid])
                            ELSE Goto(t, "settle")
    /\ UNCHANGED <<floorVars, bill, moneyVars>>
\* ...copied to a stray payment...
MoveCopy(t) ==
    /\ At(t, "copy")
    /\ strays' = strays \union {task[t].saw.pid}
    /\ Goto(t, "clear")
    /\ UNCHANGED <<floorVars, bill, rzp, flagged, answered>>
\* ...and cleared if it still is the one copied; else all over, five times at most.
MoveClear(t) ==
    /\ At(t, "clear")
    /\ IF bill.status = "open" /\ bill.refund /\ bill.pid = task[t].saw.pid
       THEN bill' = [bill EXCEPT !.refund = FALSE] /\ Goto(t, "settle")
       ELSE UNCHANGED bill /\ (Goto(t, "move") \/ Goto(t, "settle"))
    /\ UNCHANGED <<floorVars, moneyVars>>

\* markPaid of the payment: one update, of an open bill at the very total paid. It replaces the
\* payment the bill has; a refund still on record stays as it is.
Settled(channel, i) == [bill EXCEPT !.status = "paid", !.channel = channel, !.pid = i]
Closing(t, channel) ==
    Become(t, [Idle EXCEPT !.pc = "close", !.i = task[t].i, !.saw.channel = channel, !.saw.rounds = bill.rounds])
Settle_AnyTotal(t) ==
    LET i == task[t].i IN
    /\ At(t, "settle")
    /\ IF bill.status = "open"
       THEN /\ bill' = Settled("online", i)
            /\ Closing(t, "online")
       ELSE /\ UNCHANGED bill
            /\ Goto(t, "stray")
    /\ UNCHANGED <<floorVars, moneyVars>>
Settle(t) ==
    LET i == task[t].i IN
    /\ At(t, "settle")
    /\ IF bill.status = "open" /\ bill.total = rzp[i].amount
       THEN /\ bill' = Settled("online", i)
            /\ Closing(t, "online")
       ELSE /\ UNCHANGED bill
            /\ Goto(t, IF bill.status = "open" THEN "refuse" ELSE "stray")
    /\ UNCHANGED <<floorVars, moneyVars>>

Refuse_Unrecorded(t) ==
    /\ At(t, "refuse")
    /\ Answer(task[t].i) /\ (Goto(t, "reopen") \/ Finish(t))
    /\ UNCHANGED <<floorVars, bill, rzp, strays, flagged>>
\* rejectBillPayment: flagged as the refund of an open bill that has none, the read of
\* alreadyFlagged merged with it; else a stray payment. When it was the guest's app that called,
\* the table is then reopened.
Refuse(t) ==
    LET i == task[t].i
        captured == rzp[i].state = "captured"
        flags == captured /\ bill.status = "open" /\ ~bill.refund IN
    /\ At(t, "refuse")
    /\ bill' = IF flags THEN [bill EXCEPT !.pid = i, !.refund = TRUE] ELSE bill
    /\ IF captured /\ ~flags /\ ~(bill.pid = i /\ bill.refund)
       THEN Goto(t, "refused") /\ UNCHANGED answered
       ELSE Answer(i) /\ (Goto(t, "reopen") \/ Finish(t))
    /\ UNCHANGED <<floorVars, rzp, strays, flagged>>
Reopen(t) ==
    /\ task[t].pc \in {"reopen", "backout", "released"}
    /\ session' = Reopened
    /\ Become(t, IF At(t, "released")
                 THEN [Idle EXCEPT !.pc = "bill", !.path = "release", !.was = session',
                                   !.ate = BilledOrders(listed)]
                 ELSE Idle)
    /\ UNCHANGED <<round, listed, marked, forfeited, bill, moneyVars>>

\* recordStrayPayment: once, and never of a payment the bill has as its own.
RecordStray(t) ==
    LET i == task[t].i IN
    /\ task[t].pc \in {"stray", "refused"}
    /\ strays' = IF rzp[i].state # "captured" \/ bill.pid = i THEN strays ELSE strays \union {i}
    /\ Answer(i)
    /\ Finish(t) \/ (At(t, "refused") /\ Goto(t, "reopen"))
    /\ UNCHANGED <<floorVars, bill, rzp, flagged>>

\* The rest of markPaid: the sitting ends and its rounds are paid for...
CloseSession(t) ==
    /\ At(t, "close")
    /\ session' = "paid"
    /\ marked' = marked \union {r \in Rounds : round[r] \notin {"none", "cancelled"}}
    /\ Goto(t, "void")
    /\ UNCHANGED <<round, listed, forfeited, bill, moneyVars>>
FlagVoided_None(t) ==
    /\ At(t, "void")
    /\ answered' = IF task[t].saw.channel = "online" THEN answered \union {task[t].i} ELSE answered
    /\ Finish(t)
    /\ UNCHANGED <<floorVars, bill, rzp, strays, flagged>>
\* ...then a round billed and cancelled meanwhile is flagged.
FlagVoided(t) ==
    LET online == task[t].saw.channel = "online" IN
    /\ At(t, "void")
    /\ flagged' = IF online THEN flagged \union {r \in task[t].saw.rounds : round[r] = "cancelled"}
                  ELSE flagged
    /\ answered' = IF online THEN answered \union {task[t].i} ELSE answered
    /\ Finish(t)
    /\ UNCHANGED <<floorVars, bill, rzp, strays>>

-----------------------------------------------------------------------------
(* The counter, backing out, releasing, discounts.                         *)

\* markPaidAtCounter, refused while a payment can still settle the bill. markPaid follows.
CheckCounter(t) ==
    LET b == task[t].saw IN
    /\ At(t, "counted") /\ b.channel = "none"
    /\ IF b.status = "open" /\ HasLivePayment(b.history, b.total)
       THEN Finish(t)
       ELSE Become(t, [Idle EXCEPT !.pc = "counted", !.saw.channel = "counter"])
    /\ UNCHANGED <<floorVars, bill, moneyVars>>
PayAtCounter(t) ==
    /\ At(t, "counted") /\ task[t].saw.channel # "none"
    /\ IF bill.status = "open"
       THEN /\ bill' = Settled("counter", bill.pid)
            /\ Closing(t, "counter")
       ELSE /\ UNCHANGED bill
            /\ Finish(t)
    /\ UNCHANGED <<floorVars, moneyVars>>

\* cancelBillPayment (the guest) and releasePayment (staff, of an open bill), refused while a
\* payment is live.
StartBackOut(t) ==
    /\ At(t, "idle")
    /\ bill.status = "open" => ~HasLivePayment(bill.history, bill.total)
    /\ \/ session = "bill_requested" /\ Goto(t, "backout")
       \/ bill.status = "open" /\ Goto(t, "released")
    /\ UNCHANGED <<floorVars, bill, moneyVars>>

\* applyDiscount: priced on the subtotal read, written while the bill is open.
StartDiscount(t) ==
    /\ At(t, "idle") /\ bill.status = "open" /\ bill.off < MaxDiscounts
    /\ ~(bill.intent # None /\ session = "bill_requested")
    /\ Become(t, [Idle EXCEPT !.pc = "discount", !.saw.off = bill.off, !.saw.rounds = bill.rounds])
    /\ UNCHANGED <<floorVars, bill, moneyVars>>
ApplyDiscount(t) ==
    LET off == task[t].saw.off + 1 IN
    /\ At(t, "discount")
    /\ bill' = IF bill.status = "open"
               THEN [bill EXCEPT !.off = off, !.total = Amount(task[t].saw.rounds, off)]
               ELSE bill
    /\ Finish(t)
    /\ UNCHANGED <<floorVars, moneyVars>>

-----------------------------------------------------------------------------
Kitchen(r) == Accept(r) \/ Prepare(r) \/ Serve(r)
Arrive(t) ==
    \/ \E r \in Rounds : PlaceRound(t, r) \/ StartCancel(t, r)
    \/ \E path \in Paths \ {"release"} : AskFinal(t, path) \/ Assemble(t, path)
    \/ \E i \in Intents : StartSettle(t, i)
    \/ StartBackOut(t) \/ StartDiscount(t)
OrderStep(t) == CreateRound(t) \/ PushRound(t) \/ CancelRound(t) \/ FlagCancelled(t)
BillStep(t) == ReadBill(t) \/ ReleaseAbandoned(t) \/ WriteBill(t) \/ ApplyDiscount(t)
PayStep(t) == CheckLive(t) \/ OpenRazorpay(t) \/ Adopt(t) \/ Lock(t)
SettleStep(t) ==
    \/ MoveRead(t) \/ MoveCopy(t) \/ MoveClear(t)
    \/ Settle(t) \/ Refuse(t) \/ Reopen(t) \/ RecordStray(t) \/ CloseSession(t) \/ FlagVoided(t)
    \/ CheckCounter(t) \/ PayAtCounter(t)
Next ==
    \/ \E r \in Rounds : Kitchen(r)
    \/ \E i \in Intents : GuestPays(i)
    \/ \E t \in Tasks : Arrive(t) \/ OrderStep(t) \/ BillStep(t) \/ PayStep(t) \/ SettleStep(t)

Spec == Init /\ [][Next]_vars

-----------------------------------------------------------------------------
\* The variables have their types.
TypeOK ==
    /\ round \in [Rounds -> RoundStatuses]
    /\ listed \subseteq Rounds /\ marked \subseteq Rounds
    /\ session \in {"open", "bill_requested", "paid"}
    /\ bill \in Bill
    /\ rzp \in [Intents -> Intent]
    /\ strays \subseteq Intents /\ answered \subseteq Intents
    /\ flagged \subseteq Rounds /\ forfeited \subseteq Rounds
    /\ task \in [Tasks -> Task]

\* A bill paid online shows exactly the amount of the payment that settled it, however screens,
\* discounts and rounds raced the guest (markPaid's guards and assembleBill's).
ReceiptIsPayment ==
    bill.channel = "online" =>
        /\ rzp[bill.pid].state = "captured"
        /\ bill.total = rzp[bill.pid].amount

\* A captured payment the server has answered for is not lost: it settled the bill, or its refund
\* is on record, on the bill or as a stray payment (settleBillWithPayment's "never silently
\* dropped"). A move that ends before another handler flags breaks it: with one handler, or with
\* one Razorpay order, nothing does.
PaymentIsAccounted ==
    \A i \in answered :
        \/ bill.channel = "online" /\ bill.pid = i
        \/ bill.refund /\ bill.pid = i
        \/ i \in strays

\* A round on a bill paid online that was cancelled, before or after the payment, is flagged for a
\* refund once both handlers are done: one of the two sides always sees the other. Not so one its
\* customer cancelled after the kitchen had started, who was told there is no refund.
CancelledRoundIsFlagged ==
    \A r \in bill.rounds \ forfeited :
        /\ bill.channel = "online" /\ round[r] = "cancelled"
        /\ \A t \in DOMAIN task : task[t].pc \notin {"close", "void", "flag"}
        => r \in flagged
=============================================================================
