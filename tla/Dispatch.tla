------------------------------ MODULE Dispatch ------------------------------
(***************************************************************************)
(* Finding a rider for accepted delivery orders and seeing each order to   *)
(* its end: services/deliveryAssignment.service.js (offers, sweeps,        *)
(* release), controllers/partner/order.controller.js (accept, reject, pick *)
(* up, deliver), controllers/partner/duty.controller.js, the status        *)
(* changes of services/kitchen.service.js and the two administrator        *)
(* endpoints of controllers/admin/order.controller.js.                     *)
(*                                                                         *)
(* A handler is a task with a program counter, every database call one     *)
(* atomic step.  "accepted" stands for the three ASSIGNABLE_STATUSES       *)
(* (confirmed, preparing, ready); an offer is its rider and whether its    *)
(* window has passed, none of 'none', 'accepted', 'rejected' and 'expired' *)
(* being told apart by the code.  Codes are entered correctly.  Reads that *)
(* the conditional write after them repeats are merged with each other.    *)
(*                                                                         *)
(* A definition X_Y is X with the seeded fault Y, used to see that a       *)
(* property can fail.                                                      *)
(***************************************************************************)
EXTENDS Naturals, FiniteSets

CONSTANTS
    Orders,         \* delivery orders
    Riders,         \* approved, reachable delivery partners
    None,           \* partnerId = null
    Tasks,          \* handlers in flight at the same time
    MaxActive,      \* maxConcurrentOrdersPerPartner
    ReofferMax,     \* REOFFER_MAX_PER_RIDER
    SweepLimit,     \* the waiting orders one sweep takes, oldest first
    Reassigns       \* the orders administrators give to a rider (Situations)

\* An order nobody is asked about or holds, one on offer, one a rider has or had.
Situations == {"waiting", "offered", "held"}

ASSUME OrdersAssumption == IsFiniteSet(Orders)
ASSUME ReassignsAssumption == Reassigns \subseteq Situations
ASSUME NoneAssumption == None \notin Riders \union Orders
ASSUME LimitsAssumption ==
    MaxActive \in Nat \ {0} /\ ReofferMax \in Nat \ {0} /\ SweepLimit \in Nat \ {0}

MaybeRider == Riders \union {None}
Statuses == {"placed", "accepted", "out_for_delivery", "delivered", "cancelled"}
Assignments == {"unassigned", "assigned", "picked_up", "delivered", "failed"}
Held == {"assigned", "picked_up"}
RiderStatuses == {"active", "inactive", "busy"}

VARIABLES
    status,     \* order.status
    aged,       \* createdAt is more than WAITING_ORDER_MAX_AGE_MS ago
    asg,        \* deliveryAssignment.status
    partner,    \* deliveryAssignment.partnerId
    code,       \* whether a pickupOtp is set
    offeredTo,  \* deliveryAssignment.offeredTo while offerStatus = 'offered', else None
    lapsed,     \* offerExpiresAt <= now
    asked,      \* entries of deliveryAssignment.history per rider, up to ReofferMax
    rider,      \* DeliveryPartner.status
    bills,      \* receipts created for the order
    counted,    \* countedAt: the delivery is credited
    task        \* the handlers in flight

offerVars == <<offeredTo, lapsed, asked>>
holdVars == <<asg, partner, code>>
billVars == <<bills, counted>>
vars == <<status, aged, asg, partner, code, offeredTo, lapsed, asked, rider, bills, counted, task>>

Pcs == {"idle", "search", "offer", "expire", "accept", "countBusy", "setBusy", "reject",
        "release", "withdraw", "unassign", "freeing", "setFree", "pickup", "handoff",
        "handover", "close", "bill", "billWrite", "count", "kitchenClose", "kitchenSave",
        "reassign", "duty"}

\* r is the rider the handler acts for, p and saw what it has read, free the riders it
\* is to take out of 'busy'.
Task == [pc : Pcs, o : Orders \union {None}, r : MaybeRider, p : MaybeRider,
         saw : Statuses \union Assignments \union RiderStatuses \union {"nothing"},
         free : SUBSET Riders]
Idle == [pc |-> "idle", o |-> None, r |-> None, p |-> None, saw |-> "nothing", free |-> {}]

Init ==
    /\ status = [o \in Orders |-> "placed"]
    /\ aged = [o \in Orders |-> FALSE]
    /\ asg = [o \in Orders |-> "unassigned"]
    /\ partner = [o \in Orders |-> None]
    /\ code = [o \in Orders |-> FALSE]
    /\ offeredTo = [o \in Orders |-> None]
    /\ lapsed = [o \in Orders |-> FALSE]
    /\ asked = [o \in Orders |-> [r \in Riders |-> 0]]
    /\ rider = [r \in Riders |-> "active"]
    /\ bills = [o \in Orders |-> 0]
    /\ counted = [o \in Orders |-> FALSE]
    /\ task = [t \in Tasks |-> Idle]

-----------------------------------------------------------------------------
At(t, pc) == task[t].pc = pc
Become(t, v) == task' = [task EXCEPT ![t] = v]
Goto(t, pc) == Become(t, [task[t] EXCEPT !.pc = pc])
Finish(t) == Become(t, Idle)
Begin(t, pc, o, r, p, saw) ==
    /\ At(t, "idle")
    /\ Become(t, [pc |-> pc, o |-> o, r |-> r, p |-> p, saw |-> saw, free |-> {}])

Assignable(o) == status[o] = "accepted"

\* countActiveAssignments
Load(r) == Cardinality({o \in Orders : partner[o] = r /\ asg[o] \in Held})

Live(o) == offeredTo[o] # None /\ ~lapsed[o]

\* A history entry for rider r.
OneMore(n) == IF n < ReofferMax THEN n + 1 ELSE n
Ask(o, r) == asked' = [asked EXCEPT ![o] = [@ EXCEPT ![r] = OneMore(asked[o][r])]]

\* offerStatus leaves 'offered'.
Clear(o) ==
    /\ offeredTo' = [offeredTo EXCEPT ![o] = None]
    /\ lapsed' = [lapsed EXCEPT ![o] = FALSE]

-----------------------------------------------------------------------------
(* Looking for a rider.                                                    *)

\* The tests autoAssign makes of a candidate before it writes the offer.
Available_AnyOffers(o, r) ==
    /\ rider[r] = "active"
    /\ asked[o][r] < ReofferMax
    /\ Load(r) < MaxActive
Available(o, r) ==
    /\ rider[r] = "active"
    /\ asked[o][r] < ReofferMax
    /\ Load(r) < MaxActive
    /\ \A x \in Orders \ {o} : ~(Live(x) /\ offeredTo[x] = r)

\* A rider asked before may still be in the cooldown of passedOverFor.
Search(t) ==
    LET o == task[t].o
        open == Assignable(o) /\ partner[o] = None IN
    /\ At(t, "search")
    /\ \/ \E r \in Riders :
             /\ open /\ Available(o, r)
             /\ Become(t, [task[t] EXCEPT !.pc = "offer", !.r = r])
       \/ /\ open => \A r \in Riders : Available(o, r) => asked[o][r] > 0
          /\ Finish(t)
    /\ UNCHANGED <<status, holdVars, offerVars, rider, billVars>>

\* The conditional write of autoAssign.
Offer_IgnoresLiveOffer(t) ==
    LET o == task[t].o IN
    /\ At(t, "offer")
    /\ IF Assignable(o) /\ partner[o] = None
       THEN /\ offeredTo' = [offeredTo EXCEPT ![o] = task[t].r]
            /\ lapsed' = [lapsed EXCEPT ![o] = FALSE]
       ELSE UNCHANGED <<offeredTo, lapsed>>
    /\ Finish(t)
    /\ UNCHANGED <<status, holdVars, asked, rider, billVars>>
Offer(t) ==
    LET o == task[t].o IN
    /\ At(t, "offer")
    /\ IF Assignable(o) /\ partner[o] = None /\ ~Live(o)
       THEN /\ offeredTo' = [offeredTo EXCEPT ![o] = task[t].r]
            /\ lapsed' = [lapsed EXCEPT ![o] = FALSE]
       ELSE UNCHANGED <<offeredTo, lapsed>>
    /\ Finish(t)
    /\ UNCHANGED <<status, holdVars, asked, rider, billVars>>

\* The offer window passes.
Lapse(o) ==
    /\ Live(o)
    /\ lapsed' = [lapsed EXCEPT ![o] = TRUE]
    /\ UNCHANGED <<status, holdVars, offeredTo, asked, rider, billVars, task>>

\* sweepExpiredOffers, or expireIfStale on a read of the order.
ExpireStale(t, o) ==
    /\ offeredTo[o] # None /\ lapsed[o]
    /\ Begin(t, "expire", o, offeredTo[o], None, "nothing")
    /\ UNCHANGED <<status, holdVars, offerVars, rider, billVars>>

\* expireAndReassign: only the very offer that was read.
Expire(t) ==
    LET o == task[t].o IN
    /\ At(t, "expire")
    /\ IF lapsed[o] /\ offeredTo[o] = task[t].r
       THEN Clear(o) /\ Ask(o, task[t].r) /\ Goto(t, "search")
       ELSE UNCHANGED offerVars /\ Finish(t)
    /\ UNCHANGED <<status, holdVars, rider, billVars>>

\* Three hours pass since the order was placed; only a waiting order's age is ever asked for.
Age(o) ==
    /\ ~aged[o] /\ status[o] \in {"placed", "accepted"}
    /\ aged' = [aged EXCEPT ![o] = TRUE]
    /\ UNCHANGED <<status, holdVars, offerVars, rider, billVars, task>>

\* The orders sweepUnassignedOrders looks for. A pass takes the SweepLimit oldest of them:
\* when there are more, any of them may be among those.
Waiting == {o \in Orders : /\ Assignable(o) /\ ~aged[o]
                           /\ asg[o] = "unassigned" /\ partner[o] = None /\ offeredTo[o] = None}
EveryTurn == Cardinality(Waiting) <= SweepLimit

\* sweepUnassignedOrders
SweepUnassigned_NeverAsked(t, o) ==
    /\ o \in Waiting
    /\ \E r \in Riders : asked[o][r] > 0
    /\ Begin(t, "search", o, None, None, "nothing")
    /\ UNCHANGED <<status, holdVars, offerVars, rider, billVars>>
SweepUnassigned(t, o) ==
    /\ o \in Waiting
    /\ Begin(t, "search", o, None, None, "nothing")
    /\ UNCHANGED <<status, holdVars, offerVars, rider, billVars>>

-----------------------------------------------------------------------------
(* The rider's answer.                                                     *)

\* acceptOrder up to its conditional write.
AcceptOffer(t, o, r) ==
    /\ Live(o) /\ offeredTo[o] = r /\ Assignable(o)
    /\ Begin(t, "accept", o, r, None, "nothing")
    /\ UNCHANGED <<status, holdVars, offerVars, rider, billVars>>

\* The conditional write of acceptOrder; an accepting rider is not asked about this order
\* again.  An order that can no longer take a rider has its offer closed (closeOffer).
Accept_AnyOffer(t) ==
    LET o == task[t].o
        r == task[t].r IN
    /\ At(t, "accept")
    /\ IF Assignable(o)
       THEN /\ asg' = [asg EXCEPT ![o] = "assigned"]
            /\ partner' = [partner EXCEPT ![o] = r]
            /\ code' = [code EXCEPT ![o] = TRUE]
            /\ asked' = [asked EXCEPT ![o] = [@ EXCEPT ![r] = ReofferMax]]
            /\ Clear(o) /\ Goto(t, "countBusy")
       ELSE /\ IF offeredTo[o] = r THEN Clear(o) ELSE UNCHANGED <<offeredTo, lapsed>>
            /\ Finish(t)
            /\ UNCHANGED <<holdVars, asked>>
    /\ UNCHANGED <<status, rider, billVars>>
Accept(t) ==
    LET o == task[t].o
        r == task[t].r IN
    /\ At(t, "accept")
    /\ IF Assignable(o) /\ offeredTo[o] = r
       THEN /\ asg' = [asg EXCEPT ![o] = "assigned"]
            /\ partner' = [partner EXCEPT ![o] = r]
            /\ code' = [code EXCEPT ![o] = TRUE]
            /\ asked' = [asked EXCEPT ![o] = [@ EXCEPT ![r] = ReofferMax]]
            /\ Clear(o) /\ Goto(t, "countBusy")
       ELSE /\ IF ~Assignable(o) /\ offeredTo[o] = r THEN Clear(o) ELSE UNCHANGED <<offeredTo, lapsed>>
            /\ Finish(t)
            /\ UNCHANGED <<holdVars, asked>>
    /\ UNCHANGED <<status, rider, billVars>>

\* acceptOrder: is the rider at the limit now?
CountBusy(t) ==
    /\ At(t, "countBusy")
    /\ IF Load(task[t].r) >= MaxActive THEN Goto(t, "setBusy") ELSE Finish(t)
    /\ UNCHANGED <<status, holdVars, offerVars, rider, billVars>>

SetBusy(t) ==
    /\ At(t, "setBusy")
    /\ rider' = [rider EXCEPT ![task[t].r] = "busy"]
    /\ Finish(t)
    /\ UNCHANGED <<status, holdVars, offerVars, billVars>>

\* rejectOrder up to its save.
RejectOffer(t, o, r) ==
    /\ Live(o) /\ offeredTo[o] = r
    /\ Begin(t, "reject", o, r, None, "nothing")
    /\ UNCHANGED <<status, holdVars, offerVars, rider, billVars>>

\* order.save() of the document read before: whatever offer there is now is 'rejected'.
Reject(t) ==
    /\ At(t, "reject")
    /\ Clear(task[t].o) /\ Ask(task[t].o, task[t].r) /\ Goto(t, "search")
    /\ UNCHANGED <<status, holdVars, rider, billVars>>

-----------------------------------------------------------------------------
(* The restaurant.                                                         *)

\* Accepting the order, which starts the search.
AcceptOrder(t, o) ==
    /\ status[o] = "placed"
    /\ status' = [status EXCEPT ![o] = "accepted"]
    /\ Begin(t, "search", o, None, None, "nothing")
    /\ UNCHANGED <<holdVars, offerVars, rider, billVars>>

\* The kitchen's "Out for Delivery".
SendOut(o) ==
    /\ Assignable(o)
    /\ status' = [status EXCEPT ![o] = "out_for_delivery"]
    /\ UNCHANGED <<holdVars, offerVars, rider, billVars, task>>

\* Closing a delivery by the restaurant, never while a rider holds it, or by support
\* (markDelivered), only once the rider has collected it: the reads before the update.
MarkDelivered(t, o, bySupport) ==
    /\ status[o] \in {"accepted", "out_for_delivery"}
    /\ IF bySupport THEN asg[o] = "picked_up" ELSE asg[o] \notin Held
    /\ Begin(t, "kitchenClose", o, None, None, status[o])
    /\ UNCHANGED <<status, holdVars, offerVars, rider, billVars>>

\* updateOrderStatus: the compare-and-swap on the status. The rider assigned is freed at the
\* end, whoever that is.
KitchenClose_FreesNobody(t) ==
    LET o == task[t].o IN
    /\ At(t, "kitchenClose")
    /\ IF status[o] = task[t].saw
       THEN /\ status' = [status EXCEPT ![o] = "delivered"]
            /\ Become(t, [task[t] EXCEPT !.pc = "kitchenSave", !.saw = asg[o]])
       ELSE UNCHANGED status /\ Finish(t)
    /\ UNCHANGED <<holdVars, offerVars, rider, billVars>>
KitchenClose_FreesNull(t) ==
    LET o == task[t].o IN
    /\ At(t, "kitchenClose")
    /\ IF status[o] = task[t].saw
       THEN /\ status' = [status EXCEPT ![o] = "delivered"]
            /\ Become(t, [task[t] EXCEPT !.pc = "kitchenSave", !.saw = asg[o],
                                         !.free = {partner[o]}])
       ELSE UNCHANGED status /\ Finish(t)
    /\ UNCHANGED <<holdVars, offerVars, rider, billVars>>
KitchenClose(t) ==
    LET o == task[t].o IN
    /\ At(t, "kitchenClose")
    /\ IF status[o] = task[t].saw
       THEN /\ status' = [status EXCEPT ![o] = "delivered"]
            /\ Become(t, [task[t] EXCEPT !.pc = "kitchenSave", !.saw = asg[o],
                                         !.free = {partner[o]} \ {None}])
       ELSE UNCHANGED status /\ Finish(t)
    /\ UNCHANGED <<holdVars, offerVars, rider, billVars>>

\* order.save(): writes the assignment when it differs from the document read.
KitchenSave(t) ==
    /\ At(t, "kitchenSave")
    /\ asg' = IF task[t].saw \in {"failed", "delivered"} THEN asg
              ELSE [asg EXCEPT ![task[t].o] = "delivered"]
    /\ Goto(t, "bill")
    /\ UNCHANGED <<status, partner, code, offerVars, rider, billVars>>

-----------------------------------------------------------------------------
(* Cancelling.                                                             *)

\* updateOrderStatus: the compare-and-swap with cancelGuard.
Cancel_AfterHandover(t, o, byCustomer) ==
    /\ status[o] \in (IF byCustomer THEN {"placed", "accepted"}
                      ELSE {"placed", "accepted", "out_for_delivery"})
    /\ byCustomer => asg[o] \notin {"picked_up", "delivered"}
    /\ status' = [status EXCEPT ![o] = "cancelled"]
    /\ Begin(t, "release", o, None, None, "nothing")
    /\ UNCHANGED <<holdVars, offerVars, rider, billVars>>
Cancel(t, o, byCustomer) ==
    /\ status[o] \in (IF byCustomer THEN {"placed", "accepted"}
                      ELSE {"placed", "accepted", "out_for_delivery"})
    /\ asg[o] \notin (IF byCustomer THEN {"picked_up", "delivered"} ELSE {"delivered"})
    /\ status' = [status EXCEPT ![o] = "cancelled"]
    /\ Begin(t, "release", o, None, None, "nothing")
    /\ UNCHANGED <<holdVars, offerVars, rider, billVars>>

\* releaseAssignmentForCancelledOrder: what the order looks like now.
Release(t) ==
    LET o == task[t].o IN
    /\ At(t, "release")
    /\ Become(t, [task[t] EXCEPT !.pc = "withdraw", !.r = offeredTo[o], !.p = partner[o],
                                 !.saw = asg[o]])
    /\ UNCHANGED <<status, holdVars, offerVars, rider, billVars>>

\* Its first conditional write: the offer read.
Withdraw(t) ==
    LET o == task[t].o
        r == task[t].r IN
    /\ At(t, "withdraw")
    /\ IF r # None /\ offeredTo[o] = r
       THEN /\ Clear(o) /\ Ask(o, r)
            /\ Become(t, [task[t] EXCEPT !.pc = "unassign", !.free = @ \union {r}])
       ELSE UNCHANGED offerVars /\ Goto(t, "unassign")
    /\ UNCHANGED <<status, holdVars, rider, billVars>>

\* Its second: the assignment read. Collected food stays with its rider, as 'failed'.
Unassign(t) ==
    LET o == task[t].o
        p == task[t].p IN
    /\ At(t, "unassign")
    /\ IF task[t].saw \in Held /\ p # None /\ asg[o] = task[t].saw /\ partner[o] = p
       THEN /\ IF asg[o] = "picked_up"
               THEN asg' = [asg EXCEPT ![o] = "failed"] /\ UNCHANGED <<partner, code>>
               ELSE /\ asg' = [asg EXCEPT ![o] = "unassigned"]
                    /\ partner' = [partner EXCEPT ![o] = None]
                    /\ code' = [code EXCEPT ![o] = FALSE]
            /\ Become(t, [task[t] EXCEPT !.pc = "freeing", !.free = @ \union {p}])
       ELSE UNCHANGED holdVars /\ Goto(t, "freeing")
    /\ UNCHANGED <<status, offerVars, rider, billVars>>

\* freeRiderIfIdle of each rider released: the count, then the write while still 'busy'.
Freeing(t) ==
    /\ At(t, "freeing")
    /\ \/ \E r \in task[t].free :
             Become(t, [task[t] EXCEPT !.free = @ \ {r}, !.r = r,
                                       !.pc = IF Load(r) < MaxActive THEN "setFree" ELSE "freeing"])
       \/ task[t].free = {} /\ Finish(t)
    /\ UNCHANGED <<status, holdVars, offerVars, rider, billVars>>

SetFree(t) ==
    /\ At(t, "setFree")
    /\ rider' = [rider EXCEPT ![task[t].r] = IF @ = "busy" THEN "active" ELSE @]
    /\ Goto(t, "freeing")
    /\ UNCHANGED <<status, holdVars, offerVars, billVars>>

-----------------------------------------------------------------------------
(* The rider at the counter and at the door.                               *)

\* verifyPickup up to its first write: the right code, so there has to be one.
VerifyPickup(t, o, r) ==
    /\ status[o] # "cancelled" /\ partner[o] = r /\ asg[o] = "assigned" /\ code[o]
    /\ Begin(t, "pickup", o, r, None, "nothing")
    /\ UNCHANGED <<status, holdVars, offerVars, rider, billVars>>

PickUp_Unconditional(t) ==
    /\ At(t, "pickup")
    /\ asg' = [asg EXCEPT ![task[t].o] = "picked_up"]
    /\ Goto(t, "handoff")
    /\ UNCHANGED <<status, partner, code, offerVars, rider, billVars>>
PickUp(t) ==
    LET o == task[t].o IN
    /\ At(t, "pickup")
    /\ IF status[o] # "cancelled" /\ asg[o] = "assigned" /\ partner[o] = task[t].r
       THEN asg' = [asg EXCEPT ![o] = "picked_up"] /\ Goto(t, "handoff")
       ELSE UNCHANGED asg /\ Finish(t)
    /\ UNCHANGED <<status, partner, code, offerVars, rider, billVars>>

\* verifyPickup: the order goes out with the rider, if the kitchen has not sent it out.
Handoff(t) ==
    LET o == task[t].o IN
    /\ At(t, "handoff")
    /\ status' = [status EXCEPT ![o] = IF Assignable(o) THEN "out_for_delivery" ELSE @]
    /\ Finish(t)
    /\ UNCHANGED <<holdVars, offerVars, rider, billVars>>

\* deliverOrder up to the claim.
DeliverOrder(t, o, r) ==
    /\ status[o] # "cancelled" /\ partner[o] = r /\ asg[o] = "picked_up"
    /\ Begin(t, "handover", o, r, None, "nothing")
    /\ UNCHANGED <<status, holdVars, offerVars, rider, billVars>>

\* The claim of the handover: the document it returns is what is saved and billed.
Handover(t) ==
    LET o == task[t].o IN
    /\ At(t, "handover")
    /\ IF status[o] # "cancelled" /\ asg[o] = "picked_up" /\ partner[o] = task[t].r
       THEN /\ asg' = [asg EXCEPT ![o] = "delivered"]
            /\ Become(t, [task[t] EXCEPT !.pc = "close", !.saw = status[o], !.free = {task[t].r}])
       ELSE UNCHANGED asg /\ Finish(t)
    /\ UNCHANGED <<status, partner, code, offerVars, rider, billVars>>

\* order.save(): closes and bills the order unless the kitchen had closed it before.
Close_Forgotten(t) ==
    /\ At(t, "close")
    /\ Goto(t, "count")
    /\ UNCHANGED <<status, holdVars, offerVars, rider, billVars>>
Close(t) ==
    LET o == task[t].o IN
    /\ At(t, "close")
    /\ IF task[t].saw = "delivered"
       THEN UNCHANGED status /\ Goto(t, "count")
       ELSE status' = [status EXCEPT ![o] = "delivered"] /\ Goto(t, "bill")
    /\ UNCHANGED <<holdVars, offerVars, rider, billVars>>

\* createOrderBill: find, then create.
Bill(t) ==
    /\ At(t, "bill")
    /\ Goto(t, IF bills[task[t].o] = 0 THEN "billWrite" ELSE "count")
    /\ UNCHANGED <<status, holdVars, offerVars, rider, billVars>>

BillWrite(t) ==
    /\ At(t, "billWrite")
    /\ bills' = [bills EXCEPT ![task[t].o] = @ + 1]
    /\ Goto(t, "count")
    /\ UNCHANGED <<status, holdVars, offerVars, rider, counted>>

\* onOrderDelivered and countCompletedDelivery, each once per order.
Count(t) ==
    LET o == task[t].o IN
    /\ At(t, "count")
    /\ counted' = [counted EXCEPT ![o] = @ \/ (asg[o] = "delivered" /\ partner[o] # None)]
    /\ Goto(t, "freeing")
    /\ UNCHANGED <<status, holdVars, offerVars, rider, bills>>

-----------------------------------------------------------------------------
(* Administrators and riders' duty.                                        *)

Situation(o) == IF partner[o] # None THEN "held"
                ELSE IF offeredTo[o] # None THEN "offered" ELSE "waiting"

\* reassignDeliveryPartner up to its save.
ReassignPartner(t, o, r) ==
    /\ Situation(o) \in Reassigns
    /\ status[o] \in {"accepted", "out_for_delivery"}
    /\ Begin(t, "reassign", o, r, partner[o], asg[o])
    /\ UNCHANGED <<status, holdVars, offerVars, rider, billVars>>

\* order.save(): the fields that differ from the document read.
Reassign(t) ==
    LET o == task[t].o
        p == task[t].p IN
    /\ At(t, "reassign")
    /\ partner' = IF p = task[t].r THEN partner ELSE [partner EXCEPT ![o] = task[t].r]
    /\ asg' = IF task[t].saw = "assigned" THEN asg ELSE [asg EXCEPT ![o] = "assigned"]
    /\ IF p # None THEN Ask(o, p) ELSE UNCHANGED asked
    /\ Finish(t)
    /\ UNCHANGED <<status, code, offeredTo, lapsed, rider, billVars>>

\* toggleDuty: refused while 'busy', else the other status is saved.
ToggleDuty(t, r) ==
    /\ rider[r] # "busy"
    /\ Begin(t, "duty", None, r, None, rider[r])
    /\ UNCHANGED <<status, holdVars, offerVars, rider, billVars>>

SaveDuty(t) ==
    /\ At(t, "duty")
    /\ rider' = [rider EXCEPT ![task[t].r] = IF task[t].saw = "active" THEN "inactive" ELSE "active"]
    /\ Finish(t)
    /\ UNCHANGED <<status, holdVars, offerVars, billVars>>

-----------------------------------------------------------------------------
\* The next call of a handler under way.
Step(t) ==
    \/ Search(t) \/ Offer(t) \/ Expire(t)
    \/ Accept(t) \/ CountBusy(t) \/ SetBusy(t) \/ Reject(t)
    \/ KitchenClose(t) \/ KitchenSave(t)
    \/ Release(t) \/ Withdraw(t) \/ Unassign(t) \/ Freeing(t) \/ SetFree(t)
    \/ PickUp(t) \/ Handoff(t) \/ Handover(t) \/ Close(t)
    \/ Bill(t) \/ BillWrite(t) \/ Count(t)
    \/ Reassign(t) \/ SaveDuty(t)

\* A request, or a sweep, starts a handler on order o.
Start(t, o) ==
    \/ AcceptOrder(t, o) \/ ExpireStale(t, o) \/ SweepUnassigned(t, o)
    \/ \E b \in BOOLEAN : MarkDelivered(t, o, b) \/ Cancel(t, o, b)
    \/ \E r \in Riders : \/ AcceptOffer(t, o, r) \/ RejectOffer(t, o, r) \/ VerifyPickup(t, o, r)
                         \/ DeliverOrder(t, o, r) \/ ReassignPartner(t, o, r)

Next ==
    \/ /\ \/ \E t \in Tasks : Step(t)
          \/ \E t \in Tasks, o \in Orders : Start(t, o)
          \/ \E t \in Tasks, r \in Riders : ToggleDuty(t, r)
          \/ \E o \in Orders : Lapse(o) \/ SendOut(o)
       /\ UNCHANGED aged
    \/ \E o \in Orders : Age(o)

Spec == Init /\ [][Next]_vars

\* A handler goes on, time passes, and the five-second sweeps keep coming whatever else the
\* bounded handler slots are busy with. A waiting order is sure of its turn only while it is
\* young enough and a sweep takes all there are; that it grows too old is nobody's duty.
Fairness ==
    /\ \A t \in Tasks : WF_vars(Step(t) /\ UNCHANGED aged)
    /\ \A o \in Orders : WF_vars(Lapse(o) /\ UNCHANGED aged)
    /\ \A o \in Orders : SF_vars((\E t \in Tasks : ExpireStale(t, o)) /\ UNCHANGED aged)
    /\ \A o \in Orders :
         SF_vars(EveryTurn /\ (\E t \in Tasks : SweepUnassigned(t, o)) /\ UNCHANGED aged)
FairSpec == Spec /\ Fairness

-----------------------------------------------------------------------------
(* Properties.                                                             *)

\* Every variable has its type.
TypeOK ==
    /\ status \in [Orders -> Statuses]
    /\ aged \in [Orders -> BOOLEAN]
    /\ asg \in [Orders -> Assignments]
    /\ partner \in [Orders -> MaybeRider]
    /\ code \in [Orders -> BOOLEAN]
    /\ offeredTo \in [Orders -> MaybeRider]
    /\ lapsed \in [Orders -> BOOLEAN]
    /\ asked \in [Orders -> [Riders -> 0..ReofferMax]]
    /\ rider \in [Riders -> RiderStatuses]
    /\ bills \in [Orders -> Nat]
    /\ counted \in [Orders -> BOOLEAN]
    /\ task \in [Tasks -> Task]

\* Of a handover and a cancellation at the same instant exactly one wins: food handed to the
\* customer is never on a cancelled (and refunded) order.
HandedOverIsNotCancelled ==
    \A o \in Orders : asg[o] = "delivered" => status[o] # "cancelled"

Releasing(o) == \E t \in Tasks : task[t].o = o /\ task[t].pc \in {"release", "withdraw", "unassign"}

\* Once its cancellation has run, a cancelled order is out of every rider's hands: no offer
\* of it is open and nobody is on the way with it, whatever the riders did meanwhile.
CancelledIsReleased ==
    \A o \in Orders : status[o] = "cancelled" /\ ~Releasing(o)
                      => offeredTo[o] = None /\ asg[o] \notin Held

\* An order a rider holds is not taken over by another rider's acceptance: it stays theirs
\* until it is cancelled or an administrator gives it to somebody else.
NoTakeover ==
    [][\A o \in Orders : partner[o] # None /\ partner'[o] # partner[o]
         => \/ partner'[o] = None /\ status[o] = "cancelled"
            \/ \E t \in Tasks : At(t, "reassign") /\ task[t].o = o /\ task[t].r = partner'[o]]_vars

\* A rider's screen shows one offer at a time.
OneOfferAtATime ==
    \A x, y \in Orders : x # y /\ Live(x) /\ Live(y) => offeredTo[x] # offeredTo[y]

\* A live offer is not handed to anybody else: it ends by its rider's acceptance, by a
\* refusal of the order, by its window or by the order's cancellation, and by nothing else.
OfferStands ==
    [][\A o \in Orders :
         Live(o) /\ offeredTo'[o] # offeredTo[o]
         => \/ status[o] = "cancelled"
            \/ \E t \in Tasks : /\ task[t].o = o
                                /\ \/ At(t, "reject")
                                   \/ At(t, "accept") /\ task[t].r = offeredTo[o]]_vars

\* 'busy' means holding as many orders as a rider may: with nothing left to do for an order,
\* a busy rider has a delivery to finish, which will free them.
BusyHoldsAnOrder ==
    (\A t \in Tasks : task[t].pc = "idle")
    => \A r \in Riders : rider[r] = "busy" => Load(r) >= MaxActive

\* An order handed over by its rider is closed, billed and credited.
HandedOverIsClosed ==
    \A o \in Orders :
        asg[o] = "delivered" /\ partner[o] # None
        ~> status[o] = "delivered" /\ bills[o] > 0 /\ counted[o]

\* While a rider nobody asked yet stands idle, an accepted order does not wait for ever: not
\* one without an offer, as long as the sweep takes it (placed less than three hours ago, and
\* no more such orders than a sweep takes), and not one whose offer has lapsed, at any age.
WaitingIsOffered ==
    \A o \in Orders, r \in Riders :
        []<>~(/\ Assignable(o) /\ asg[o] = "unassigned" /\ partner[o] = None
              /\ (o \in Waiting /\ EveryTurn) \/ lapsed[o]
              /\ Available(o, r) /\ asked[o][r] = 0)
=============================================================================
