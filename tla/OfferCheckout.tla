--------------------------- MODULE OfferCheckout ---------------------------
(***************************************************************************)
(* One customer's personal offers at one restaurant, and the checkouts     *)
(* that redeem them: the offer's life (personalOffer.service.js, the sweep *)
(* of activity.service.js), the cart it is put on (cart.service.js), the   *)
(* checkout that claims it, creates the order and marks it redeemed        *)
(* (order.service.js), all under an Idempotency-Key                        *)
(* (idempotency.service.js), and the cancellation that gives it back       *)
(* (kitchen.service.js).  Handlers run a step between two awaits and may   *)
(* die at any of them.                                                     *)
(*                                                                         *)
(* 'sent' stands for sent and delivered.  Prices, addresses and dishes     *)
(* only decide whether a checkout fails or an offer fits the cart.         *)
(*                                                                         *)
(* A definition X_Y is X with the seeded fault Y, used to see that a       *)
(* property can fail.                                                      *)
(***************************************************************************)
EXTENDS Naturals, FiniteSets

CONSTANTS
    Offers,      \* personal offers that may be sent
    Orders,      \* orders that may be created
    Keys,        \* Idempotency-Keys the customer's app makes up
    OfferTasks,  \* handlers in flight at the same time
    Nothing      \* no offer, no order, no key

\* No offer, order or key is the absent one.
NoneIsAbsent == Nothing \notin Offers \union Orders \union Keys
ASSUME NothingAssumption == NoneIsAbsent

VARIABLES
    offer,  \* the Discount documents
    late,   \* offers past their endDate
    order,  \* the orders: status, appliedDiscountId
    cart,   \* the customer's Cart
    key,    \* the IdempotencyKey documents
    told,   \* the orders a key's requests were answered with
    otask   \* handlers in flight

offerVars == <<offer, late, order, cart, key, told, otask>>

OpenStatuses == {"sent", "viewed", "applied"}
Offer == [status : OpenStatuses \union {"none", "redeemed", "revoked", "expired"}, open : BOOLEAN,
          count : 0..1, order : Orders \union {Nothing}]
Order == [status : {"none", "placed", "accepted", "cancelled"}, offer : Offers \union {Nothing}]
Key == [status : {"free", "pending", "done"}, result : Orders \union {Nothing}]
OfferPcs == {"idle", "read", "validate", "claim", "create", "unclaim", "mark", "clear", "done", "fail",
        "empty", "takeoff", "apply", "applied", "unapply", "reopen", "expire"}

\* k: the key; o: the offer in hand; prior: the one it replaces; n: the order; stale: the cart's
\* items were changed since this handler read it, so that its save throws a VersionError.
OfferTask ==
    [pc : OfferPcs, k : Keys \union {Nothing}, o : Offers \union {Nothing},
     prior : Offers \union {Nothing}, n : Orders \union {Nothing}, stale : BOOLEAN]
OfferIdle ==
    [pc |-> "idle", k |-> Nothing, o |-> Nothing, prior |-> Nothing, n |-> Nothing, stale |-> FALSE]

OfferInit ==
    /\ offer = [o \in Offers |-> [status |-> "none", open |-> FALSE, count |-> 0, order |-> Nothing]]
    /\ late = {}
    /\ order = [n \in Orders |-> [status |-> "none", offer |-> Nothing]]
    /\ cart = [full |-> FALSE, offer |-> Nothing]
    /\ key = [k \in Keys |-> [status |-> "free", result |-> Nothing]]
    /\ told = [k \in Keys |-> {}]
    /\ otask = [t \in OfferTasks |-> OfferIdle]

-----------------------------------------------------------------------------
OfferAt(t, pc) == otask[t].pc = pc
OfferBecomes(t, v) == otask' = [otask EXCEPT ![t] = v]
OfferGoto(t, pc) == OfferBecomes(t, [otask[t] EXCEPT !.pc = pc])
OfferFinish(t) == OfferBecomes(t, OfferIdle)

\* The handlers that have read the cart and will write all of it.
HoldsCart(t) == otask[t].pc \in {"validate", "claim", "create", "mark", "clear", "empty"}
\* t goes on as v, having written the cart's items under the others.
BecomeAndOutdate(t, v) ==
    otask' = [u \in OfferTasks |-> IF u = t THEN v ELSE [otask[u] EXCEPT !.stale = @ \/ HoldsCart(u)]]

-----------------------------------------------------------------------------
(* The offer itself.                                                       *)

\* createOffer; one_open_personal_offer allows a single open one.
NoOpenOffer == \A o \in Offers : ~offer[o].open
SendOffer(o) ==
    /\ NoOpenOffer /\ offer[o].status = "none"
    /\ offer' = [offer EXCEPT ![o].status = "sent", ![o].open = TRUE]
    /\ UNCHANGED <<late, order, cart, key, told, otask>>

\* markOfferViewed
ViewOffer(o) ==
    /\ offer[o].status = "sent"
    /\ offer' = [offer EXCEPT ![o].status = "viewed"]
    /\ UNCHANGED <<late, order, cart, key, told, otask>>

\* Its endDate passes.
RunOut(o) ==
    /\ offer[o].status # "none" /\ o \notin late
    /\ late' = late \union {o}
    /\ UNCHANGED <<offer, order, cart, key, told, otask>>

\* revokeOffer and expirePersonalOffers: never one with a redemption in flight.
CloseOffer(o) ==
    /\ offer[o].open /\ offer[o].count = 0
    /\ \/ offer' = [offer EXCEPT ![o].status = "revoked", ![o].open = FALSE]
       \/ o \in late /\ offer' = [offer EXCEPT ![o].status = "expired", ![o].open = FALSE]
    /\ UNCHANGED <<late, order, cart, key, told, otask>>

-----------------------------------------------------------------------------
(* The cart.                                                               *)

\* addItem: a new line on the cart.
AddItem ==
    /\ cart' = [cart EXCEPT !.full = TRUE]
    /\ otask' = [u \in OfferTasks |-> [otask[u] EXCEPT !.stale = @ \/ HoldsCart(u)]]
    /\ UNCHANGED <<offer, late, order, key, told>>

\* clearCart and the last removeItem, then releaseAppliedOffer.
StartEmpty(t) ==
    /\ OfferAt(t, "idle") /\ cart.full
    /\ OfferBecomes(t, [OfferIdle EXCEPT !.pc = "empty", !.prior = cart.offer])
    /\ UNCHANGED <<offer, late, order, cart, key, told>>
EmptyCart(t) ==
    /\ OfferAt(t, "empty")
    /\ IF otask[t].stale
       THEN /\ OfferFinish(t)
            /\ UNCHANGED cart
       ELSE /\ cart' = [full |-> FALSE, offer |-> Nothing]
            /\ BecomeAndOutdate(t, [otask[t] EXCEPT !.pc = "unapply"])
    /\ UNCHANGED <<offer, late, order, key, told>>

\* removeOffer; applyPromo, which puts a public code in its place.
StartTakeOff(t) ==
    /\ OfferAt(t, "idle") /\ cart.offer # Nothing
    /\ OfferBecomes(t, [OfferIdle EXCEPT !.pc = "takeoff", !.prior = cart.offer])
    /\ UNCHANGED <<offer, late, order, cart, key, told>>
TakeOff(t) ==
    /\ OfferAt(t, "takeoff")
    /\ cart' = [cart EXCEPT !.offer = Nothing]
    /\ OfferGoto(t, "unapply")
    /\ UNCHANGED <<offer, late, order, key, told>>

\* validateDiscountForOrder, of a personal offer.
Expired(o) == offer[o].status \in {"none", "expired", "revoked"} \/ o \in late
AlreadyUsed(o) == offer[o].status = "redeemed" \/ offer[o].count >= 1

\* applyOffer: onto the cart, the one it replaces released, then marked applied.
StartApply(t, o) ==
    /\ OfferAt(t, "idle") /\ cart.full
    /\ ~Expired(o) /\ ~AlreadyUsed(o)
    /\ OfferBecomes(t, [OfferIdle EXCEPT
           !.pc = "apply", !.o = o, !.prior = IF cart.offer = o THEN Nothing ELSE cart.offer])
    /\ UNCHANGED <<offer, late, order, cart, key, told>>
ApplyOffer(t) ==
    /\ OfferAt(t, "apply")
    /\ cart' = [cart EXCEPT !.offer = otask[t].o]
    /\ OfferGoto(t, "unapply")
    /\ UNCHANGED <<offer, late, order, key, told>>
\* releaseAppliedOffer
UnapplyOffer(t) ==
    LET o == otask[t].prior IN
    /\ OfferAt(t, "unapply")
    /\ IF o # Nothing /\ offer[o].status = "applied"
       THEN offer' = [offer EXCEPT ![o].status = "viewed"]
       ELSE UNCHANGED offer
    /\ IF otask[t].o = Nothing THEN OfferFinish(t) ELSE OfferGoto(t, "applied")
    /\ UNCHANGED <<late, order, cart, key, told>>
MarkApplied(t) ==
    LET o == otask[t].o IN
    /\ OfferAt(t, "applied")
    /\ IF offer[o].open /\ offer[o].status \in OpenStatuses
       THEN offer' = [offer EXCEPT ![o].status = "applied"]
       ELSE UNCHANGED offer
    /\ OfferFinish(t)
    /\ UNCHANGED <<late, order, cart, key, told>>

-----------------------------------------------------------------------------
(* Checkout: createOrderFromCart in runOnce.                               *)

ClaimKey_Pending(t, k) ==
    /\ OfferAt(t, "idle") /\ key[k].status # "done"
    /\ key' = [key EXCEPT ![k].status = "pending"]
    /\ OfferBecomes(t, [OfferIdle EXCEPT !.pc = "read", !.k = k])
    /\ UNCHANGED <<offer, late, order, cart, told>>
\* The key is claimed by an insert; a repeat is told the first one's order, or to wait.
ClaimKey(t, k) ==
    /\ OfferAt(t, "idle") /\ key[k].status = "free"
    /\ key' = [key EXCEPT ![k].status = "pending"]
    /\ OfferBecomes(t, [OfferIdle EXCEPT !.pc = "read", !.k = k])
    /\ UNCHANGED <<offer, late, order, cart, told>>
Repeat(t, k) ==
    /\ OfferAt(t, "idle") /\ key[k].status = "done"
    /\ told' = [told EXCEPT ![k] = @ \union {key[k].result}]
    /\ UNCHANGED <<offer, late, order, cart, key, otask>>
\* A client that sends no key is not protected.
NoKey(t) ==
    /\ OfferAt(t, "idle") /\ cart.full
    /\ OfferBecomes(t, [OfferIdle EXCEPT !.pc = "read"])
    /\ UNCHANGED <<offer, late, order, cart, key, told>>

\* Throws: what is left to do is to drop the key's claim.
GiveUp(t) == IF otask[t].k = Nothing THEN OfferFinish(t) ELSE OfferGoto(t, "fail")

ReadCart(t) ==
    /\ OfferAt(t, "read")
    /\ IF cart.full THEN OfferBecomes(t, [otask[t] EXCEPT !.pc = "validate", !.o = cart.offer]) ELSE GiveUp(t)
    /\ UNCHANGED <<offer, late, order, cart, key, told>>

\* Menu, address and price checks may refuse; so does an offer used or run out meanwhile.  One
\* that does not fit this cart is left out of the order.
Validate(t) ==
    LET o == otask[t].o IN
    /\ OfferAt(t, "validate")
    /\ \/ GiveUp(t)
       \/ o = Nothing /\ OfferGoto(t, "create")
       \/ /\ o # Nothing /\ ~Expired(o) /\ ~AlreadyUsed(o)
          /\ \/ OfferGoto(t, "claim")
             \/ OfferBecomes(t, [otask[t] EXCEPT !.pc = "create", !.o = Nothing])
    /\ UNCHANGED <<offer, late, order, cart, key, told>>

ClaimPersonalOffer_Uncounted(t) ==
    LET o == otask[t].o IN
    /\ OfferAt(t, "claim")
    /\ IF offer[o].open /\ o \notin late
       THEN /\ offer' = [offer EXCEPT ![o].count = @ + 1]
            /\ OfferGoto(t, "create")
       ELSE /\ UNCHANGED offer
            /\ GiveUp(t)
    /\ UNCHANGED <<late, order, cart, key, told>>
\* claimPersonalOffer: one conditional increment.
ClaimPersonalOffer(t) ==
    LET o == otask[t].o IN
    /\ OfferAt(t, "claim")
    /\ IF offer[o].open /\ o \notin late /\ offer[o].count < 1
       THEN /\ offer' = [offer EXCEPT ![o].count = @ + 1]
            /\ OfferGoto(t, "create")
       ELSE /\ UNCHANGED offer
            /\ GiveUp(t)
    /\ UNCHANGED <<late, order, cart, key, told>>

\* Order.create may throw: the claim is given back (releaseClaim).
CreateOrder(t) ==
    /\ OfferAt(t, "create")
    /\ \/ \E n \in Orders :
            /\ order[n].status = "none"
            /\ order' = [order EXCEPT ![n] = [status |-> "placed", offer |-> otask[t].o]]
            /\ OfferBecomes(t, [otask[t] EXCEPT
                   !.pc = IF otask[t].o = Nothing THEN "clear" ELSE "mark", !.n = n])
       \/ /\ IF otask[t].o = Nothing THEN GiveUp(t) ELSE OfferGoto(t, "unclaim")
          /\ UNCHANGED order
    /\ UNCHANGED <<offer, late, cart, key, told>>
ReleaseClaim(t) ==
    LET o == otask[t].o IN
    /\ OfferAt(t, "unclaim")
    /\ offer' = [offer EXCEPT ![o].count = IF @ > 0 THEN @ - 1 ELSE @]
    /\ GiveUp(t)
    /\ UNCHANGED <<late, order, cart, key, told>>

MarkRedeemed(t) ==
    /\ OfferAt(t, "mark")
    /\ offer' = [offer EXCEPT ![otask[t].o] =
           [@ EXCEPT !.status = "redeemed", !.open = FALSE, !.order = otask[t].n]]
    /\ OfferGoto(t, "clear")
    /\ UNCHANGED <<late, order, cart, key, told>>

\* cart.save: a VersionError fails the checkout although its order stands.
ClearCart(t) ==
    /\ OfferAt(t, "clear")
    /\ IF otask[t].stale
       THEN /\ GiveUp(t)
            /\ UNCHANGED cart
       ELSE /\ cart' = [full |-> FALSE, offer |-> Nothing]
            /\ BecomeAndOutdate(t, IF otask[t].k = Nothing THEN OfferIdle ELSE [otask[t] EXCEPT !.pc = "done"])
    /\ UNCHANGED <<offer, late, order, key, told>>

\* The end of runOnce: the result is kept for repeats, or the claim is dropped.
Succeed(t) ==
    LET k == otask[t].k IN
    /\ OfferAt(t, "done")
    /\ key' = [key EXCEPT ![k] = [status |-> "done", result |-> otask[t].n]]
    /\ told' = [told EXCEPT ![k] = @ \union {otask[t].n}]
    /\ OfferFinish(t)
    /\ UNCHANGED <<offer, late, order, cart>>
Fail(t) ==
    LET k == otask[t].k IN
    /\ OfferAt(t, "fail")
    /\ key' = [key EXCEPT ![k].status = IF @ = "pending" THEN "free" ELSE @]
    /\ OfferFinish(t)
    /\ UNCHANGED <<offer, late, order, cart, told>>

\* The server stops under a handler.
Die(t) ==
    /\ ~OfferAt(t, "idle")
    /\ OfferFinish(t)
    /\ UNCHANGED <<offer, late, order, cart, key, told>>

-----------------------------------------------------------------------------
(* The order's cancellation.                                               *)

AcceptOrder(n) ==
    /\ order[n].status = "placed"
    /\ order' = [order EXCEPT ![n].status = "accepted"]
    /\ UNCHANGED <<offer, late, cart, key, told, otask>>

\* updateOrderStatus: before acceptance the offer is given back, after it stays redeemed.
CancelOrder(t, n) ==
    /\ OfferAt(t, "idle") /\ order[n].status \in {"placed", "accepted"}
    /\ order' = [order EXCEPT ![n].status = "cancelled"]
    /\ IF order[n].status = "placed" /\ order[n].offer # Nothing
       THEN OfferBecomes(t, [OfferIdle EXCEPT !.pc = "reopen", !.o = order[n].offer, !.n = n])
       ELSE UNCHANGED otask
    /\ UNCHANGED <<offer, late, cart, key, told>>

\* releaseOfferForCancelledOrder: reopened while it lasts and no newer one is open...
RedeemedBy(t) == offer[otask[t].o].order = otask[t].n /\ offer[otask[t].o].count > 0
GivenBack(t, status, open) ==
    offer' = [offer EXCEPT ![otask[t].o] =
                [status |-> status, open |-> open, count |-> @.count - 1, order |-> Nothing]]
ReopenOffer_AnyOrder(t) ==
    /\ OfferAt(t, "reopen")
    /\ IF offer[otask[t].o].count > 0 /\ otask[t].o \notin late
       THEN /\ GivenBack(t, "viewed", TRUE)
            /\ OfferFinish(t)
       ELSE /\ UNCHANGED offer
            /\ OfferGoto(t, "expire")
    /\ UNCHANGED <<late, order, cart, key, told>>
ReopenOffer(t) ==
    /\ OfferAt(t, "reopen")
    /\ IF RedeemedBy(t) /\ otask[t].o \notin late /\ NoOpenOffer
       THEN /\ GivenBack(t, "viewed", TRUE)
            /\ OfferFinish(t)
       ELSE /\ UNCHANGED offer
            /\ OfferGoto(t, "expire")
    /\ UNCHANGED <<late, order, cart, key, told>>
\* ...else expired.
ExpireGivenBack(t) ==
    /\ OfferAt(t, "expire")
    /\ IF RedeemedBy(t) THEN GivenBack(t, "expired", FALSE) ELSE UNCHANGED offer
    /\ OfferFinish(t)
    /\ UNCHANGED <<late, order, cart, key, told>>

-----------------------------------------------------------------------------
OfferStep(o) == SendOffer(o) \/ ViewOffer(o) \/ RunOut(o) \/ CloseOffer(o)
CartStep(t) ==
    \/ StartEmpty(t) \/ EmptyCart(t) \/ StartTakeOff(t) \/ TakeOff(t)
    \/ \E o \in Offers : StartApply(t, o)
    \/ ApplyOffer(t) \/ UnapplyOffer(t) \/ MarkApplied(t)
CheckoutStep(t) ==
    \/ \E k \in Keys : ClaimKey(t, k) \/ Repeat(t, k)
    \/ NoKey(t) \/ ReadCart(t) \/ Validate(t) \/ ClaimPersonalOffer(t)
    \/ CreateOrder(t) \/ ReleaseClaim(t) \/ MarkRedeemed(t) \/ ClearCart(t)
    \/ Succeed(t) \/ Fail(t) \/ Die(t)
CancelStep(t) ==
    \/ \E n \in Orders : CancelOrder(t, n)
    \/ ReopenOffer(t) \/ ExpireGivenBack(t)
OfferNext ==
    \/ \E o \in Offers : OfferStep(o)
    \/ AddItem
    \/ \E t \in OfferTasks : CartStep(t) \/ CheckoutStep(t) \/ CancelStep(t)
    \/ \E n \in Orders : AcceptOrder(n)

OfferSpec == OfferInit /\ [][OfferNext]_offerVars

-----------------------------------------------------------------------------
\* The variables have their types.
OfferTypeOK ==
    /\ offer \in [Offers -> Offer]
    /\ late \subseteq Offers
    /\ order \in [Orders -> Order]
    /\ cart \in [full : BOOLEAN, offer : Offers \union {Nothing}]
    /\ key \in [Keys -> Key]
    /\ told \in [Keys -> SUBSET Orders]
    /\ otask \in [OfferTasks -> OfferTask]

Carrying(o) == {n \in Orders : order[n].offer = o /\ order[n].status \in {"placed", "accepted"}}

\* However many devices check out at once, whatever is cancelled, revoked or dies, a personal
\* offer comes off at most one standing order (order.service.js's claim, releaseClaim and
\* personalOffer.service.js's release).
RedeemedOnce == \A o \in Offers : Cardinality(Carrying(o)) <= 1

\* The offer on a standing order is used up by that very order: a late cancellation of another,
\* the sweep or the owner never take it away from it.
OfferOfItsOrder ==
    \A o \in Offers : \A n \in Carrying(o) :
        /\ offer[o].count = 1
        /\ \/ offer[o].order = n /\ offer[o].status = "redeemed"
           \/ offer[o].order = Nothing /\ offer[o].open

\* All requests with one Idempotency-Key that are answered with an order are answered with the
\* same one (runOnce).
OneAnswerPerKey == \A k \in Keys : Cardinality(told[k]) <= 1
=============================================================================
