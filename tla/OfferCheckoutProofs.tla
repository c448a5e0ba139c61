------------------------ MODULE OfferCheckoutProofs ------------------------
(***************************************************************************)
(* Proofs about OfferCheckout, for any number of offers, orders, keys and  *)
(* handlers, whichever of them die.                                        *)
(*                                                                         *)
(* Inv, the inductive invariant: the types, what a handler's registers are *)
(* at each point (Knows), and for every offer and every key what is true   *)
(* of it together with the handlers that have it in hand.  OfferOK says    *)
(* that a claim is exclusive: while a checkout holds an offer its count is *)
(* 1, no other checkout holds it and no standing order carries it but the  *)
(* one just created.                                                       *)
(***************************************************************************)
EXTENDS OfferCheckout, FiniteSetTheorems, TLAPS

\* A checkout that has claimed o, and the order it has made.
Holds(v, o) == v.pc \in {"create", "unclaim", "mark"} /\ v.o = o
Made(v) == IF v.pc = "mark" THEN {v.n} ELSE {}

OfferOK(o) ==
    /\ \A t \in OfferTasks : Holds(otask[t], o) =>
        /\ offer[o].count = 1 /\ offer[o].open /\ offer[o].order = Nothing
        /\ \A u \in OfferTasks : Holds(otask[u], o) => u = t
        /\ Carrying(o) \subseteq Made(otask[t])
    /\ \A n \in Carrying(o) :
        /\ offer[o].count = 1
        /\ \/ offer[o].order = n /\ offer[o].status = "redeemed"
           \/ offer[o].order = Nothing /\ offer[o].open
        /\ \A m \in Carrying(o) : m = n
    /\ offer[o].order # Nothing =>
        /\ ~offer[o].open /\ offer[o].status = "redeemed" /\ offer[o].count = 1
        /\ Carrying(o) \subseteq {offer[o].order}
    /\ offer[o].status = "none" => ~offer[o].open /\ offer[o].count = 0 /\ offer[o].order = Nothing

KeyOK(k) ==
    /\ \A t \in OfferTasks : otask[t].k = k =>
        /\ key[k].status = "pending"
        /\ \A u \in OfferTasks : otask[u].k = k => u = t
    /\ told[k] = IF key[k].status = "done" THEN {key[k].result} ELSE {}
    /\ key[k].status = "done" => key[k].result \in Orders

\* What the registers v hold when the orders are ns.
Knows(v, ns) ==
    /\ v.pc \in {"claim", "unclaim", "mark", "apply", "applied", "reopen", "expire"} => v.o \in Offers
    /\ v.pc \in {"mark", "clear", "done", "reopen", "expire"} => v.n \in Orders
    /\ v.pc \in {"done", "fail"} => v.k \in Keys
    /\ v.pc \in {"reopen", "expire"} => ns[v.n].status = "cancelled"

Inv ==
    /\ OfferTypeOK
    /\ \A t \in OfferTasks : Knows(otask[t], order)
    /\ \A o \in Offers : OfferOK(o)
    /\ \A k \in Keys : KeyOK(k)

-----------------------------------------------------------------------------
(* The registers.                                                          *)

LEMMA IdleOK == OfferIdle \in OfferTask /\ OfferIdle.pc = "idle" /\ OfferIdle.k = Nothing
BY DEF OfferIdle, OfferTask, OfferPcs

\* Handler t goes on with the registers v; the others learn at most that they are outdated.
Advance(t, v) ==
    /\ otask' \in [OfferTasks -> OfferTask]
    /\ otask'[t] = v
    /\ \A u \in OfferTasks \ {t} : /\ otask'[u].pc = otask[u].pc /\ otask'[u].k = otask[u].k
                              /\ otask'[u].o = otask[u].o /\ otask'[u].n = otask[u].n

\* To be outdated changes nothing that matters here.
LEMMA OutdatedOK ==
    ASSUME otask \in [OfferTasks -> OfferTask], NEW u \in OfferTasks
    PROVE  LET w == [otask[u] EXCEPT !.stale = @ \/ HoldsCart(u)] IN
           /\ w \in OfferTask
           /\ w.pc = otask[u].pc /\ w.k = otask[u].k /\ w.o = otask[u].o /\ w.n = otask[u].n
<1> DEFINE b == otask[u].stale \/ HoldsCart(u)
<1>1. b \in BOOLEAN
  OBVIOUS
<1> HIDE DEF b
<1>2. LET w == [otask[u] EXCEPT !.stale = b] IN
      /\ w \in OfferTask
      /\ w.pc = otask[u].pc /\ w.k = otask[u].k /\ w.o = otask[u].o /\ w.n = otask[u].n
  BY <1>1 DEF OfferTask
<1> QED
  BY <1>2 DEF b

LEMMA BecomeOK ==
    ASSUME otask \in [OfferTasks -> OfferTask], NEW t \in OfferTasks, NEW v \in OfferTask,
           OfferBecomes(t, v) \/ BecomeAndOutdate(t, v)
    PROVE  Advance(t, v)
<1>1. CASE OfferBecomes(t, v)
  BY <1>1 DEF OfferBecomes, Advance
<1>2. CASE BecomeAndOutdate(t, v)
  BY <1>2, OutdatedOK DEF BecomeAndOutdate, Advance
<1> QED
  BY <1>1, <1>2

\* A handler goes to another point with its registers as they are.
LEMMA GotoOK ==
    ASSUME otask \in [OfferTasks -> OfferTask], NEW t \in OfferTasks, NEW pc \in OfferPcs
    PROVE  LET v == [otask[t] EXCEPT !.pc = pc] IN
           /\ v \in OfferTask /\ v.pc = pc
           /\ v.k = otask[t].k /\ v.o = otask[t].o /\ v.n = otask[t].n
BY DEF OfferTask

\* Before any offer is sent or order placed the invariant holds.
THEOREM InitInv == ASSUME NoneIsAbsent PROVE OfferInit => Inv
<1> SUFFICES ASSUME OfferInit PROVE Inv
  OBVIOUS
<1>1. OfferTypeOK
  BY IdleOK DEF OfferInit, OfferTypeOK, Offer, Order, Key, OpenStatuses
<1>2. \A t \in OfferTasks : Knows(otask[t], order)
  BY DEF OfferInit, Knows, OfferIdle
<1>3. ASSUME NEW o \in Offers PROVE OfferOK(o)
  BY DEF OfferInit, OfferOK, Holds, Carrying, OfferIdle
<1>4. ASSUME NEW k \in Keys PROVE KeyOK(k)
  BY DEF OfferInit, KeyOK, OfferIdle, NoneIsAbsent
<1> QED
  BY <1>1, <1>2, <1>3, <1>4 DEF Inv

-----------------------------------------------------------------------------
(* What a step need not prove again.                                       *)

\* No handler claims o.
NoClaim(o) ==
    \A u \in OfferTasks : Holds(otask'[u], o) => Holds(otask[u], o) /\ Made(otask'[u]) = Made(otask[u])

\* An offer is as it was, if no one claims it and no order takes it up.
LEMMA OfferStays ==
    ASSUME NEW o \in Offers, OfferOK(o), NoClaim(o), offer'[o] = offer[o],
           Carrying(o)' \subseteq Carrying(o)
    PROVE  OfferOK(o)'
<1>1. ASSUME NEW u \in OfferTasks, Holds(otask'[u], o)
      PROVE  /\ offer'[o].count = 1 /\ offer'[o].open /\ offer'[o].order = Nothing
             /\ \A w \in OfferTasks : Holds(otask'[w], o) => w = u
             /\ Carrying(o)' \subseteq Made(otask'[u])
  BY <1>1 DEF OfferOK, NoClaim
<1>2. ASSUME NEW n \in Carrying(o)'
      PROVE  /\ offer'[o].count = 1
             /\ \/ offer'[o].order = n /\ offer'[o].status = "redeemed"
                \/ offer'[o].order = Nothing /\ offer'[o].open
             /\ \A m \in Carrying(o)' : m = n
  BY <1>2 DEF OfferOK
<1>3. /\ offer'[o].order # Nothing =>
          /\ ~offer'[o].open /\ offer'[o].status = "redeemed" /\ offer'[o].count = 1
          /\ Carrying(o)' \subseteq {offer'[o].order}
      /\ offer'[o].status = "none" => ~offer'[o].open /\ offer'[o].count = 0 /\ offer'[o].order = Nothing
  BY DEF OfferOK
<1> QED
  BY <1>1, <1>2, <1>3 DEF OfferOK

\* The keys are as they were, if none is claimed.
LEMMA KeysStay ==
    ASSUME NoneIsAbsent, Inv, \A u \in OfferTasks : otask'[u].k \in {Nothing, otask[u].k}, UNCHANGED <<key, told>>
    PROVE  \A k \in Keys : KeyOK(k)'
<1> SUFFICES ASSUME NEW k \in Keys PROVE KeyOK(k)'
  OBVIOUS
<1>1. KeyOK(k) /\ k # Nothing
  BY DEF Inv, NoneIsAbsent
<1>2. \A u \in OfferTasks : otask'[u].k = k => otask[u].k = k
  BY <1>1
<1> QED
  BY <1>1, <1>2 DEF KeyOK

\* A cancelled order stays cancelled.
CancelledStays == \A n \in Orders : order[n].status = "cancelled" => order'[n].status = "cancelled"

LEMMA RegistersStay ==
    ASSUME Inv, NEW t \in OfferTasks, NEW v \in OfferTask, Advance(t, v), Knows(v, order'), CancelledStays
    PROVE  \A u \in OfferTasks : Knows(otask'[u], order')
BY DEF Inv, Advance, Knows, CancelledStays

\* Handler t goes on as v and claims no offer and no key.
Onward(t, v) ==
    /\ v \in OfferTask
    /\ Advance(t, v)
    /\ \A o \in Offers : Holds(v, o) => Holds(otask[t], o) /\ Made(v) = Made(otask[t])
    /\ v.k \in {Nothing, otask[t].k}

LEMMA OnwardOK ==
    ASSUME NEW t \in OfferTasks, NEW v, Onward(t, v)
    PROVE  (\A o \in Offers : NoClaim(o)) /\ \A u \in OfferTasks : otask'[u].k \in {Nothing, otask[u].k}
BY DEF Onward, Advance, NoClaim, Holds, Made

\* A step of handler t that changes neither offers nor orders nor keys.
LEMMA QuietOK ==
    ASSUME NoneIsAbsent, Inv, OfferTypeOK', NEW t \in OfferTasks, NEW v, Onward(t, v), Knows(v, order),
           UNCHANGED <<offer, order, key, told>>
    PROVE  Inv'
<1>1. \A o \in Offers : OfferOK(o)'
  BY OfferStays, OnwardOK DEF Inv, Carrying
<1>2. \A k \in Keys : KeyOK(k)'
  BY KeysStay, OnwardOK
<1>3. \A u \in OfferTasks : Knows(otask'[u], order')
  BY RegistersStay DEF CancelledStays, Onward
<1> QED
  BY <1>1, <1>2, <1>3 DEF Inv

\* A step of handler t that changes neither offers nor orders nor keys.
LEMMA OnlyMovesOK ==
    ASSUME NoneIsAbsent, Inv, NEW t \in OfferTasks, NEW v, Onward(t, v), Knows(v, order),
           UNCHANGED <<offer, late, order, cart, key, told>>
    PROVE  Inv'
<1>1. OfferTypeOK'
  BY DEF Onward, Advance, Inv, OfferTypeOK
<1> QED
  BY <1>1, QuietOK

\* A step that moves its handler on and writes one offer.
LEMMA OfferWrittenOK ==
    ASSUME NoneIsAbsent, Inv, OfferTypeOK', NEW t \in OfferTasks, NEW v, Onward(t, v), Knows(v, order),
           UNCHANGED <<order, key, told>>, NEW o \in Offers, NEW w, offer' = [offer EXCEPT ![o] = w],
           OfferOK(o)'
    PROVE  Inv'
<1>1. \A p \in Offers : p # o => offer'[p] = offer[p]
  BY DEF Inv, OfferTypeOK
<1>2. \A p \in Offers : OfferOK(p)'
  BY <1>1, OfferStays, OnwardOK DEF Inv, Carrying
<1>3. \A k \in Keys : KeyOK(k)'
  BY KeysStay, OnwardOK
<1>4. \A u \in OfferTasks : Knows(otask'[u], order')
  BY RegistersStay DEF CancelledStays, Onward
<1> QED
  BY <1>2, <1>3, <1>4 DEF Inv

-----------------------------------------------------------------------------
(* The offer's steps: no handler moves.                                    *)

\* Nothing but an offer changes, which nobody has claimed.
LEMMA OfferAloneOK ==
    ASSUME NoneIsAbsent, Inv, NEW o \in Offers, NEW w \in Offer, offer' = [offer EXCEPT ![o] = w],
           late' \subseteq Offers, UNCHANGED <<order, cart, key, told, otask>>, OfferOK(o)'
    PROVE  Inv'
<1>1. \A p \in Offers : p # o => offer'[p] = offer[p]
  BY DEF Inv, OfferTypeOK
<1>2. \A p \in Offers : OfferOK(p)'
  BY <1>1, OfferStays DEF Inv, Carrying, NoClaim
<1>3. \A k \in Keys : KeyOK(k)'
  BY DEF Inv, KeyOK
<1> QED
  BY <1>2, <1>3 DEF Inv, OfferTypeOK

\* An offer nobody has claimed or carries stays so whatever becomes of it.
LEMMA UnclaimedOK ==
    ASSUME NEW o \in Offers, OfferOK(o), offer[o].count = 0, UNCHANGED <<order, otask>>,
           offer'[o].count = 0, offer'[o].order = offer[o].order, offer'[o].status # "none"
    PROVE  OfferOK(o)'
BY DEF OfferOK, Carrying

LEMMA SendOfferOK == ASSUME NoneIsAbsent, Inv, NEW o \in Offers, SendOffer(o) PROVE Inv'
<1> DEFINE w == [offer[o] EXCEPT !.status = "sent", !.open = TRUE]
<1>1. offer \in [Offers -> Offer] /\ OfferOK(o)
  BY DEF Inv, OfferTypeOK
<1>2. w \in Offer /\ w.count = offer[o].count /\ w.order = offer[o].order /\ w.status # "none"
  BY <1>1 DEF Offer, OpenStatuses
<1>3. offer[o].count = 0
  BY <1>1 DEF SendOffer, OfferOK
<1>4. offer' = [offer EXCEPT ![o] = w]
  BY DEF SendOffer
<1> HIDE DEF w
<1>5. OfferOK(o)'
  BY <1>1, <1>2, <1>3, <1>4, UnclaimedOK DEF SendOffer
<1> QED
  BY <1>2, <1>4, <1>5, OfferAloneOK DEF SendOffer, Inv, OfferTypeOK

LEMMA CloseOfferOK == ASSUME NoneIsAbsent, Inv, NEW o \in Offers, CloseOffer(o) PROVE Inv'
<1> DEFINE w(status) == [offer[o] EXCEPT !.status = status, !.open = FALSE]
<1>1. offer \in [Offers -> Offer] /\ OfferOK(o)
  BY DEF Inv, OfferTypeOK
<1>2. PICK status \in {"revoked", "expired"} : offer' = [offer EXCEPT ![o] = w(status)]
  BY DEF CloseOffer
<1>3. /\ w(status) \in Offer /\ w(status).status # "none"
      /\ w(status).count = offer[o].count /\ w(status).order = offer[o].order
  BY <1>1 DEF Offer, OpenStatuses
<1> HIDE DEF w
<1>4. OfferOK(o)'
  BY <1>1, <1>2, <1>3, UnclaimedOK DEF CloseOffer
<1> QED
  BY <1>2, <1>3, <1>4, OfferAloneOK DEF CloseOffer, Inv, OfferTypeOK

\* An open offer's status moves among the open ones.
LEMMA StatusMovesOK ==
    ASSUME NEW o \in Offers, offer \in [Offers -> Offer], OfferOK(o), NEW status \in OpenStatuses,
           offer[o].status \in OpenStatuses, offer' = [offer EXCEPT ![o].status = status],
           UNCHANGED order, NoClaim(o)
    PROVE  OfferOK(o)' /\ [offer[o] EXCEPT !.status = status] \in Offer
<1>1. /\ offer'[o].status = status /\ offer'[o].count = offer[o].count
      /\ offer'[o].open = offer[o].open /\ offer'[o].order = offer[o].order
      /\ [offer[o] EXCEPT !.status = status] \in Offer
  BY DEF Offer
<1>2. status \notin {"none", "redeemed"} /\ offer[o].status \notin {"none", "redeemed"}
  BY DEF OpenStatuses
<1>3. ASSUME NEW u \in OfferTasks, Holds(otask'[u], o)
      PROVE  /\ offer'[o].count = 1 /\ offer'[o].open /\ offer'[o].order = Nothing
             /\ \A w \in OfferTasks : Holds(otask'[w], o) => w = u
             /\ Carrying(o)' \subseteq Made(otask'[u])
  BY <1>1, <1>3 DEF OfferOK, NoClaim, Carrying
<1>4. ASSUME NEW n \in Carrying(o)
      PROVE  /\ offer'[o].count = 1
             /\ offer'[o].order = Nothing /\ offer'[o].open
             /\ \A m \in Carrying(o) : m = n
  BY <1>1, <1>2, <1>4 DEF OfferOK
<1>5. offer'[o].order = Nothing /\ offer'[o].status # "none" /\ Carrying(o)' = Carrying(o)
  BY <1>1, <1>2 DEF OfferOK, Carrying
<1> QED
  BY <1>1, <1>3, <1>4, <1>5 DEF OfferOK

LEMMA ViewOfferOK == ASSUME NoneIsAbsent, Inv, NEW o \in Offers, ViewOffer(o) PROVE Inv'
<1>1. offer \in [Offers -> Offer] /\ OfferOK(o) /\ NoClaim(o)
  BY DEF Inv, OfferTypeOK, NoClaim, ViewOffer
<1>2. offer' = [offer EXCEPT ![o] = [offer[o] EXCEPT !.status = "viewed"]]
  BY DEF ViewOffer
<1>3. OfferOK(o)' /\ [offer[o] EXCEPT !.status = "viewed"] \in Offer
  BY <1>1, StatusMovesOK DEF ViewOffer, OpenStatuses
<1> QED
  BY <1>2, <1>3, OfferAloneOK DEF ViewOffer, Inv, OfferTypeOK

LEMMA RunOutOK == ASSUME NoneIsAbsent, Inv, NEW o \in Offers, RunOut(o) PROVE Inv'
<1>1. OfferTypeOK' /\ UNCHANGED <<offer, order, key, told, otask>>
  BY DEF RunOut, Inv, OfferTypeOK
<1>2. \A p \in Offers : OfferOK(p)'
  BY <1>1, OfferStays DEF Inv, Carrying, NoClaim
<1>3. \A k \in Keys : KeyOK(k)'
  BY <1>1 DEF Inv, KeyOK
<1> QED
  BY <1>1, <1>2, <1>3 DEF Inv

-----------------------------------------------------------------------------
(* The cart's steps.                                                       *)

\* The registers v are of no checkout.
OffCheckout(v) == v \in OfferTask /\ v.k = Nothing /\ v.pc \notin {"create", "unclaim", "mark"}

LEMMA OffCheckoutOK ==
    ASSUME Inv, NEW t \in OfferTasks, NEW v, OffCheckout(v), OfferBecomes(t, v) \/ BecomeAndOutdate(t, v)
    PROVE  Onward(t, v)
BY BecomeOK DEF OffCheckout, Onward, Holds, Inv, OfferTypeOK

\* A handler that finishes.
LEMMA FinishOK ==
    ASSUME Inv, NEW t \in OfferTasks, OfferFinish(t)
    PROVE  Onward(t, OfferIdle) /\ Knows(OfferIdle, order) /\ Knows(OfferIdle, order') /\ otask' \in [OfferTasks -> OfferTask]
BY IdleOK, OffCheckoutOK DEF OfferFinish, OffCheckout, Knows, Onward, Advance

\* A handler goes on with its registers as they are, to a point that holds no claim.
LEMMA ToOK ==
    ASSUME Inv, NEW t \in OfferTasks, NEW pc \in OfferPcs, OfferGoto(t, pc), pc \notin {"create", "unclaim", "mark"}
    PROVE  LET v == [otask[t] EXCEPT !.pc = pc] IN
           /\ Onward(t, v) /\ otask' \in [OfferTasks -> OfferTask]
           /\ v.pc = pc /\ v.k = otask[t].k /\ v.o = otask[t].o /\ v.n = otask[t].n
BY GotoOK, BecomeOK DEF OfferGoto, Onward, Advance, Holds, Inv, OfferTypeOK

\* The same to a point that needs an offer in hand.
LEMMA ToWithOfferOK ==
    ASSUME Inv, NEW t \in OfferTasks, NEW pc \in {"claim", "applied"}, OfferGoto(t, pc), otask[t].o \in Offers
    PROVE  \E v : Onward(t, v) /\ Knows(v, order) /\ otask' \in [OfferTasks -> OfferTask]
<1> DEFINE v == [otask[t] EXCEPT !.pc = pc]
<1>1. pc \in OfferPcs /\ pc \notin {"create", "unclaim", "mark"}
  BY DEF OfferPcs
<1>2. /\ Onward(t, v) /\ otask' \in [OfferTasks -> OfferTask]
      /\ v.pc = pc /\ v.o = otask[t].o
  BY <1>1, ToOK
<1> HIDE DEF v
<1>3. Knows(v, order)
  BY <1>2 DEF Knows
<1> QED
  BY <1>2, <1>3

LEMMA AddItemOK == ASSUME NoneIsAbsent, Inv, AddItem PROVE Inv'
<1>1. /\ otask' \in [OfferTasks -> OfferTask]
      /\ \A u \in OfferTasks : /\ otask'[u].pc = otask[u].pc /\ otask'[u].k = otask[u].k
                          /\ otask'[u].o = otask[u].o /\ otask'[u].n = otask[u].n
  BY OutdatedOK DEF AddItem, Inv, OfferTypeOK
<1>2. UNCHANGED <<offer, late, order, key, told>>
  BY DEF AddItem
<1>3. cart' \in [full : BOOLEAN, offer : Offers \union {Nothing}]
  BY DEF AddItem, Inv, OfferTypeOK
<1>4. \A o \in Offers : OfferOK(o)'
  BY <1>1, <1>2, OfferStays DEF Inv, Carrying, NoClaim, Holds, Made
<1>5. \A k \in Keys : KeyOK(k)'
  BY <1>1, <1>2, KeysStay
<1>6. \A u \in OfferTasks : Knows(otask'[u], order')
  BY <1>1, <1>2 DEF Inv, Knows
<1> QED
  BY <1>1, <1>2, <1>3, <1>4, <1>5, <1>6 DEF Inv, OfferTypeOK

LEMMA StartEmptyOK == ASSUME NoneIsAbsent, Inv, NEW t \in OfferTasks, StartEmpty(t) PROVE Inv'
<1> DEFINE v == [OfferIdle EXCEPT !.pc = "empty", !.prior = cart.offer]
<1>1. OffCheckout(v) /\ v.pc = "empty"
  BY IdleOK DEF Inv, OfferTypeOK, OfferTask, OfferPcs, OfferIdle, OffCheckout
<1>2. Onward(t, v) /\ Knows(v, order) /\ UNCHANGED <<offer, late, order, cart, key, told>>
  BY <1>1, OffCheckoutOK DEF StartEmpty, Knows
<1> HIDE DEF v
<1> QED
  BY <1>2, OnlyMovesOK

LEMMA EmptyCartOK == ASSUME NoneIsAbsent, Inv, NEW t \in OfferTasks, EmptyCart(t) PROVE Inv'
<1> DEFINE v == [otask[t] EXCEPT !.pc = "unapply"]
<1>1. CASE OfferFinish(t) /\ UNCHANGED <<offer, late, order, cart, key, told>>
  BY <1>1, FinishOK, OnlyMovesOK
<1>2. CASE ~otask[t].stale
  <2>1. /\ cart' \in [full : BOOLEAN, offer : Offers \union {Nothing}]
        /\ BecomeAndOutdate(t, v) /\ UNCHANGED <<offer, late, order, key, told>>
    <3>1. cart' = [full |-> FALSE, offer |-> Nothing]
      BY <1>2, Zenon DEF EmptyCart
    <3>2. BecomeAndOutdate(t, v) /\ UNCHANGED <<offer, late, order, key, told>>
      BY <1>2, Zenon DEF EmptyCart
    <3> QED
      BY <3>1, <3>2
  <2>2. v \in OfferTask /\ v.pc = "unapply" /\ v.k = otask[t].k
    BY GotoOK DEF Inv, OfferTypeOK, OfferPcs
  <2>3. Onward(t, v) /\ Knows(v, order)
    BY <2>1, <2>2, BecomeOK DEF Onward, Holds, Knows, Inv, OfferTypeOK
  <2> QED
    BY <2>1, <2>3, QuietOK DEF Onward, Advance, Inv, OfferTypeOK
<1> QED
  BY <1>1, <1>2 DEF EmptyCart

LEMMA StartTakeOffOK == ASSUME NoneIsAbsent, Inv, NEW t \in OfferTasks, StartTakeOff(t) PROVE Inv'
<1> DEFINE v == [OfferIdle EXCEPT !.pc = "takeoff", !.prior = cart.offer]
<1>1. OffCheckout(v) /\ v.pc = "takeoff"
  BY IdleOK DEF Inv, OfferTypeOK, OfferTask, OfferPcs, OfferIdle, OffCheckout
<1>2. Onward(t, v) /\ Knows(v, order) /\ UNCHANGED <<offer, late, order, cart, key, told>>
  BY <1>1, OffCheckoutOK DEF StartTakeOff, Knows
<1> HIDE DEF v
<1> QED
  BY <1>2, OnlyMovesOK

LEMMA TakeOffOK == ASSUME NoneIsAbsent, Inv, NEW t \in OfferTasks, TakeOff(t) \/ ApplyOffer(t) PROVE Inv'
<1> DEFINE v == [otask[t] EXCEPT !.pc = "unapply"]
<1>1. OfferGoto(t, "unapply") /\ UNCHANGED <<offer, late, order, key, told>>
  BY DEF TakeOff, ApplyOffer
<1>2. cart' \in [full : BOOLEAN, offer : Offers \union {Nothing}]
  BY DEF TakeOff, ApplyOffer, Inv, OfferTypeOK, OfferTask
<1>3. Onward(t, v) /\ v.pc = "unapply" /\ otask' \in [OfferTasks -> OfferTask]
  BY <1>1, ToOK DEF OfferPcs
<1>4. Knows(v, order)
  BY <1>3 DEF Knows
<1> QED
  BY <1>1, <1>2, <1>3, <1>4, QuietOK DEF Inv, OfferTypeOK

LEMMA StartApplyOK == ASSUME NoneIsAbsent, Inv, NEW t \in OfferTasks, NEW o \in Offers, StartApply(t, o) PROVE Inv'
<1> DEFINE v == [OfferIdle EXCEPT !.pc = "apply", !.o = o, !.prior = IF cart.offer = o THEN Nothing ELSE cart.offer]
<1>1. OffCheckout(v) /\ v.pc = "apply" /\ v.o = o
  BY IdleOK DEF Inv, OfferTypeOK, OfferTask, OfferPcs, OfferIdle, OffCheckout
<1>2. Onward(t, v) /\ Knows(v, order) /\ UNCHANGED <<offer, late, order, cart, key, told>>
  BY <1>1, OffCheckoutOK DEF StartApply, Knows
<1> HIDE DEF v
<1> QED
  BY <1>2, OnlyMovesOK

\* An offer's status moves among the open ones, as its handler goes on.
LEMMA StatusStepOK ==
    ASSUME NoneIsAbsent, Inv, NEW t \in OfferTasks, NEW v, Onward(t, v), Knows(v, order), NEW o \in Offers,
           NEW status \in OpenStatuses, offer[o].status \in OpenStatuses,
           offer' = [offer EXCEPT ![o].status = status], UNCHANGED <<late, order, cart, key, told>>
    PROVE  Inv'
<1> DEFINE w == [offer[o] EXCEPT !.status = status]
<1>1. OfferOK(o)' /\ w \in Offer
  BY StatusMovesOK, OnwardOK DEF Inv, OfferTypeOK
<1>2. offer' = [offer EXCEPT ![o] = w]
  OBVIOUS
<1> HIDE DEF w
<1>3. OfferTypeOK'
  BY <1>1, <1>2 DEF Inv, OfferTypeOK, Onward, Advance
<1> QED
  BY <1>1, <1>2, <1>3, OfferWrittenOK

LEMMA UnapplyOfferOK == ASSUME NoneIsAbsent, Inv, NEW t \in OfferTasks, UnapplyOffer(t) PROVE Inv'
<1> DEFINE o == otask[t].prior
<1>1. otask[t] \in OfferTask /\ UNCHANGED <<late, order, cart, key, told>>
  BY DEF Inv, OfferTypeOK, UnapplyOffer
<1>2. PICK v : Onward(t, v) /\ Knows(v, order) /\ otask' \in [OfferTasks -> OfferTask]
  <2>1. CASE OfferFinish(t)
    BY <2>1, FinishOK
  <2>2. CASE otask[t].o # Nothing /\ OfferGoto(t, "applied")
    <3>1. otask[t].o \in Offers
      BY <1>1, <2>2 DEF OfferTask
    <3> QED
      BY <2>2, <3>1, ToWithOfferOK
  <2> QED
    BY <2>1, <2>2 DEF UnapplyOffer
<1>3. CASE o # Nothing /\ offer[o].status = "applied"
  <2>1. o \in Offers
    BY <1>1, <1>3 DEF OfferTask
  <2>2. offer' = [offer EXCEPT ![o].status = "viewed"]
    BY <1>3 DEF UnapplyOffer
  <2> QED
    BY <1>1, <1>2, <1>3, <2>1, <2>2, StatusStepOK DEF OpenStatuses
<1>4. CASE UNCHANGED offer
  BY <1>1, <1>2, <1>4, OnlyMovesOK
<1> QED
  BY <1>3, <1>4 DEF UnapplyOffer

LEMMA MarkAppliedOK == ASSUME NoneIsAbsent, Inv, NEW t \in OfferTasks, MarkApplied(t) PROVE Inv'
<1> DEFINE o == otask[t].o
<1>1. o \in Offers /\ UNCHANGED <<late, order, cart, key, told>>
  BY DEF Inv, Knows, MarkApplied, OfferAt
<1>2. Onward(t, OfferIdle) /\ Knows(OfferIdle, order) /\ otask' \in [OfferTasks -> OfferTask]
  BY FinishOK DEF MarkApplied
<1>3. CASE offer[o].open /\ offer[o].status \in OpenStatuses
  <2>1. offer' = [offer EXCEPT ![o].status = "applied"]
    BY <1>3 DEF MarkApplied
  <2> QED
    BY <1>1, <1>2, <1>3, <2>1, StatusStepOK DEF OpenStatuses
<1>4. CASE UNCHANGED offer
  BY <1>1, <1>2, <1>4, OnlyMovesOK
<1> QED
  BY <1>3, <1>4 DEF MarkApplied

-----------------------------------------------------------------------------
(* The checkout's steps.                                                   *)

LEMMA GiveUpOK ==
    ASSUME Inv, NEW t \in OfferTasks, GiveUp(t)
    PROVE  \E v : Onward(t, v) /\ Knows(v, order) /\ v.pc \in {"idle", "fail"}
<1>1. CASE OfferFinish(t)
  BY <1>1, FinishOK, IdleOK
<1>2. CASE otask[t].k # Nothing /\ OfferGoto(t, "fail")
  <2> DEFINE v == [otask[t] EXCEPT !.pc = "fail"]
  <2>1. otask[t].k \in Keys
    BY <1>2 DEF Inv, OfferTypeOK, OfferTask
  <2>2. Onward(t, v) /\ v.pc = "fail" /\ v.k = otask[t].k
    <3>1. "fail" \in OfferPcs /\ "fail" \notin {"create", "unclaim", "mark"} /\ OfferGoto(t, "fail")
      BY <1>2 DEF OfferPcs
    <3> QED
      BY <3>1, ToOK
  <2>3. Knows(v, order)
    BY <2>1, <2>2 DEF Knows
  <2> QED
    BY <2>2, <2>3
<1> QED
  BY <1>1, <1>2 DEF GiveUp

LEMMA NoKeyOK == ASSUME NoneIsAbsent, Inv, NEW t \in OfferTasks, NoKey(t) PROVE Inv'
<1> DEFINE v == [OfferIdle EXCEPT !.pc = "read"]
<1>1. OffCheckout(v) /\ v.pc = "read"
  BY IdleOK DEF OfferTask, OfferPcs, OfferIdle, OffCheckout
<1> QED
  BY <1>1, OffCheckoutOK, OnlyMovesOK DEF NoKey, Knows

LEMMA ReadCartOK == ASSUME NoneIsAbsent, Inv, NEW t \in OfferTasks, ReadCart(t) PROVE Inv'
<1> DEFINE v == [otask[t] EXCEPT !.pc = "validate", !.o = cart.offer]
<1>1. UNCHANGED <<offer, late, order, cart, key, told>>
  BY DEF ReadCart
<1>2. CASE GiveUp(t)
  BY <1>1, <1>2, GiveUpOK, OnlyMovesOK
<1>3. CASE OfferBecomes(t, v)
  <2>1. v \in OfferTask /\ v.pc = "validate" /\ v.k = otask[t].k
    BY DEF Inv, OfferTypeOK, OfferTask, OfferPcs
  <2>2. Onward(t, v) /\ Knows(v, order)
    BY <1>3, <2>1, BecomeOK DEF Onward, Holds, Knows, Inv, OfferTypeOK
  <2> QED
    BY <1>1, <2>2, OnlyMovesOK
<1> QED
  BY <1>2, <1>3 DEF ReadCart

LEMMA ValidateOK == ASSUME NoneIsAbsent, Inv, NEW t \in OfferTasks, Validate(t) PROVE Inv'
<1> DEFINE v == [otask[t] EXCEPT !.pc = "create", !.o = Nothing]
<1>1. otask[t] \in OfferTask /\ UNCHANGED <<offer, late, order, cart, key, told>>
  BY DEF Validate, Inv, OfferTypeOK
<1>2. CASE GiveUp(t)
  BY <1>1, <1>2, GiveUpOK, OnlyMovesOK
<1>3. CASE OfferBecomes(t, v)
  <2>1. v \in OfferTask /\ v.pc = "create" /\ v.o = Nothing /\ v.k = otask[t].k
    BY <1>1 DEF OfferTask, OfferPcs
  <2>2. Onward(t, v) /\ Knows(v, order)
    BY <1>3, <2>1, BecomeOK DEF Onward, Holds, Knows, NoneIsAbsent, Inv, OfferTypeOK
  <2> QED
    BY <1>1, <2>2, OnlyMovesOK
<1>4. CASE otask[t].o = Nothing /\ OfferGoto(t, "create")
  <2>1. v = [otask[t] EXCEPT !.pc = "create"]
    BY <1>1, <1>4 DEF OfferTask
  <2> QED
    BY <1>3, <1>4, <2>1 DEF OfferGoto
<1>5. CASE otask[t].o # Nothing /\ OfferGoto(t, "claim")
  <2>1. otask[t].o \in Offers
    BY <1>1, <1>5 DEF OfferTask
  <2> QED
    BY <1>1, <1>5, <2>1, ToWithOfferOK, OnlyMovesOK
<1> QED
  BY <1>2, <1>3, <1>4, <1>5 DEF Validate

\* An offer with no redemption in flight is free to claim.
LEMMA FreeToClaim ==
    ASSUME NEW o \in Offers, OfferOK(o), offer[o].count # 1
    PROVE  offer[o].order = Nothing /\ Carrying(o) = {} /\ \A u \in OfferTasks : ~Holds(otask[u], o)
BY DEF OfferOK

LEMMA ClaimPersonalOfferOK ==
    ASSUME NoneIsAbsent, Inv, NEW t \in OfferTasks, ClaimPersonalOffer(t) PROVE Inv'
<1> PICK o \in Offers : o = otask[t].o
  BY DEF Inv, Knows, ClaimPersonalOffer, OfferAt
<1> DEFINE v == [otask[t] EXCEPT !.pc = "create"]
           w == [offer[o] EXCEPT !.count = offer[o].count + 1]
<1>1. offer[o] \in Offer /\ OfferOK(o) /\ UNCHANGED <<late, order, cart, key, told>>
  BY DEF Inv, OfferTypeOK, ClaimPersonalOffer
<1>2. CASE GiveUp(t) /\ UNCHANGED offer
  BY <1>1, <1>2, GiveUpOK, OnlyMovesOK
<1>3. CASE offer[o].open /\ offer[o].count < 1 /\ offer' = [offer EXCEPT ![o] = w] /\ OfferBecomes(t, v)
  <2>1. offer[o].count = 0
    BY <1>1, <1>3 DEF Offer
  <2>2. offer[o].order = Nothing /\ Carrying(o) = {} /\ \A u \in OfferTasks : ~Holds(otask[u], o)
    BY <1>1, <2>1, FreeToClaim
  <2>3. w \in Offer /\ w.count = 1 /\ w.open /\ w.order = Nothing /\ w.status = offer[o].status
    <3>1. offer[o] \in Offer /\ offer[o].open /\ offer[o].count = 0 /\ offer[o].order = Nothing
      BY <1>1, <1>3, <2>1, <2>2
    <3>2. offer[o].count + 1 \in 0..1 /\ offer[o].count + 1 = 1
      BY <3>1
    <3> QED
      BY <3>1, <3>2 DEF Offer
  <2>4. v \in OfferTask /\ v.pc = "create" /\ v.o = o /\ v.k = otask[t].k
    <3>1. "create" \in OfferPcs
      BY DEF OfferPcs
    <3>2. otask \in [OfferTasks -> OfferTask]
      BY DEF Inv, OfferTypeOK
    <3> QED
      BY <3>1, <3>2, GotoOK
  <2> HIDE DEF w, v
  <2>5. Advance(t, v)
    BY <1>3, <2>4, BecomeOK DEF Inv, OfferTypeOK
  <2>6. offer'[o] = w /\ \A p \in Offers : p # o => offer'[p] = offer[p]
    BY <1>1, <1>3 DEF Inv, OfferTypeOK
  <2>7. \A u \in OfferTasks : Holds(otask'[u], o) => u = t
    BY <2>2, <2>5 DEF Advance, Holds
  <2>8. offer[o].status # "none"
    BY <1>1, <1>3, <2>2 DEF OfferOK
  <2>9. OfferOK(o)'
    BY <1>1, <2>2, <2>3, <2>6, <2>7, <2>8 DEF OfferOK, Carrying
  <2>10. ASSUME NEW p \in Offers, p # o PROVE OfferOK(p)'
    <3>1. NoClaim(p)
      BY <2>4, <2>5, <2>10 DEF Advance, NoClaim, Holds, Made
    <3> QED
      BY <1>1, <2>6, <2>10, <3>1, OfferStays DEF Inv, Carrying
  <2>11. \A k \in Keys : KeyOK(k)'
    BY <1>1, <2>4, <2>5, KeysStay DEF Advance
  <2>12. \A u \in OfferTasks : Knows(otask'[u], order')
    BY <1>1, <2>4, <2>5, RegistersStay DEF Knows, CancelledStays
  <2>13. OfferTypeOK'
    BY <1>1, <1>3, <2>3, <2>5 DEF Inv, OfferTypeOK, Advance
  <2> QED
    BY <2>9, <2>10, <2>11, <2>12, <2>13 DEF Inv
<1> QED
  BY <1>2, <1>3 DEF ClaimPersonalOffer, OfferGoto

\* What is true of an offer that handler t holds.
LEMMA HolderKnows ==
    ASSUME NEW o \in Offers, OfferOK(o), NEW t \in OfferTasks, Holds(otask[t], o)
    PROVE  /\ offer[o].count = 1 /\ offer[o].open /\ offer[o].order = Nothing
           /\ \A u \in OfferTasks : Holds(otask[u], o) => u = t
           /\ Carrying(o) \subseteq Made(otask[t])
           /\ offer[o].status # "none"
BY DEF OfferOK

\* An order is made: for the offer its checkout holds, if it does.
LEMMA CreateOrderOK ==
    ASSUME NoneIsAbsent, Inv, NEW t \in OfferTasks, CreateOrder(t) PROVE Inv'
<1>1. otask[t] \in OfferTask /\ UNCHANGED <<offer, late, cart, key, told>> /\ otask[t].pc = "create"
  BY DEF Inv, OfferTypeOK, CreateOrder, OfferAt
<1>2. CASE GiveUp(t) /\ UNCHANGED order
  BY <1>1, <1>2, GiveUpOK, OnlyMovesOK
<1>3. CASE otask[t].o # Nothing /\ OfferGoto(t, "unclaim") /\ UNCHANGED order
  <2> DEFINE v == [otask[t] EXCEPT !.pc = "unclaim"]
  <2>1. v \in OfferTask /\ v.pc = "unclaim" /\ v.o = otask[t].o /\ v.k = otask[t].k /\ v.o \in Offers
    BY <1>1, <1>3 DEF OfferTask, OfferPcs
  <2>2. Onward(t, v) /\ Knows(v, order)
    BY <1>1, <1>3, <2>1, BecomeOK DEF Onward, Holds, Made, Knows, OfferGoto, Inv, OfferTypeOK
  <2> QED
    BY <1>1, <1>3, <2>2, OnlyMovesOK
<1>4. ASSUME NEW n \in Orders, order[n].status = "none",
             order' = [order EXCEPT ![n] = [status |-> "placed", offer |-> otask[t].o]],
             OfferBecomes(t, [otask[t] EXCEPT !.pc = IF otask[t].o = Nothing THEN "clear" ELSE "mark", !.n = n])
      PROVE  Inv'
  <2> DEFINE o == otask[t].o
             v == [otask[t] EXCEPT !.pc = IF otask[t].o = Nothing THEN "clear" ELSE "mark", !.n = n]
  <2>1. /\ v \in OfferTask /\ v.pc = (IF o = Nothing THEN "clear" ELSE "mark")
        /\ v.n = n /\ v.o = o /\ v.k = otask[t].k
    BY <1>1 DEF OfferTask, OfferPcs
  <2> HIDE DEF v
  <2>2. Advance(t, v)
    BY <1>4, <2>1, BecomeOK DEF v, Inv, OfferTypeOK
  <2>3. /\ [status |-> "placed", offer |-> o] \in Order /\ order \in [Orders -> Order]
        /\ order'[n] = [status |-> "placed", offer |-> o]
        /\ \A m \in Orders : m # n => order'[m] = order[m]
    BY <1>1, <1>4 DEF Inv, OfferTypeOK, Order, OfferTask
  <2>4. OfferTypeOK'
    BY <1>1, <1>4, <2>2, <2>3 DEF Inv, OfferTypeOK, Advance
  <2>5. Knows(v, order') /\ CancelledStays
    BY <1>1, <1>4, <2>1, <2>3 DEF Knows, CancelledStays, OfferTask
  <2>6. \A u \in OfferTasks : Knows(otask'[u], order')
    BY <2>1, <2>2, <2>5, RegistersStay
  <2>7. \A k \in Keys : KeyOK(k)'
    BY <1>1, <2>1, <2>2, KeysStay DEF Advance
  <2>8. ASSUME NEW p \in Offers, p # o PROVE OfferOK(p)'
    <3>1. NoClaim(p)
      BY <2>1, <2>2, <2>8 DEF Advance, NoClaim, Holds, Made
    <3>2. Carrying(p)' \subseteq Carrying(p)
      BY <2>3, <2>8 DEF Carrying
    <3> QED
      BY <1>1, <3>1, <3>2, OfferStays DEF Inv
  <2>9. ASSUME NEW p \in Offers, p = o PROVE OfferOK(p)'
    <3>1. OfferOK(p) /\ Holds(otask[t], p) /\ p # Nothing /\ offer'[p] = offer[p]
      BY <1>1, <2>9 DEF Inv, Holds, NoneIsAbsent
    <3>2. /\ offer'[p].count = 1 /\ offer'[p].open /\ offer'[p].order = Nothing
          /\ \A u \in OfferTasks : Holds(otask[u], p) => u = t
          /\ Carrying(p) = {} /\ offer'[p].status # "none"
      BY <1>1, <3>1, HolderKnows DEF Made
    <3>3. Carrying(p)' = {n}
      BY <2>3, <2>9, <3>2 DEF Carrying
    <3>4. Made(otask'[t]) = {n}
      BY <2>1, <2>2, <2>9, <3>1 DEF Made, Advance
    <3>5. \A u \in OfferTasks : Holds(otask'[u], p) => u = t
      BY <2>2, <3>2 DEF Advance, Holds
    <3> QED
      BY <3>2, <3>3, <3>4, <3>5 DEF OfferOK
  <2> QED
    BY <2>4, <2>6, <2>7, <2>8, <2>9 DEF Inv
<1> QED
  BY <1>2, <1>3, <1>4 DEF CreateOrder

LEMMA ReleaseClaimOK ==
    ASSUME NoneIsAbsent, Inv, NEW t \in OfferTasks, ReleaseClaim(t) PROVE Inv'
<1> PICK o \in Offers : o = otask[t].o
  BY DEF Inv, Knows, ReleaseClaim, OfferAt
<1> DEFINE w == [offer[o] EXCEPT !.count = IF @ > 0 THEN @ - 1 ELSE @]
<1>1. /\ offer \in [Offers -> Offer] /\ OfferOK(o) /\ Holds(otask[t], o) /\ Made(otask[t]) = {}
      /\ UNCHANGED <<late, order, cart, key, told>> /\ offer' = [offer EXCEPT ![o] = w]
  BY DEF Inv, OfferTypeOK, ReleaseClaim, Holds, Made, OfferAt
<1>2. /\ offer[o].count = 1 /\ offer[o].order = Nothing /\ Carrying(o) = {} /\ offer[o].status # "none"
      /\ \A u \in OfferTasks : Holds(otask[u], o) => u = t
  BY <1>1, HolderKnows
<1>3. w \in Offer /\ w.count = 0 /\ w.order = Nothing /\ w.status # "none"
  BY <1>1, <1>2 DEF Offer
<1> HIDE DEF w
<1>4. PICK v : Onward(t, v) /\ Knows(v, order) /\ v.pc \in {"idle", "fail"}
  BY GiveUpOK DEF ReleaseClaim
<1>5. \A u \in OfferTasks : ~Holds(otask'[u], o)
  BY <1>2, <1>4 DEF Onward, Advance, Holds
<1>6. OfferOK(o)'
  BY <1>1, <1>2, <1>3, <1>5 DEF OfferOK, Carrying
<1>7. OfferTypeOK'
  BY <1>1, <1>3, <1>4 DEF Inv, OfferTypeOK, Onward, Advance
<1> QED
  BY <1>1, <1>4, <1>6, <1>7, OfferWrittenOK

LEMMA MarkRedeemedOK ==
    ASSUME NoneIsAbsent, Inv, NEW t \in OfferTasks, MarkRedeemed(t) PROVE Inv'
<1> PICK o \in Offers, n \in Orders : o = otask[t].o /\ n = otask[t].n
  BY DEF Inv, Knows, MarkRedeemed, OfferAt
<1> DEFINE w == [offer[o] EXCEPT !.status = "redeemed", !.open = FALSE, !.order = n]
           v == [otask[t] EXCEPT !.pc = "clear"]
<1>1. /\ offer \in [Offers -> Offer] /\ OfferOK(o) /\ Holds(otask[t], o) /\ Made(otask[t]) = {n}
      /\ UNCHANGED <<late, order, cart, key, told>> /\ offer' = [offer EXCEPT ![o] = w]
      /\ OfferGoto(t, "clear")
  BY DEF Inv, OfferTypeOK, MarkRedeemed, Holds, Made, OfferAt
<1>2. /\ offer[o].count = 1 /\ Carrying(o) \subseteq {n}
      /\ \A u \in OfferTasks : Holds(otask[u], o) => u = t
  BY <1>1, HolderKnows
<1>3. w \in Offer /\ w.count = 1 /\ w.order = n /\ w.status = "redeemed" /\ ~w.open
  <2>1. offer[o] \in Offer /\ offer[o].count = 1
    BY <1>1, <1>2
  <2> QED
    BY <2>1 DEF Offer
<1>4. Onward(t, v) /\ v.pc = "clear" /\ v.n = n
  <2>1. "clear" \in OfferPcs /\ "clear" \notin {"create", "unclaim", "mark"}
    BY DEF OfferPcs
  <2> QED
    BY <1>1, <2>1, ToOK
<1> HIDE DEF w, v
<1>5. Knows(v, order)
  BY <1>4 DEF Knows
<1>6. \A u \in OfferTasks : ~Holds(otask'[u], o)
  BY <1>2, <1>4 DEF Onward, Advance, Holds
<1>7. OfferOK(o)'
  <2>1. offer'[o] = w /\ Carrying(o)' \subseteq {n}
    BY <1>1, <1>2 DEF Carrying
  <2> QED
    BY <1>3, <1>6, <2>1 DEF OfferOK
<1>8. OfferTypeOK'
  BY <1>1, <1>3, <1>4 DEF Inv, OfferTypeOK, Onward, Advance
<1> QED
  BY <1>1, <1>4, <1>5, <1>7, <1>8, OfferWrittenOK

LEMMA ClearCartOK ==
    ASSUME NoneIsAbsent, Inv, NEW t \in OfferTasks, ClearCart(t) PROVE Inv'
<1> DEFINE v == IF otask[t].k = Nothing THEN OfferIdle ELSE [otask[t] EXCEPT !.pc = "done"]
<1>1. otask[t] \in OfferTask /\ UNCHANGED <<offer, late, order, key, told>> /\ otask[t].n \in Orders
  BY DEF Inv, OfferTypeOK, ClearCart, Knows, OfferAt
<1>2. CASE GiveUp(t) /\ UNCHANGED cart
  BY <1>1, <1>2, GiveUpOK, OnlyMovesOK
<1>3. CASE cart' = [full |-> FALSE, offer |-> Nothing] /\ BecomeAndOutdate(t, v)
  <2>1. v \in OfferTask /\ v.k = otask[t].k /\ Knows(v, order) /\ v.pc \in {"idle", "done"}
    <3>1. CASE otask[t].k = Nothing
      BY <3>1, IdleOK DEF Knows
    <3>2. CASE otask[t].k # Nothing
      BY <1>1, <3>2 DEF Knows, OfferTask, OfferPcs
    <3> QED
      BY <3>1, <3>2
  <2> HIDE DEF v
  <2>2. Onward(t, v)
    BY <1>3, <2>1, BecomeOK DEF Onward, Holds, Inv, OfferTypeOK
  <2>3. OfferTypeOK'
    BY <1>1, <1>3, <2>2 DEF Inv, OfferTypeOK, Onward, Advance
  <2> QED
    BY <1>1, <2>1, <2>2, <2>3, QuietOK
<1> QED
  BY <1>2, <1>3, Zenon DEF ClearCart

LEMMA DieOK == ASSUME NoneIsAbsent, Inv, NEW t \in OfferTasks, Die(t) PROVE Inv'
BY FinishOK, OnlyMovesOK DEF Die

-----------------------------------------------------------------------------
(* The key's steps.                                                        *)

\* A step that writes a key: the offers do not change.
LEMMA KeyWrittenOK ==
    ASSUME NoneIsAbsent, Inv, OfferTypeOK', NEW t \in OfferTasks, NEW v \in OfferTask, Advance(t, v),
           v.pc \notin {"create", "unclaim", "mark"}, Knows(v, order), UNCHANGED <<offer, order>>,
           \A k \in Keys : KeyOK(k)'
    PROVE  Inv'
<1>1. \A o \in Offers : NoClaim(o)
  BY DEF NoClaim, Advance, Holds, Made
<1>2. \A o \in Offers : OfferOK(o)'
  BY <1>1, OfferStays DEF Inv, Carrying
<1>3. \A u \in OfferTasks : Knows(otask'[u], order')
  BY RegistersStay DEF CancelledStays
<1> QED
  BY <1>2, <1>3 DEF Inv

LEMMA ClaimKeyOK ==
    ASSUME NoneIsAbsent, Inv, NEW t \in OfferTasks, NEW k \in Keys, ClaimKey(t, k) PROVE Inv'
<1> DEFINE v == [OfferIdle EXCEPT !.pc = "read", !.k = k]
           w == [key[k] EXCEPT !.status = "pending"]
<1>1. v \in OfferTask /\ v.pc = "read" /\ v.k = k /\ OfferBecomes(t, v)
  BY IdleOK DEF OfferIdle, OfferTask, OfferPcs, ClaimKey
<1>2. /\ key \in [Keys -> Key] /\ key[k].status = "free" /\ key' = [key EXCEPT ![k] = w]
      /\ UNCHANGED <<offer, late, order, cart, told>>
  BY DEF Inv, OfferTypeOK, ClaimKey
<1>3. w \in Key /\ w.status = "pending"
  BY <1>2 DEF Key
<1> HIDE DEF v, w
<1>4. Advance(t, v) /\ Knows(v, order)
  BY <1>1, BecomeOK DEF Inv, OfferTypeOK, Knows
<1>5. OfferTypeOK'
  BY <1>2, <1>3, <1>4 DEF Inv, OfferTypeOK, Advance
<1>6. ASSUME NEW j \in Keys, j # k PROVE KeyOK(j)'
  <2>1. KeyOK(j) /\ key'[j] = key[j] /\ told'[j] = told[j]
    BY <1>2, <1>6 DEF Inv
  <2>2. \A u \in OfferTasks : otask'[u].k = j => otask[u].k = j
    BY <1>1, <1>4, <1>6 DEF Advance
  <2> QED
    BY <2>1, <2>2 DEF KeyOK
<1>7. KeyOK(k)'
  <2>1. KeyOK(k) /\ key'[k] = w /\ told'[k] = told[k]
    BY <1>2 DEF Inv
  <2>2. \A u \in OfferTasks : otask'[u].k = k => u = t
    BY <1>2, <1>4, <2>1 DEF Advance, KeyOK
  <2> QED
    BY <1>2, <1>3, <2>1, <2>2 DEF KeyOK
<1> QED
  BY <1>1, <1>2, <1>4, <1>5, <1>6, <1>7, KeyWrittenOK

LEMMA StutterOK == ASSUME Inv, UNCHANGED offerVars PROVE Inv'
<1>1. \A o \in Offers : OfferOK(o)'
  BY OfferStays DEF offerVars, Inv, Carrying, NoClaim
<1>2. \A k \in Keys : KeyOK(k)'
  BY DEF offerVars, Inv, KeyOK
<1> QED
  BY <1>1, <1>2 DEF offerVars, Inv, OfferTypeOK

LEMMA RepeatOK ==
    ASSUME NoneIsAbsent, Inv, NEW t \in OfferTasks, NEW k \in Keys, Repeat(t, k) PROVE Inv'
<1>1. KeyOK(k) /\ told' = [told EXCEPT ![k] = told[k] \union {key[k].result}] /\ key[k].status = "done"
  BY DEF Inv, Repeat
<1>2. told[k] = {key[k].result}
  BY <1>1 DEF KeyOK
<1>3. UNCHANGED offerVars
  BY <1>1, <1>2 DEF Inv, OfferTypeOK, Repeat, offerVars
<1> QED
  BY <1>3, StutterOK

LEMMA SucceedOK ==
    ASSUME NoneIsAbsent, Inv, NEW t \in OfferTasks, Succeed(t) PROVE Inv'
<1> PICK k \in Keys, n \in Orders : k = otask[t].k /\ n = otask[t].n
  BY DEF Inv, Knows, Succeed, OfferAt
<1> DEFINE w == [status |-> "done", result |-> n]
<1>1. /\ key \in [Keys -> Key] /\ key' = [key EXCEPT ![k] = w]
      /\ told \in [Keys -> SUBSET Orders] /\ told' = [told EXCEPT ![k] = told[k] \union {n}]
      /\ UNCHANGED <<offer, late, order, cart>> /\ w \in Key
  BY DEF Inv, OfferTypeOK, Succeed, Key
<1>2. Advance(t, OfferIdle) /\ Knows(OfferIdle, order)
  BY FinishOK DEF Succeed, Onward
<1>3. OfferTypeOK'
  BY <1>1, <1>2 DEF Inv, OfferTypeOK, Advance
<1>4. /\ KeyOK(k) /\ key[k].status = "pending" /\ told[k] = {}
      /\ \A u \in OfferTasks : otask[u].k = k => u = t
  BY DEF Inv, KeyOK
<1>5. \A u \in OfferTasks : otask'[u].k # k
  BY <1>2, <1>4, IdleOK DEF Advance, NoneIsAbsent
<1>6. key'[k] = w /\ told'[k] = {n} /\ w.status = "done" /\ w.result = n
  BY <1>1, <1>4
<1>7. KeyOK(k)'
  BY <1>5, <1>6 DEF KeyOK
<1>8. ASSUME NEW j \in Keys, j # k PROVE KeyOK(j)'
  <2>1. KeyOK(j) /\ key'[j] = key[j] /\ told'[j] = told[j]
    BY <1>1, <1>8 DEF Inv
  <2>2. \A u \in OfferTasks : otask'[u].k = j => otask[u].k = j
    BY <1>2, IdleOK DEF Advance, NoneIsAbsent
  <2> QED
    BY <2>1, <2>2 DEF KeyOK
<1> QED
  BY <1>1, <1>2, <1>3, <1>7, <1>8, IdleOK, KeyWrittenOK

LEMMA FailOK ==
    ASSUME NoneIsAbsent, Inv, NEW t \in OfferTasks, Fail(t) PROVE Inv'
<1> PICK k \in Keys : k = otask[t].k
  BY DEF Inv, Knows, Fail, OfferAt
<1> DEFINE w == [key[k] EXCEPT !.status = "free"]
<1>1. /\ KeyOK(k) /\ key[k].status = "pending" /\ told[k] = {}
      /\ \A u \in OfferTasks : otask[u].k = k => u = t
  BY DEF Inv, KeyOK
<1>2. /\ key \in [Keys -> Key] /\ key' = [key EXCEPT ![k] = w]
      /\ UNCHANGED <<offer, late, order, cart, told>>
  BY <1>1 DEF Inv, OfferTypeOK, Fail
<1>3. w \in Key /\ w.status = "free"
  BY <1>2 DEF Key
<1> HIDE DEF w
<1>4. Advance(t, OfferIdle) /\ Knows(OfferIdle, order)
  BY FinishOK DEF Fail, Onward
<1>5. OfferTypeOK'
  BY <1>2, <1>3, <1>4 DEF Inv, OfferTypeOK, Advance
<1>6. \A u \in OfferTasks : otask'[u].k # k
  BY <1>1, <1>4, IdleOK DEF Advance, NoneIsAbsent
<1>7. KeyOK(k)'
  BY <1>1, <1>2, <1>3, <1>6 DEF KeyOK
<1>8. ASSUME NEW j \in Keys, j # k PROVE KeyOK(j)'
  <2>1. KeyOK(j) /\ key'[j] = key[j] /\ told'[j] = told[j]
    BY <1>2, <1>8 DEF Inv
  <2>2. \A u \in OfferTasks : otask'[u].k = j => otask[u].k = j
    BY <1>4, IdleOK DEF Advance, NoneIsAbsent
  <2> QED
    BY <2>1, <2>2 DEF KeyOK
<1> QED
  BY <1>2, <1>4, <1>5, <1>7, <1>8, IdleOK, KeyWrittenOK

-----------------------------------------------------------------------------
(* The order's steps.                                                      *)

\* An order's status moves; the offer on it stays.
LEMMA OrderMovesOK ==
    ASSUME NEW n \in Orders, order \in [Orders -> Order], order[n].status \in {"placed", "accepted"},
           NEW status \in {"accepted", "cancelled"}, order' = [order EXCEPT ![n].status = status]
    PROVE  /\ order' \in [Orders -> Order] /\ CancelledStays
           /\ order'[n].status = status
           /\ \A o \in Offers : Carrying(o)' \subseteq Carrying(o)
<1>1. /\ [order[n] EXCEPT !.status = status] \in Order
      /\ order'[n].status = status /\ order'[n].offer = order[n].offer
      /\ \A m \in Orders : m # n => order'[m] = order[m]
  BY DEF Order
<1>2. order' \in [Orders -> Order]
  BY <1>1
<1>3. CancelledStays
  BY <1>1 DEF CancelledStays
<1>4. ASSUME NEW o \in Offers, NEW m \in Carrying(o)' PROVE m \in Carrying(o)
  BY <1>1, <1>4 DEF Carrying
<1> QED
  BY <1>1, <1>2, <1>3, <1>4

LEMMA AcceptOK == ASSUME NoneIsAbsent, Inv, NEW n \in Orders, AcceptOrder(n) PROVE Inv'
<1>1. /\ order' \in [Orders -> Order] /\ CancelledStays
      /\ \A o \in Offers : Carrying(o)' \subseteq Carrying(o)
  BY OrderMovesOK DEF AcceptOrder, Inv, OfferTypeOK
<1>2. UNCHANGED <<offer, late, cart, key, told, otask>>
  BY DEF AcceptOrder
<1>3. \A o \in Offers : OfferOK(o)'
  BY <1>1, <1>2, OfferStays DEF Inv, NoClaim
<1>4. \A k \in Keys : KeyOK(k)'
  BY <1>2 DEF Inv, KeyOK
<1>5. \A u \in OfferTasks : Knows(otask'[u], order')
  BY <1>1, <1>2 DEF Inv, Knows, CancelledStays
<1> QED
  BY <1>1, <1>2, <1>3, <1>4, <1>5 DEF Inv, OfferTypeOK

LEMMA CancelOrderOK ==
    ASSUME NoneIsAbsent, Inv, NEW t \in OfferTasks, NEW n \in Orders, CancelOrder(t, n) PROVE Inv'
<1> DEFINE v == [OfferIdle EXCEPT !.pc = "reopen", !.o = order[n].offer, !.n = n]
<1>1. /\ order' \in [Orders -> Order] /\ CancelledStays /\ order'[n].status = "cancelled"
      /\ \A o \in Offers : Carrying(o)' \subseteq Carrying(o)
  BY OrderMovesOK DEF CancelOrder, Inv, OfferTypeOK
<1>2. UNCHANGED <<offer, late, cart, key, told>>
  BY DEF CancelOrder
<1>3. CASE order[n].offer # Nothing /\ OfferBecomes(t, v)
  <2>1. v \in OfferTask /\ v.pc = "reopen" /\ v.n = n /\ v.o \in Offers /\ v.k = Nothing
    BY <1>3, IdleOK DEF Inv, OfferTypeOK, Order, OfferIdle, OfferTask, OfferPcs
  <2>2. Knows(v, order')
    BY <1>1, <2>1 DEF Knows
  <2>3. Onward(t, v)
    BY <1>3, <2>1, OffCheckoutOK DEF OffCheckout
  <2>4. \A o \in Offers : OfferOK(o)'
    BY <1>1, <1>2, <2>3, OnwardOK, OfferStays DEF Inv
  <2>5. \A k \in Keys : KeyOK(k)'
    BY <1>2, <2>3, OnwardOK, KeysStay
  <2>6. \A u \in OfferTasks : Knows(otask'[u], order')
    BY <1>1, <2>2, <2>3, RegistersStay DEF Onward
  <2> QED
    BY <1>1, <1>2, <2>3, <2>4, <2>5, <2>6 DEF Inv, OfferTypeOK, Onward, Advance
<1>4. CASE UNCHANGED otask
  <2>1. \A o \in Offers : OfferOK(o)'
    BY <1>1, <1>2, <1>4, OfferStays DEF Inv, NoClaim
  <2>2. \A k \in Keys : KeyOK(k)'
    BY <1>2, <1>4 DEF Inv, KeyOK
  <2>3. \A u \in OfferTasks : Knows(otask'[u], order')
    BY <1>1, <1>4 DEF Inv, Knows, CancelledStays
  <2> QED
    BY <1>1, <1>2, <1>4, <2>1, <2>2, <2>3 DEF Inv, OfferTypeOK
<1> QED
  BY <1>3, <1>4 DEF CancelOrder

\* The offer of a cancelled order is given back: no standing order carries it.
LEMMA GivenBackOK ==
    ASSUME NoneIsAbsent, Inv, NEW t \in OfferTasks, otask[t].pc \in {"reopen", "expire"}, RedeemedBy(t),
           NEW status \in {"viewed", "expired"}, NEW open \in BOOLEAN, GivenBack(t, status, open),
           OfferFinish(t), UNCHANGED <<late, order, cart, key, told>>
    PROVE  Inv'
<1> PICK o \in Offers, n \in Orders : o = otask[t].o /\ n = otask[t].n /\ order[n].status = "cancelled"
  BY DEF Inv, Knows
<1> DEFINE w == [status |-> status, open |-> open, count |-> offer[o].count - 1, order |-> Nothing]
<1>1. /\ offer \in [Offers -> Offer] /\ OfferOK(o) /\ offer[o].order = n /\ n # Nothing
      /\ offer' = [offer EXCEPT ![o] = w]
  BY DEF Inv, OfferTypeOK, GivenBack, RedeemedBy, NoneIsAbsent
<1>2. /\ offer[o].count = 1 /\ Carrying(o) \subseteq {n}
      /\ \A u \in OfferTasks : ~Holds(otask[u], o)
  BY <1>1 DEF OfferOK
<1>3. Carrying(o) = {}
  BY <1>2 DEF Carrying
<1>4. w \in Offer /\ w.count = 0 /\ w.order = Nothing /\ w.status # "none"
  BY <1>2 DEF Offer, OpenStatuses
<1> HIDE DEF w
<1>5. Onward(t, OfferIdle) /\ Knows(OfferIdle, order)
  BY FinishOK
<1>6. \A u \in OfferTasks : ~Holds(otask'[u], o)
  BY <1>2, <1>5, OnwardOK DEF NoClaim
<1>7. OfferOK(o)'
  BY <1>1, <1>3, <1>4, <1>6 DEF OfferOK, Carrying
<1>8. OfferTypeOK'
  BY <1>1, <1>4, <1>5 DEF Inv, OfferTypeOK, Onward, Advance
<1> QED
  BY <1>1, <1>5, <1>7, <1>8, OfferWrittenOK

LEMMA ReopenOfferOK ==
    ASSUME NoneIsAbsent, Inv, NEW t \in OfferTasks, ReopenOffer(t) \/ ExpireGivenBack(t) PROVE Inv'
<1>1. otask[t].pc \in {"reopen", "expire"} /\ UNCHANGED <<late, order, cart, key, told>>
  BY DEF ReopenOffer, ExpireGivenBack, OfferAt
<1>2. ASSUME NEW status \in {"viewed", "expired"}, NEW open \in BOOLEAN, RedeemedBy(t),
             GivenBack(t, status, open), OfferFinish(t)
      PROVE  Inv'
  BY <1>1, <1>2, GivenBackOK
<1>3. CASE UNCHANGED offer /\ OfferFinish(t)
  BY <1>1, <1>3, FinishOK, OnlyMovesOK
<1>4. CASE UNCHANGED offer /\ OfferGoto(t, "expire") /\ OfferAt(t, "reopen")
  <2> DEFINE v == [otask[t] EXCEPT !.pc = "expire"]
  <2>1. "expire" \in OfferPcs /\ "expire" \notin {"create", "unclaim", "mark"}
    BY DEF OfferPcs
  <2>2. Onward(t, v) /\ v.pc = "expire" /\ v.o = otask[t].o /\ v.n = otask[t].n
    BY <1>4, <2>1, ToOK
  <2>3. Knows(v, order)
    BY <1>1, <2>2 DEF Inv, Knows
  <2> QED
    BY <1>1, <1>4, <2>2, <2>3, OnlyMovesOK
<1> QED
  BY <1>2, <1>3, <1>4 DEF ReopenOffer, ExpireGivenBack

\* Every step of a customer, a checkout, a cancellation or the sweep keeps the invariant.
THEOREM StepInv == ASSUME NoneIsAbsent PROVE Inv /\ [OfferNext]_offerVars => Inv'
<1> SUFFICES ASSUME Inv, [OfferNext]_offerVars PROVE Inv'
  OBVIOUS
<1>1. ASSUME NEW o \in Offers, OfferStep(o) PROVE Inv'
  BY <1>1, SendOfferOK, ViewOfferOK, RunOutOK, CloseOfferOK DEF OfferStep
<1>2. ASSUME NEW t \in OfferTasks, CartStep(t) PROVE Inv'
  BY <1>2, StartEmptyOK, EmptyCartOK, StartTakeOffOK, TakeOffOK, StartApplyOK, UnapplyOfferOK, MarkAppliedOK
     DEF CartStep
<1>3. ASSUME NEW t \in OfferTasks, CheckoutStep(t) PROVE Inv'
  BY <1>3, ClaimKeyOK, RepeatOK, NoKeyOK, ReadCartOK, ValidateOK, ClaimPersonalOfferOK, CreateOrderOK,
     ReleaseClaimOK, MarkRedeemedOK, ClearCartOK, SucceedOK, FailOK, DieOK
     DEF CheckoutStep
<1>4. ASSUME NEW t \in OfferTasks, CancelStep(t) PROVE Inv'
  BY <1>4, CancelOrderOK, ReopenOfferOK DEF CancelStep
<1> QED
  BY <1>1, <1>2, <1>3, <1>4, AddItemOK, AcceptOK, StutterOK DEF OfferNext

-----------------------------------------------------------------------------
(* What follows.                                                           *)

LEMMA Invariance == ASSUME NoneIsAbsent PROVE OfferSpec => []Inv
<1>1. OfferInit => Inv
  BY InitInv
<1>2. Inv /\ [OfferNext]_offerVars => Inv'
  BY StepInv
<1> QED
  BY <1>1, <1>2, PTL DEF OfferSpec

\* The variables keep their types.
THEOREM TypeCorrect == OfferSpec => []OfferTypeOK
<1>. USE NothingAssumption
<1>1. Inv => OfferTypeOK
  BY DEF Inv
<1> QED
  BY <1>1, Invariance, PTL

LEMMA AtMostOne ==
    ASSUME NEW S, \A x \in S : \A y \in S : x = y
    PROVE  Cardinality(S) <= 1
<1>1. CASE S = {}
  BY <1>1, FS_EmptySet
<1>2. ASSUME NEW x \in S PROVE Cardinality(S) <= 1
  <2>1. S = {x}
    OBVIOUS
  <2> QED
    BY <2>1, FS_Singleton
<1> QED
  BY <1>1, <1>2

\* A personal offer comes off at most one standing order.
THEOREM Once == OfferSpec => []RedeemedOnce
<1>. USE NothingAssumption
<1>1. Inv => RedeemedOnce
  BY AtMostOne DEF Inv, OfferOK, RedeemedOnce
<1> QED
  BY <1>1, Invariance, PTL

\* Nobody takes the offer of a standing order away from it.
THEOREM OfOneOrder == OfferSpec => []OfferOfItsOrder
<1>. USE NothingAssumption
<1>1. Inv => OfferOfItsOrder
  BY DEF Inv, OfferOK, OfferOfItsOrder
<1> QED
  BY <1>1, Invariance, PTL

\* A key's requests are all answered with the same order.
THEOREM SameAnswer == OfferSpec => []OneAnswerPerKey
<1>. USE NothingAssumption
<1>1. Inv => OneAnswerPerKey
  <2> SUFFICES ASSUME Inv, NEW k \in Keys PROVE Cardinality(told[k]) <= 1
    BY DEF OneAnswerPerKey
  <2>1. told[k] = {} \/ told[k] = {key[k].result}
    BY DEF Inv, KeyOK
  <2> QED
    BY <2>1, AtMostOne
<1> QED
  BY <1>1, Invariance, PTL
=============================================================================
