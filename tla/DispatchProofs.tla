--------------------------- MODULE DispatchProofs ---------------------------
(***************************************************************************)
(* Proofs about Dispatch, for any number of orders, riders and handlers    *)
(* and any limits.                                                         *)
(*                                                                         *)
(* Inv, the inductive invariant, holds whatever administrators do: the     *)
(* types, the registers a handler relies on (Knows), and the exclusion of  *)
(* handover and cancellation, which rests on the order a handler is about  *)
(* to save as delivered being delivered already.  Delivered is final.      *)
(*                                                                         *)
(* Sound extends it while administrators leave the riders' orders alone:   *)
(* an order has one rider at a time, and a cancelled one is out of every   *)
(* rider's hands once its release has run.  Of a cancelled order that is   *)
(* still on offer, or still held, it names the handler that will take it   *)
(* back: one that has not read the order yet, or has read exactly the      *)
(* offer and the holder there are now, because nothing but that handler    *)
(* changes them any more.                                                  *)
(*                                                                         *)
(* With one handler at a time two more, both about several orders and one  *)
(* rider.  OffersOK: a rider a search is about to ask has no live offer.   *)
(* BusyOK: an offer on the table is to a rider below the limit; a handler  *)
(* that counts or is about to write a rider's status has counted what is   *)
(* there; and a rider who is busy with nothing in hand is among those some *)
(* handler is about to free.                                               *)
(***************************************************************************)
EXTENDS Dispatch, FiniteSetTheorems, TLAPS

dataVars == <<status, asg, partner, code, offeredTo, lapsed, asked, rider, bills, counted>>

\* Every variable but the handlers' has its type.
DataOK ==
    /\ status \in [Orders -> Statuses]
    /\ asg \in [Orders -> Assignments]
    /\ partner \in [Orders -> MaybeRider]
    /\ code \in [Orders -> BOOLEAN]
    /\ offeredTo \in [Orders -> MaybeRider]
    /\ lapsed \in [Orders -> BOOLEAN]
    /\ asked \in [Orders -> [Riders -> 0..ReofferMax]]
    /\ rider \in [Riders -> RiderStatuses]
    /\ bills \in [Orders -> Nat]
    /\ counted \in [Orders -> BOOLEAN]

\* What a handler with the registers v knows when the orders' statuses are st: the order it
\* works on, the rider it acts for, and that the order it is about to save as delivered is.
Knows(v, st) ==
    /\ v.pc \notin {"idle", "duty"} => v.o \in Orders
    /\ v.pc \in {"offer", "accept", "handover"} => v.r \in Riders
    /\ v.pc = "kitchenSave" => st[v.o] = "delivered"

Inv ==
    /\ DataOK
    /\ task \in [Tasks -> Task]
    /\ \A t \in Tasks : Knows(task[t], status)
    /\ HandedOverIsNotCancelled

\* A delivered order stays delivered.
DeliveredIsFinal == \A o \in Orders : status[o] = "delivered" => status'[o] = "delivered"

-----------------------------------------------------------------------------
(* The registers.                                                          *)

\* A handler at rest.
LEMMA IdleOK == Idle \in Task /\ Idle.pc = "idle"
BY DEF Idle, Task, Pcs, MaybeRider

\* One handler moves on, the others stay.
LEMMA BecomeOK ==
    ASSUME task \in [Tasks -> Task], NEW t \in Tasks, NEW v \in Task, Become(t, v)
    PROVE  /\ task' \in [Tasks -> Task]
           /\ task'[t] = v
           /\ \A u \in Tasks : u # t => task'[u] = task[u]
BY DEF Become

\* The entries made in an order's history keep the type of asked.
LEMMA HistoryOK ==
    ASSUME DataOK, NEW o \in Orders, NEW r \in MaybeRider
    PROVE  /\ Ask(o, r) => asked' \in [Orders -> [Riders -> 0..ReofferMax]]
           /\ asked' = [asked EXCEPT ![o] = [@ EXCEPT ![r] = ReofferMax]]
              => asked' \in [Orders -> [Riders -> 0..ReofferMax]]
<1>1. asked \in [Orders -> [Riders -> 0..ReofferMax]] /\ asked[o] \in [Riders -> 0..ReofferMax]
  BY DEF DataOK
<1>2. ASSUME NEW n \in 0..ReofferMax
      PROVE  [asked EXCEPT ![o] = [asked[o] EXCEPT ![r] = n]] \in [Orders -> [Riders -> 0..ReofferMax]]
  BY <1>1, <1>2
<1>3. CASE r \in Riders
  <2>1. OneMore(asked[o][r]) \in 0..ReofferMax
    BY <1>1, <1>3, LimitsAssumption DEF OneMore
  <2>2. Ask(o, r) => asked' = [asked EXCEPT ![o] = [asked[o] EXCEPT ![r] = OneMore(asked[o][r])]]
    BY DEF Ask
  <2>3. ReofferMax \in 0..ReofferMax
    BY LimitsAssumption
  <2> QED
    BY <1>2, <2>1, <2>2, <2>3
<1>4. CASE r \notin Riders
  <2>1. \A n : [asked[o] EXCEPT ![r] = n] = asked[o]
    BY <1>1, <1>4
  <2> QED
    BY <1>1, <2>1 DEF Ask
<1> QED
  BY <1>3, <1>4

-----------------------------------------------------------------------------
(* Inv is inductive.                                                       *)

\* A step after which the moving handler knows what it should, and which keeps the types, a
\* delivered order delivered and a handed over one not cancelled, preserves Inv.
LEMMA StepOK ==
    ASSUME Inv, NEW t \in Tasks, NEW v \in Task, Become(t, v), Knows(v, status'),
           DataOK', DeliveredIsFinal, HandedOverIsNotCancelled'
    PROVE  Inv'
<1>1. /\ task' \in [Tasks -> Task] /\ task'[t] = v
      /\ \A u \in Tasks : u # t => task'[u] = task[u]
  BY BecomeOK DEF Inv
<1>2. \A u \in Tasks : Knows(task[u], status)'
  BY <1>1 DEF Inv, Knows, DeliveredIsFinal
<1> QED
  BY <1>1, <1>2 DEF Inv

\* A step that leaves everything but the handlers alone keeps the rest.
LEMMA Frozen ==
    ASSUME Inv, UNCHANGED dataVars
    PROVE  DataOK' /\ DeliveredIsFinal /\ HandedOverIsNotCancelled'
BY DEF Inv, dataVars, DataOK, DeliveredIsFinal, HandedOverIsNotCancelled

\* A handler starts: what it must know is what Begin gives it.
LEMMA BeginOK ==
    ASSUME Inv, NEW t \in Tasks, NEW pc \in Pcs, NEW o \in Orders \union {None},
           NEW r \in MaybeRider, NEW p \in MaybeRider,
           NEW saw \in Statuses \union Assignments \union RiderStatuses \union {"nothing"},
           Begin(t, pc, o, r, p, saw),
           pc # "duty" => o \in Orders, pc \in {"offer", "accept", "handover"} => r \in Riders,
           pc # "kitchenSave",
           DataOK', DeliveredIsFinal, HandedOverIsNotCancelled'
    PROVE  Inv'
<1> DEFINE v == [pc |-> pc, o |-> o, r |-> r, p |-> p, saw |-> saw, free |-> {}]
<1>1. v \in Task /\ v.pc = pc /\ v.o = o /\ v.r = r
  BY DEF Task
<1>2. Become(t, v)
  BY Zenon DEF Begin
<1> HIDE DEF v
<1> QED
  BY <1>1, <1>2, StepOK DEF Knows

\* A handler goes on or returns, with the data changed or not.
LEMMA GotoOK ==
    ASSUME Inv, NEW t \in Tasks, NEW pc \in Pcs, Goto(t, pc), task[t].pc \notin {"idle", "duty"},
           pc \notin {"offer", "accept", "handover", "kitchenSave"},
           DataOK', DeliveredIsFinal, HandedOverIsNotCancelled'
    PROVE  Inv'
<1> DEFINE v == [task[t] EXCEPT !.pc = pc]
<1>1. task[t] \in Task
  BY DEF Inv
<1>2. v \in Task /\ v.pc = pc /\ v.o = task[t].o
  BY <1>1, Zenon DEF Task
<1>3. Become(t, v)
  BY Zenon DEF Goto
<1> HIDE DEF v
<1>4. Knows(v, status')
  BY <1>2 DEF Inv, Knows
<1> QED
  BY <1>2, <1>3, <1>4, StepOK

LEMMA FinishOK ==
    ASSUME Inv, NEW t \in Tasks, Finish(t), DataOK', DeliveredIsFinal, HandedOverIsNotCancelled'
    PROVE  Inv'
<1>1. Knows(Idle, status')
  BY IdleOK DEF Knows
<1> QED
  BY <1>1, IdleOK, StepOK DEF Finish

\* Every step preserves Inv.
LEMMA NextInv ==
    ASSUME Inv, [Next]_vars
    PROVE  Inv'
<1>1. ASSUME NEW t \in Tasks, NEW o \in Orders, ExpireStale(t, o)
      PROVE  Inv'
  <2>1. Begin(t, "expire", o, offeredTo[o], None, "nothing") /\ UNCHANGED dataVars
    BY <1>1 DEF ExpireStale, dataVars, holdVars, offerVars, billVars
  <2> QED
    BY <1>1, <2>1, Frozen, BeginOK DEF Inv, DataOK, Pcs, MaybeRider
<1>2. ASSUME NEW t \in Tasks, NEW o \in Orders, SweepUnassigned(t, o)
      PROVE  Inv'
  <2>1. Begin(t, "search", o, None, None, "nothing") /\ UNCHANGED dataVars
    BY <1>2 DEF SweepUnassigned, dataVars, holdVars, offerVars, billVars
  <2> QED
    BY <1>2, <2>1, Frozen, BeginOK DEF Inv, DataOK, Pcs, MaybeRider
<1>3. ASSUME NEW t \in Tasks, NEW o \in Orders, NEW r \in Riders, AcceptOffer(t, o, r)
      PROVE  Inv'
  <2>1. Begin(t, "accept", o, r, None, "nothing") /\ UNCHANGED dataVars
    BY <1>3 DEF AcceptOffer, dataVars, holdVars, offerVars, billVars
  <2> QED
    BY <1>3, <2>1, Frozen, BeginOK DEF Inv, DataOK, Pcs, MaybeRider
<1>4. ASSUME NEW t \in Tasks, NEW o \in Orders, NEW r \in Riders, RejectOffer(t, o, r)
      PROVE  Inv'
  <2>1. Begin(t, "reject", o, r, None, "nothing") /\ UNCHANGED dataVars
    BY <1>4 DEF RejectOffer, dataVars, holdVars, offerVars, billVars
  <2> QED
    BY <1>4, <2>1, Frozen, BeginOK DEF Inv, DataOK, Pcs, MaybeRider
<1>5. ASSUME NEW t \in Tasks, NEW o \in Orders, NEW r \in Riders, VerifyPickup(t, o, r)
      PROVE  Inv'
  <2>1. Begin(t, "pickup", o, r, None, "nothing") /\ UNCHANGED dataVars
    BY <1>5 DEF VerifyPickup, dataVars, holdVars, offerVars, billVars
  <2> QED
    BY <1>5, <2>1, Frozen, BeginOK DEF Inv, DataOK, Pcs, MaybeRider
<1>6. ASSUME NEW t \in Tasks, NEW o \in Orders, NEW r \in Riders, DeliverOrder(t, o, r)
      PROVE  Inv'
  <2>1. Begin(t, "handover", o, r, None, "nothing") /\ UNCHANGED dataVars
    BY <1>6 DEF DeliverOrder, dataVars, holdVars, offerVars, billVars
  <2> QED
    BY <1>6, <2>1, Frozen, BeginOK DEF Inv, DataOK, Pcs, MaybeRider
<1>7. ASSUME NEW t \in Tasks, NEW o \in Orders, NEW r \in Riders, ReassignPartner(t, o, r)
      PROVE  Inv'
  <2>1. Begin(t, "reassign", o, r, partner[o], asg[o]) /\ UNCHANGED dataVars
    BY <1>7 DEF ReassignPartner, dataVars, holdVars, offerVars, billVars
  <2> QED
    BY <1>7, <2>1, Frozen, BeginOK DEF Inv, DataOK, Pcs, MaybeRider
<1>8. ASSUME NEW t \in Tasks, NEW o \in Orders, NEW b \in BOOLEAN, MarkDelivered(t, o, b)
      PROVE  Inv'
  <2>1. Begin(t, "kitchenClose", o, None, None, status[o]) /\ UNCHANGED dataVars
    BY <1>8 DEF MarkDelivered, dataVars, holdVars, offerVars, billVars
  <2> QED
    BY <1>8, <2>1, Frozen, BeginOK DEF Inv, DataOK, Pcs, MaybeRider
<1>9. ASSUME NEW t \in Tasks, NEW r \in Riders, ToggleDuty(t, r)
      PROVE  Inv'
  <2>1. Begin(t, "duty", None, r, None, rider[r]) /\ UNCHANGED dataVars
    BY <1>9 DEF ToggleDuty, dataVars, holdVars, offerVars, billVars
  <2> QED
    BY <1>9, <2>1, Frozen, BeginOK DEF Inv, DataOK, Pcs, MaybeRider
<1>10. ASSUME NEW t \in Tasks, NEW o \in Orders, AcceptOrder(t, o)
      PROVE  Inv'
  <2>1. DataOK' /\ DeliveredIsFinal /\ HandedOverIsNotCancelled'
    BY <1>10 DEF AcceptOrder, Inv, DataOK, Statuses, DeliveredIsFinal, HandedOverIsNotCancelled,
       holdVars, offerVars, billVars
  <2>2. Begin(t, "search", o, None, None, "nothing")
    BY <1>10 DEF AcceptOrder
  <2> QED
    BY <1>10, <2>1, <2>2, BeginOK DEF Pcs, MaybeRider
<1>11. ASSUME NEW t \in Tasks, NEW o \in Orders, NEW b \in BOOLEAN, Cancel(t, o, b)
      PROVE  Inv'
  <2>1. DataOK' /\ DeliveredIsFinal /\ HandedOverIsNotCancelled'
    BY <1>11 DEF Cancel, Inv, DataOK, Statuses, DeliveredIsFinal, HandedOverIsNotCancelled,
       holdVars, offerVars, billVars
  <2>2. Begin(t, "release", o, None, None, "nothing")
    BY <1>11 DEF Cancel
  <2> QED
    BY <1>11, <2>1, <2>2, BeginOK DEF Pcs, MaybeRider
<1>12. ASSUME NEW o \in Orders, Lapse(o)
      PROVE  Inv'
  BY <1>12 DEF Lapse, Live, Assignable, Inv, DataOK, Statuses, Knows, HandedOverIsNotCancelled,
     dataVars, holdVars, offerVars, billVars
<1>13. ASSUME NEW o \in Orders, SendOut(o)
      PROVE  Inv'
  BY <1>13 DEF SendOut, Live, Assignable, Inv, DataOK, Statuses, Knows, HandedOverIsNotCancelled,
     dataVars, holdVars, offerVars, billVars
<1>14. ASSUME NEW t \in Tasks, CountBusy(t)
      PROVE  Inv'
  <2>1. UNCHANGED dataVars /\ task[t].pc \notin {"idle", "duty"}
    BY <1>14 DEF CountBusy, At, dataVars, holdVars, offerVars, billVars
  <2>2. Goto(t, "setBusy") \/ Finish(t)
    BY <1>14 DEF CountBusy
  <2> QED
    BY <1>14, <2>1, <2>2, Frozen, GotoOK, FinishOK DEF Pcs
<1>15. ASSUME NEW t \in Tasks, Bill(t)
      PROVE  Inv'
  <2>1. UNCHANGED dataVars /\ task[t].pc \notin {"idle", "duty"}
    BY <1>15 DEF Bill, At, dataVars, holdVars, offerVars, billVars
  <2>2. Goto(t, "billWrite") \/ Goto(t, "count")
    BY <1>15 DEF Bill
  <2> QED
    BY <1>15, <2>1, <2>2, Frozen, GotoOK, FinishOK DEF Pcs
<1>16. ASSUME NEW t \in Tasks, Offer(t)
      PROVE  Inv'
  <2>1. task[t].o \in Orders /\ task[t].pc \notin {"idle", "duty"}
    BY <1>16 DEF Offer, At, Inv, Knows
  <2>2. task[t].r \in Riders
    BY <1>16 DEF Offer, At, Inv, Knows
  <2>3. DataOK' /\ DeliveredIsFinal /\ HandedOverIsNotCancelled'
    BY <1>16, <2>1, <2>2 DEF Offer, Inv, DataOK, DeliveredIsFinal, HandedOverIsNotCancelled,
       MaybeRider, holdVars, offerVars, billVars
  <2>4. Finish(t)
    BY <1>16 DEF Offer
  <2> QED
    BY <1>16, <2>1, <2>3, <2>4, GotoOK, FinishOK DEF Pcs
<1>17. ASSUME NEW t \in Tasks, Expire(t)
      PROVE  Inv'
  <2>1. task[t].o \in Orders /\ task[t].pc \notin {"idle", "duty"}
    BY <1>17 DEF Expire, At, Inv, Knows
  <2>2. asked' \in [Orders -> [Riders -> 0..ReofferMax]]
    BY <1>17, <2>1, HistoryOK DEF Expire, Inv, DataOK, Task, MaybeRider, holdVars, offerVars,
       billVars
  <2>3. DataOK' /\ DeliveredIsFinal /\ HandedOverIsNotCancelled'
    BY <1>17, <2>2, <2>1 DEF Expire, Inv, DataOK, DeliveredIsFinal, HandedOverIsNotCancelled,
       Clear, MaybeRider, holdVars, offerVars, billVars
  <2>4. Goto(t, "search") \/ Finish(t)
    BY <1>17 DEF Expire
  <2> QED
    BY <1>17, <2>1, <2>3, <2>4, GotoOK, FinishOK DEF Pcs
<1>18. ASSUME NEW t \in Tasks, Accept(t)
      PROVE  Inv'
  <2>1. task[t].o \in Orders /\ task[t].pc \notin {"idle", "duty"}
    BY <1>18 DEF Accept, At, Inv, Knows
  <2>2. asked' \in [Orders -> [Riders -> 0..ReofferMax]]
    BY <1>18, <2>1, HistoryOK DEF Accept, Inv, DataOK, Task, MaybeRider, holdVars, offerVars,
       billVars
  <2>3. DataOK' /\ DeliveredIsFinal /\ HandedOverIsNotCancelled'
    <3>1. DataOK'
      <4>1. task[t].r \in MaybeRider /\ task[t].o \in Orders /\ DataOK
        BY <2>1 DEF Inv, Task
      <4>2. /\ asg' \in [Orders -> Assignments] /\ partner' \in [Orders -> MaybeRider]
            /\ code' \in [Orders -> BOOLEAN]
        BY <1>18, <4>1 DEF Accept, DataOK, Assignments, holdVars
      <4>3. offeredTo' \in [Orders -> MaybeRider] /\ lapsed' \in [Orders -> BOOLEAN]
        BY <1>18, <4>1 DEF Accept, DataOK, Clear, MaybeRider
      <4> QED
        BY <1>18, <2>2, <4>1, <4>2, <4>3 DEF Accept, DataOK, billVars
    <3>2. DeliveredIsFinal /\ HandedOverIsNotCancelled'
      BY <1>18, <2>1 DEF Accept, Inv, DataOK, DeliveredIsFinal, HandedOverIsNotCancelled,
         Assignable, holdVars, billVars
    <3> QED
      BY <3>1, <3>2
  <2>4. Goto(t, "countBusy") \/ Finish(t)
    BY <1>18 DEF Accept
  <2> QED
    BY <1>18, <2>1, <2>3, <2>4, GotoOK, FinishOK DEF Pcs
<1>19. ASSUME NEW t \in Tasks, SetBusy(t)
      PROVE  Inv'
  <2>1. task[t].o \in Orders /\ task[t].pc \notin {"idle", "duty"}
    BY <1>19 DEF SetBusy, At, Inv, Knows
  <2>3. DataOK' /\ DeliveredIsFinal /\ HandedOverIsNotCancelled'
    BY <1>19, <2>1 DEF SetBusy, Inv, DataOK, DeliveredIsFinal, HandedOverIsNotCancelled,
       RiderStatuses, holdVars, offerVars, billVars
  <2>4. Finish(t)
    BY <1>19 DEF SetBusy
  <2> QED
    BY <1>19, <2>1, <2>3, <2>4, GotoOK, FinishOK DEF Pcs
<1>20. ASSUME NEW t \in Tasks, Reject(t)
      PROVE  Inv'
  <2>1. task[t].o \in Orders /\ task[t].pc \notin {"idle", "duty"}
    BY <1>20 DEF Reject, At, Inv, Knows
  <2>2. asked' \in [Orders -> [Riders -> 0..ReofferMax]]
    BY <1>20, <2>1, HistoryOK DEF Reject, Inv, DataOK, Task, MaybeRider, holdVars, offerVars,
       billVars
  <2>3. DataOK' /\ DeliveredIsFinal /\ HandedOverIsNotCancelled'
    BY <1>20, <2>2, <2>1 DEF Reject, Inv, DataOK, DeliveredIsFinal, HandedOverIsNotCancelled,
       Clear, MaybeRider, holdVars, offerVars, billVars
  <2>4. Goto(t, "search")
    BY <1>20 DEF Reject
  <2> QED
    BY <1>20, <2>1, <2>3, <2>4, GotoOK, FinishOK DEF Pcs
<1>21. ASSUME NEW t \in Tasks, KitchenSave(t)
      PROVE  Inv'
  <2>1. task[t].o \in Orders /\ task[t].pc \notin {"idle", "duty"}
    BY <1>21 DEF KitchenSave, At, Inv, Knows
  <2>3. DataOK' /\ DeliveredIsFinal /\ HandedOverIsNotCancelled'
    BY <1>21, <2>1 DEF KitchenSave, Inv, DataOK, DeliveredIsFinal, HandedOverIsNotCancelled,
       Knows, At, Assignments, holdVars, offerVars, billVars
  <2>4. Goto(t, "bill")
    BY <1>21 DEF KitchenSave
  <2> QED
    BY <1>21, <2>1, <2>3, <2>4, GotoOK, FinishOK DEF Pcs
<1>22. ASSUME NEW t \in Tasks, SetFree(t)
      PROVE  Inv'
  <2>1. task[t].o \in Orders /\ task[t].pc \notin {"idle", "duty"}
    BY <1>22 DEF SetFree, At, Inv, Knows
  <2>3. DataOK' /\ DeliveredIsFinal /\ HandedOverIsNotCancelled'
    BY <1>22, <2>1 DEF SetFree, Inv, DataOK, DeliveredIsFinal, HandedOverIsNotCancelled,
       RiderStatuses, holdVars, offerVars, billVars
  <2>4. Goto(t, "freeing")
    BY <1>22 DEF SetFree
  <2> QED
    BY <1>22, <2>1, <2>3, <2>4, GotoOK, FinishOK DEF Pcs
<1>23. ASSUME NEW t \in Tasks, PickUp(t)
      PROVE  Inv'
  <2>1. task[t].o \in Orders /\ task[t].pc \notin {"idle", "duty"}
    BY <1>23 DEF PickUp, At, Inv, Knows
  <2>3. DataOK' /\ DeliveredIsFinal /\ HandedOverIsNotCancelled'
    BY <1>23, <2>1 DEF PickUp, Inv, DataOK, DeliveredIsFinal, HandedOverIsNotCancelled,
       Assignments, holdVars, offerVars, billVars
  <2>4. Goto(t, "handoff") \/ Finish(t)
    BY <1>23 DEF PickUp
  <2> QED
    BY <1>23, <2>1, <2>3, <2>4, GotoOK, FinishOK DEF Pcs
<1>24. ASSUME NEW t \in Tasks, Handoff(t)
      PROVE  Inv'
  <2>1. task[t].o \in Orders /\ task[t].pc \notin {"idle", "duty"}
    BY <1>24 DEF Handoff, At, Inv, Knows
  <2>3. DataOK' /\ DeliveredIsFinal /\ HandedOverIsNotCancelled'
    BY <1>24, <2>1 DEF Handoff, Inv, DataOK, DeliveredIsFinal, HandedOverIsNotCancelled,
       Assignable, Statuses, holdVars, offerVars, billVars
  <2>4. Finish(t)
    BY <1>24 DEF Handoff
  <2> QED
    BY <1>24, <2>1, <2>3, <2>4, GotoOK, FinishOK DEF Pcs
<1>25. ASSUME NEW t \in Tasks, Close(t)
      PROVE  Inv'
  <2>1. task[t].o \in Orders /\ task[t].pc \notin {"idle", "duty"}
    BY <1>25 DEF Close, At, Inv, Knows
  <2>3. DataOK' /\ DeliveredIsFinal /\ HandedOverIsNotCancelled'
    BY <1>25, <2>1 DEF Close, Inv, DataOK, DeliveredIsFinal, HandedOverIsNotCancelled, Statuses,
       holdVars, offerVars, billVars
  <2>4. Goto(t, "count") \/ Goto(t, "bill")
    BY <1>25 DEF Close
  <2> QED
    BY <1>25, <2>1, <2>3, <2>4, GotoOK, FinishOK DEF Pcs
<1>26. ASSUME NEW t \in Tasks, BillWrite(t)
      PROVE  Inv'
  <2>1. task[t].o \in Orders /\ task[t].pc \notin {"idle", "duty"}
    BY <1>26 DEF BillWrite, At, Inv, Knows
  <2>3. DataOK' /\ DeliveredIsFinal /\ HandedOverIsNotCancelled'
    BY <1>26, <2>1 DEF BillWrite, Inv, DataOK, DeliveredIsFinal, HandedOverIsNotCancelled,
       holdVars, offerVars, billVars
  <2>4. Goto(t, "count")
    BY <1>26 DEF BillWrite
  <2> QED
    BY <1>26, <2>1, <2>3, <2>4, GotoOK, FinishOK DEF Pcs
<1>27. ASSUME NEW t \in Tasks, Count(t)
      PROVE  Inv'
  <2>1. task[t].o \in Orders /\ task[t].pc \notin {"idle", "duty"}
    BY <1>27 DEF Count, At, Inv, Knows
  <2>3. DataOK' /\ DeliveredIsFinal /\ HandedOverIsNotCancelled'
    BY <1>27, <2>1 DEF Count, Inv, DataOK, DeliveredIsFinal, HandedOverIsNotCancelled, holdVars,
       offerVars, billVars
  <2>4. Goto(t, "freeing")
    BY <1>27 DEF Count
  <2> QED
    BY <1>27, <2>1, <2>3, <2>4, GotoOK, FinishOK DEF Pcs
<1>28. ASSUME NEW t \in Tasks, Reassign(t)
      PROVE  Inv'
  <2>1. task[t].o \in Orders /\ task[t].pc \notin {"idle", "duty"}
    BY <1>28 DEF Reassign, At, Inv, Knows
  <2>2. asked' \in [Orders -> [Riders -> 0..ReofferMax]]
    BY <1>28, <2>1, HistoryOK DEF Reassign, Inv, DataOK, Task, MaybeRider, holdVars, offerVars,
       billVars
  <2>3. DataOK' /\ DeliveredIsFinal /\ HandedOverIsNotCancelled'
    BY <1>28, <2>2, <2>1 DEF Reassign, Inv, DataOK, DeliveredIsFinal, HandedOverIsNotCancelled,
       Task, Assignments, MaybeRider, holdVars, offerVars, billVars
  <2>4. Finish(t)
    BY <1>28 DEF Reassign
  <2> QED
    BY <1>28, <2>1, <2>3, <2>4, GotoOK, FinishOK DEF Pcs
<1>29. ASSUME NEW t \in Tasks, SaveDuty(t)
      PROVE  Inv'
  <2>1. DataOK' /\ DeliveredIsFinal /\ HandedOverIsNotCancelled'
    BY <1>29 DEF SaveDuty, Inv, DataOK, DeliveredIsFinal, HandedOverIsNotCancelled,
       RiderStatuses, holdVars, offerVars, billVars
  <2> QED
    BY <1>29, <2>1, FinishOK DEF SaveDuty
<1>30. ASSUME NEW t \in Tasks, Search(t)
      PROVE  Inv'
  <2>1. UNCHANGED dataVars /\ task[t] \in Task /\ task[t].o \in Orders
    BY <1>30 DEF Search, At, Inv, Knows, dataVars, holdVars, offerVars, billVars
  <2>2. ASSUME NEW r \in Riders, Become(t, [task[t] EXCEPT !.pc = "offer", !.r = r])
        PROVE  Inv'
    <3> DEFINE v == [task[t] EXCEPT !.pc = "offer", !.r = r]
    <3>0. r \in MaybeRider /\ "offer" \in Pcs
      BY DEF MaybeRider, Pcs
    <3>1. v \in Task /\ v.pc = "offer" /\ v.o = task[t].o /\ v.r = r
      BY <2>1, <3>0, Zenon DEF Task
    <3>2. Become(t, v)
      BY <2>2
    <3> HIDE DEF v
    <3>3. Knows(v, status')
      BY <3>1, <2>1 DEF Knows
    <3> QED
      BY <2>1, <3>1, <3>2, <3>3, Frozen, StepOK
  <2> QED
    BY <1>30, <2>1, <2>2, Frozen, FinishOK DEF Search
<1>31. ASSUME NEW t \in Tasks, Release(t)
      PROVE  Inv'
  <2> DEFINE o == task[t].o
             v == [task[t] EXCEPT !.pc = "withdraw", !.r = offeredTo[o], !.p = partner[o], !.saw = asg[o]]
  <2>1. UNCHANGED dataVars /\ task[t] \in Task /\ o \in Orders
    BY <1>31 DEF Release, At, Inv, Knows, dataVars, holdVars, offerVars, billVars
  <2>2. offeredTo[o] \in MaybeRider /\ partner[o] \in MaybeRider /\ asg[o] \in Assignments
    BY <2>1 DEF Inv, DataOK
  <2>3. v \in Task /\ v.pc = "withdraw" /\ v.o = o
    BY <2>1, <2>2, Zenon DEF Task, Pcs
  <2>4. Become(t, v)
    BY <1>31 DEF Release
  <2> HIDE DEF v
  <2>5. Knows(v, status')
    BY <2>1, <2>3 DEF Knows
  <2> QED
    BY <2>1, <2>3, <2>4, <2>5, Frozen, StepOK
<1>32. ASSUME NEW t \in Tasks, Freeing(t)
      PROVE  Inv'
  <2>1. UNCHANGED dataVars /\ task[t] \in Task /\ task[t].o \in Orders
    BY <1>32 DEF Freeing, At, Inv, Knows, dataVars, holdVars, offerVars, billVars
  <2>2. ASSUME NEW r \in task[t].free, NEW pc \in {"setFree", "freeing"},
               Become(t, [task[t] EXCEPT !.free = @ \ {r}, !.r = r, !.pc = pc])
        PROVE  Inv'
    <3> DEFINE v == [task[t] EXCEPT !.free = @ \ {r}, !.r = r, !.pc = pc]
    <3>1. task[t].free \in SUBSET Riders
      BY <2>1 DEF Task
    <3>2. r \in MaybeRider /\ task[t].free \ {r} \in SUBSET Riders /\ pc \in Pcs
      BY <3>1 DEF MaybeRider, Pcs
    <3>3. v \in Task /\ v.pc = pc /\ v.o = task[t].o
      BY <2>1, <3>2, Zenon DEF Task
    <3>4. Become(t, v)
      BY <2>2
    <3> HIDE DEF v
    <3>5. Knows(v, status')
      BY <2>1, <2>2, <3>3 DEF Knows
    <3> QED
      BY <2>1, <3>3, <3>4, <3>5, Frozen, StepOK
  <2> QED
    BY <1>32, <2>1, <2>2, Frozen, FinishOK DEF Freeing
<1>33. ASSUME NEW t \in Tasks, KitchenClose(t)
      PROVE  Inv'
  <2> DEFINE o == task[t].o
             v == [task[t] EXCEPT !.pc = "kitchenSave", !.saw = asg[o], !.free = {partner[o]} \ {None}]
  <2>1. task[t] \in Task /\ o \in Orders
    BY <1>33 DEF KitchenClose, At, Inv, Knows
  <2>2. DataOK' /\ DeliveredIsFinal /\ HandedOverIsNotCancelled'
    BY <1>33, <2>1 DEF KitchenClose, Inv, DataOK, Statuses, DeliveredIsFinal,
       HandedOverIsNotCancelled, holdVars, offerVars, billVars
  <2>3. CASE status[o] = task[t].saw
    <3>1. asg[o] \in Assignments /\ {partner[o]} \ {None} \in SUBSET Riders
      BY <2>1 DEF Inv, DataOK, MaybeRider
    <3>2. v \in Task /\ v.pc = "kitchenSave" /\ v.o = o
      BY <2>1, <3>1, Zenon DEF Task, Pcs
    <3>3. Become(t, v) /\ status' = [status EXCEPT ![o] = "delivered"]
      BY <1>33, <2>3 DEF KitchenClose
    <3> HIDE DEF v
    <3>4. Knows(v, status')
      BY <2>1, <3>2, <3>3 DEF Knows, Inv, DataOK
    <3> QED
      BY <2>2, <3>2, <3>3, <3>4, StepOK
  <2>4. CASE status[o] # task[t].saw
    BY <1>33, <2>2, <2>4, FinishOK DEF KitchenClose
  <2> QED
    BY <2>3, <2>4
<1>34. ASSUME NEW t \in Tasks, Withdraw(t)
      PROVE  Inv'
  <2> DEFINE o == task[t].o
             r == task[t].r
             v == [task[t] EXCEPT !.pc = "unassign", !.free = @ \union {r}]
  <2>1. task[t] \in Task /\ o \in Orders /\ task[t].pc = "withdraw" /\ r \in MaybeRider
    BY <1>34 DEF Withdraw, At, Inv, Knows, Task
  <2>2. asked' \in [Orders -> [Riders -> 0..ReofferMax]]
    BY <1>34, <2>1, HistoryOK DEF Withdraw, Inv, DataOK, holdVars, offerVars, billVars
  <2>3. DataOK' /\ DeliveredIsFinal /\ HandedOverIsNotCancelled'
    <3>1. offeredTo' \in [Orders -> MaybeRider] /\ lapsed' \in [Orders -> BOOLEAN]
      BY <1>34 DEF Withdraw, Clear, Inv, DataOK, MaybeRider, offerVars
    <3>2. UNCHANGED <<status, asg, partner, code, rider, bills, counted>>
      BY <1>34 DEF Withdraw, holdVars, billVars
    <3> QED
      BY <2>2, <3>1, <3>2 DEF Inv, DataOK, DeliveredIsFinal, HandedOverIsNotCancelled
  <2>4. CASE r # None /\ offeredTo[o] = r
    <3>1. task[t].free \union {r} \in SUBSET Riders
      BY <2>1, <2>4 DEF Task, MaybeRider
    <3>2. v \in Task /\ v.pc = "unassign" /\ v.o = o
      BY <2>1, <3>1, Zenon DEF Task, Pcs
    <3>3. Become(t, v)
      BY <1>34, <2>4 DEF Withdraw
    <3> HIDE DEF v
    <3>4. Knows(v, status')
      BY <2>1, <3>2 DEF Knows
    <3> QED
      BY <2>3, <3>2, <3>3, <3>4, StepOK
  <2>5. CASE ~(r # None /\ offeredTo[o] = r)
    BY <1>34, <2>1, <2>3, <2>5, GotoOK DEF Withdraw, Pcs
  <2> QED
    BY <2>4, <2>5
<1>35. ASSUME NEW t \in Tasks, Unassign(t)
      PROVE  Inv'
  <2> DEFINE o == task[t].o
             p == task[t].p
             v == [task[t] EXCEPT !.pc = "freeing", !.free = @ \union {p}]
             mine == task[t].saw \in Held /\ p # None /\ asg[o] = task[t].saw /\ partner[o] = p
  <2>1. task[t] \in Task /\ o \in Orders /\ task[t].pc = "unassign" /\ p \in MaybeRider
    BY <1>35 DEF Unassign, At, Inv, Knows, Task
  <2>2. DataOK' /\ DeliveredIsFinal /\ HandedOverIsNotCancelled'
    <3>1. /\ asg' \in [Orders -> Assignments]
          /\ \A x \in Orders : asg'[x] = "delivered" => asg[x] = "delivered"
      BY <1>35, <2>1 DEF Unassign, Inv, DataOK, Assignments, holdVars
    <3>2. partner' \in [Orders -> MaybeRider] /\ code' \in [Orders -> BOOLEAN]
      BY <1>35 DEF Unassign, Inv, DataOK, MaybeRider, holdVars
    <3>3. UNCHANGED <<status, offeredTo, lapsed, asked, rider, bills, counted>>
      BY <1>35 DEF Unassign, offerVars, billVars
    <3> QED
      BY <3>1, <3>2, <3>3 DEF Inv, DataOK, DeliveredIsFinal, HandedOverIsNotCancelled
  <2>3. CASE mine
    <3>1. task[t].free \union {p} \in SUBSET Riders
      BY <2>1, <2>3 DEF Task, MaybeRider
    <3>2. v \in Task /\ v.pc = "freeing" /\ v.o = o
      BY <2>1, <3>1, Zenon DEF Task, Pcs
    <3>3. Become(t, v)
      BY <1>35, <2>3 DEF Unassign
    <3> HIDE DEF v
    <3>4. Knows(v, status')
      BY <2>1, <3>2 DEF Knows
    <3> QED
      BY <2>2, <3>2, <3>3, <3>4, StepOK
  <2>4. CASE ~mine
    BY <1>35, <2>1, <2>2, <2>4, GotoOK DEF Unassign, Pcs
  <2> QED
    BY <2>3, <2>4
<1>36. ASSUME NEW t \in Tasks, Handover(t)
      PROVE  Inv'
  <2> DEFINE o == task[t].o
             v == [task[t] EXCEPT !.pc = "close", !.saw = status[o], !.free = {task[t].r}]
             wins == status[o] # "cancelled" /\ asg[o] = "picked_up" /\ partner[o] = task[t].r
  <2>1. task[t] \in Task /\ o \in Orders /\ task[t].r \in Riders
    BY <1>36 DEF Handover, At, Inv, Knows
  <2>2. DataOK' /\ DeliveredIsFinal /\ HandedOverIsNotCancelled'
    BY <1>36, <2>1 DEF Handover, Inv, DataOK, Assignments, DeliveredIsFinal,
       HandedOverIsNotCancelled, holdVars, offerVars, billVars
  <2>3. CASE wins
    <3>1. status[o] \in Statuses /\ {task[t].r} \in SUBSET Riders
      BY <2>1 DEF Inv, DataOK
    <3>2. v \in Task /\ v.pc = "close" /\ v.o = o
      BY <2>1, <3>1, Zenon DEF Task, Pcs
    <3>3. Become(t, v)
      BY <1>36, <2>3 DEF Handover
    <3> HIDE DEF v
    <3>4. Knows(v, status')
      BY <2>1, <3>2 DEF Knows
    <3> QED
      BY <2>2, <3>2, <3>3, <3>4, StepOK
  <2>4. CASE ~wins
    BY <1>36, <2>2, <2>4, FinishOK DEF Handover
  <2> QED
    BY <2>3, <2>4
<1>37. CASE UNCHANGED vars
  BY <1>37 DEF vars, Inv, DataOK, Knows, HandedOverIsNotCancelled
<1>38. ASSUME NEW o \in Orders, Age(o)
       PROVE  Inv'
  BY <1>38 DEF Age, Inv, DataOK, Knows, HandedOverIsNotCancelled, holdVars, offerVars, billVars
<1> QED
  BY <1>1, <1>2, <1>3, <1>4, <1>5, <1>6, <1>7, <1>8, <1>9, <1>10, <1>11, <1>12, <1>13, <1>14,
     <1>15, <1>16, <1>17, <1>18, <1>19, <1>20, <1>21, <1>22, <1>23, <1>24, <1>25, <1>26, <1>27,
     <1>28, <1>29, <1>30, <1>31, <1>32, <1>33, <1>34, <1>35, <1>36, <1>37, <1>38 DEF Next, Step,
     Start

\* The initial state satisfies Inv.
LEMMA InitInv == Init => Inv
<1> SUFFICES ASSUME Init PROVE Inv
  OBVIOUS
<1>1. DataOK
  <2>1. asked \in [Orders -> [Riders -> 0..ReofferMax]] /\ bills \in [Orders -> Nat]
    BY LimitsAssumption DEF Init
  <2> QED
    BY <2>1 DEF Init, DataOK, Statuses, Assignments, MaybeRider, RiderStatuses
<1>2. task \in [Tasks -> Task] /\ \A t \in Tasks : Knows(task[t], status)
  BY IdleOK DEF Init, Knows
<1>3. HandedOverIsNotCancelled
  BY DEF Init, HandedOverIsNotCancelled
<1> QED
  BY <1>1, <1>2, <1>3 DEF Inv

\* Inv holds in every reachable state.
LEMMA Invariance == Spec => []Inv
<1>1. Init => Inv
  BY InitInv
<1>2. Inv /\ [Next]_vars => Inv'
  BY NextInv
<1> QED
  BY <1>1, <1>2, PTL DEF Spec

\* Every variable keeps its type, for any orders, riders, handlers and limits, and whatever
\* administrators do.
THEOREM TypeCorrect == Spec => []TypeOK
<1> DEFINE AgeOK == aged \in [Orders -> BOOLEAN]
<1>1. Init => AgeOK
  BY DEF Init
<1>2. AgeOK /\ [Next]_vars => AgeOK'
  BY DEF Next, Age, vars
<1>3. Inv /\ AgeOK => TypeOK
  BY DEF Inv, DataOK, TypeOK
<1> QED
  BY <1>1, <1>2, <1>3, Invariance, PTL DEF Spec

\* A handover and a cancellation exclude each other (deliverOrder's claim against
\* updateOrderStatus's cancelGuard), whatever else happens in between and whoever reassigns.
THEOREM HandoverExcludesCancellation == Spec => []HandedOverIsNotCancelled
<1>1. Inv => HandedOverIsNotCancelled
  BY DEF Inv
<1> QED
  BY <1>1, Invariance, PTL

-----------------------------------------------------------------------------
\* Cancellations and their releases.

ReleasePcs == {"release", "withdraw", "unassign"}

\* What a handler with the registers v knows of its order's status, assignment and rider.
KnowsHolder(v, st, a, p) ==
    /\ v.pc # "reassign"
    /\ v.pc = "kitchenClose" => v.saw # "cancelled"
    /\ v.pc \in ReleasePcs => st[v.o] = "cancelled"
    /\ v.pc = "close" => a[v.o] = "delivered" /\ p[v.o] # None

\* An order on offer has no rider, an order on its way has one.
OneHolder ==
    \A o \in Orders : /\ offeredTo[o] # None => partner[o] = None
                      /\ asg[o] \in Held => partner[o] # None

\* Handler registers v that will withdraw o's offer to r.
WillWithdraw(v, o, r) ==
    /\ v.o = o
    /\ v.pc = "release" \/ (v.pc = "withdraw" /\ v.r = r)

\* Handler registers v that will take o, with the assignment a, out of the hands of p.
WillUnassign(v, o, a, p) ==
    /\ v.o = o
    /\ v.pc = "release" \/ (v.pc \in {"withdraw", "unassign"} /\ v.saw = a /\ v.p = p)

\* A cancelled order's offer and rider are about to be taken back.
TakenBack ==
    \A o \in Orders : status[o] = "cancelled" =>
        /\ offeredTo[o] # None => \E t \in Tasks : WillWithdraw(task[t], o, offeredTo[o])
        /\ asg[o] \in Held => \E t \in Tasks : WillUnassign(task[t], o, asg[o], partner[o])

Sound ==
    /\ Inv
    /\ \A t \in Tasks : KnowsHolder(task[t], status, asg, partner)
    /\ OneHolder
    /\ TakenBack

\* A rider loses an order only by its cancellation.
KeepsRider ==
    \A o \in Orders : partner[o] # None /\ partner'[o] # partner[o]
                      => partner'[o] = None /\ status[o] = "cancelled"

\* A step that cancels nothing, takes no order from a rider, gives no cancelled order to one
\* and undoes no handover.
Gentle ==
    \A x \in Orders :
        /\ status[x] = "cancelled" <=> status'[x] = "cancelled"
        /\ status[x] = "cancelled" => /\ offeredTo'[x] \in {None, offeredTo[x]}
                                      /\ asg'[x] \in Held => asg'[x] = asg[x]
        /\ partner[x] # None => partner'[x] = partner[x]
        /\ asg[x] = "delivered" /\ partner[x] # None => asg'[x] = "delivered"

-----------------------------------------------------------------------------

\* What every handler but the one that moves knows stays true in a step that cancels, or not,
\* and leaves riders as KeepsRider says.
LEMMA OthersKnow ==
    ASSUME Sound, Inv', NEW t \in Tasks, NEW v \in Task, Become(t, v),
           KnowsHolder(v, status', asg', partner'),
           \A x \in Orders : /\ status[x] = "cancelled" => status'[x] = "cancelled"
                             /\ asg[x] = "delivered" /\ partner[x] # None
                                => asg'[x] = "delivered" /\ partner'[x] # None
    PROVE  \A u \in Tasks : KnowsHolder(task[u], status, asg, partner)'
<1>1. /\ task' \in [Tasks -> Task] /\ task'[t] = v
      /\ \A u \in Tasks : u # t => task'[u] = task[u]
  BY BecomeOK DEF Sound, Inv
<1>2. \A u \in Tasks : task[u].pc \in ReleasePcs \union {"close"} => task[u].o \in Orders
  BY DEF Sound, Inv, Knows, ReleasePcs
<1> QED
  BY <1>1, <1>2 DEF Sound, KnowsHolder

\* A gentle step of a handler that is not releasing an order preserves Sound.
LEMMA GentleOK ==
    ASSUME Sound, Inv', NEW t \in Tasks, NEW v \in Task, Become(t, v),
           task[t].pc \notin ReleasePcs, KnowsHolder(v, status', asg', partner'),
           OneHolder', Gentle
    PROVE  Sound' /\ KeepsRider
<1>1. /\ task' \in [Tasks -> Task] /\ task'[t] = v
      /\ \A u \in Tasks : u # t => task'[u] = task[u]
  BY BecomeOK DEF Sound, Inv
<1>2. \A u \in Tasks : KnowsHolder(task[u], status, asg, partner)'
  BY OthersKnow DEF Gentle
<1>3. TakenBack'
  <2> SUFFICES ASSUME NEW o \in Orders, status'[o] = "cancelled"
               PROVE  /\ offeredTo'[o] # None => \E u \in Tasks : WillWithdraw(task'[u], o, offeredTo'[o])
                      /\ asg'[o] \in Held => \E u \in Tasks : WillUnassign(task'[u], o, asg'[o], partner'[o])
    BY DEF TakenBack, WillWithdraw, WillUnassign
  <2>1. status[o] = "cancelled"
    BY DEF Gentle
  <2>2. ASSUME offeredTo'[o] # None
        PROVE  \E u \in Tasks : WillWithdraw(task'[u], o, offeredTo'[o])
    <3>1. PICK u \in Tasks : WillWithdraw(task[u], o, offeredTo[o])
      BY <2>1, <2>2 DEF Sound, TakenBack, Gentle
    <3>2. u # t /\ offeredTo'[o] = offeredTo[o]
      BY <2>1, <2>2, <3>1 DEF WillWithdraw, ReleasePcs, Gentle
    <3> QED
      BY <1>1, <3>1, <3>2
  <2>3. ASSUME asg'[o] \in Held
        PROVE  \E u \in Tasks : WillUnassign(task'[u], o, asg'[o], partner'[o])
    <3>1. asg'[o] = asg[o] /\ partner'[o] = partner[o]
      BY <2>1, <2>3 DEF Gentle, Sound, OneHolder
    <3>2. PICK u \in Tasks : WillUnassign(task[u], o, asg[o], partner[o])
      BY <2>1, <2>3, <3>1 DEF Sound, TakenBack
    <3>3. u # t
      BY <3>2 DEF WillUnassign, ReleasePcs
    <3> QED
      BY <1>1, <3>1, <3>2, <3>3
  <2> QED
    BY <2>2, <2>3
<1>4. KeepsRider
  BY DEF Gentle, KeepsRider
<1> QED
  BY <1>2, <1>3, <1>4 DEF Sound

\* Handlers that start.
LEMMA GentleBegin ==
    ASSUME Sound, Inv', NEW t \in Tasks, NEW pc \in Pcs, NEW o \in Orders \union {None},
           NEW r \in MaybeRider, NEW p \in MaybeRider,
           NEW saw \in Statuses \union Assignments \union RiderStatuses \union {"nothing"},
           Begin(t, pc, o, r, p, saw), pc \notin ReleasePcs \union {"reassign", "close"},
           pc = "kitchenClose" => saw # "cancelled",
           OneHolder', Gentle
    PROVE  Sound' /\ KeepsRider
<1> DEFINE v == [pc |-> pc, o |-> o, r |-> r, p |-> p, saw |-> saw, free |-> {}]
<1>1. v \in Task /\ v.pc = pc /\ v.saw = saw
  BY DEF Task
<1>2. Become(t, v) /\ task[t].pc = "idle"
  BY Zenon DEF Begin, At
<1> HIDE DEF v
<1> QED
  BY <1>1, <1>2, GentleOK DEF KnowsHolder, ReleasePcs

\* Handlers that go on.
LEMMA GentleGoto ==
    ASSUME Sound, Inv', NEW t \in Tasks, NEW pc \in Pcs, Goto(t, pc),
           task[t].pc \notin ReleasePcs,
           pc \notin ReleasePcs \union {"reassign", "close", "kitchenClose"}, OneHolder', Gentle
    PROVE  Sound' /\ KeepsRider
<1> DEFINE v == [task[t] EXCEPT !.pc = pc]
<1>1. task[t] \in Task
  BY DEF Sound, Inv
<1>2. v \in Task /\ v.pc = pc
  BY <1>1, Zenon DEF Task
<1>3. Become(t, v)
  BY Zenon DEF Goto
<1> HIDE DEF v
<1> QED
  BY <1>2, <1>3, GentleOK DEF KnowsHolder

\* Handlers that return.
LEMMA GentleFinish ==
    ASSUME Sound, Inv', NEW t \in Tasks, Finish(t), task[t].pc \notin ReleasePcs,
           OneHolder', Gentle
    PROVE  Sound' /\ KeepsRider
BY IdleOK, GentleOK DEF Finish, KnowsHolder, ReleasePcs

\* A step that changes no data is gentle.
LEMMA FrozenIsGentle ==
    ASSUME Sound, UNCHANGED dataVars
    PROVE  OneHolder' /\ Gentle
BY DEF Sound, Inv, DataOK, OneHolder, dataVars, Gentle

-----------------------------------------------------------------------------
\* Every step preserves Sound and takes no order from its rider but by cancellation.
LEMMA NextSound ==
    ASSUME Sound, [Next]_vars, Reassigns = {}
    PROVE  Sound' /\ KeepsRider
<1>0. Inv'
  BY NextInv DEF Sound
<1>1. ASSUME NEW t \in Tasks, NEW o \in Orders, ExpireStale(t, o)
      PROVE  Sound' /\ KeepsRider
  <2>1. Begin(t, "expire", o, offeredTo[o], None, "nothing") /\ UNCHANGED dataVars
    BY <1>1 DEF ExpireStale, dataVars, holdVars, offerVars, billVars
  <2> QED
    BY <1>0, <1>1, <2>1, FrozenIsGentle, GentleBegin DEF Sound, Inv, DataOK, Pcs, MaybeRider,
       ReleasePcs
<1>2. ASSUME NEW t \in Tasks, NEW o \in Orders, SweepUnassigned(t, o)
      PROVE  Sound' /\ KeepsRider
  <2>1. Begin(t, "search", o, None, None, "nothing") /\ UNCHANGED dataVars
    BY <1>2 DEF SweepUnassigned, dataVars, holdVars, offerVars, billVars
  <2> QED
    BY <1>0, <1>2, <2>1, FrozenIsGentle, GentleBegin DEF Sound, Inv, DataOK, Pcs, MaybeRider,
       ReleasePcs
<1>3. ASSUME NEW t \in Tasks, NEW o \in Orders, NEW r \in Riders, AcceptOffer(t, o, r)
      PROVE  Sound' /\ KeepsRider
  <2>1. Begin(t, "accept", o, r, None, "nothing") /\ UNCHANGED dataVars
    BY <1>3 DEF AcceptOffer, dataVars, holdVars, offerVars, billVars
  <2> QED
    BY <1>0, <1>3, <2>1, FrozenIsGentle, GentleBegin DEF Sound, Inv, DataOK, Pcs, MaybeRider,
       ReleasePcs
<1>4. ASSUME NEW t \in Tasks, NEW o \in Orders, NEW r \in Riders, RejectOffer(t, o, r)
      PROVE  Sound' /\ KeepsRider
  <2>1. Begin(t, "reject", o, r, None, "nothing") /\ UNCHANGED dataVars
    BY <1>4 DEF RejectOffer, dataVars, holdVars, offerVars, billVars
  <2> QED
    BY <1>0, <1>4, <2>1, FrozenIsGentle, GentleBegin DEF Sound, Inv, DataOK, Pcs, MaybeRider,
       ReleasePcs
<1>5. ASSUME NEW t \in Tasks, NEW o \in Orders, NEW r \in Riders, VerifyPickup(t, o, r)
      PROVE  Sound' /\ KeepsRider
  <2>1. Begin(t, "pickup", o, r, None, "nothing") /\ UNCHANGED dataVars
    BY <1>5 DEF VerifyPickup, dataVars, holdVars, offerVars, billVars
  <2> QED
    BY <1>0, <1>5, <2>1, FrozenIsGentle, GentleBegin DEF Sound, Inv, DataOK, Pcs, MaybeRider,
       ReleasePcs
<1>6. ASSUME NEW t \in Tasks, NEW o \in Orders, NEW r \in Riders, DeliverOrder(t, o, r)
      PROVE  Sound' /\ KeepsRider
  <2>1. Begin(t, "handover", o, r, None, "nothing") /\ UNCHANGED dataVars
    BY <1>6 DEF DeliverOrder, dataVars, holdVars, offerVars, billVars
  <2> QED
    BY <1>0, <1>6, <2>1, FrozenIsGentle, GentleBegin DEF Sound, Inv, DataOK, Pcs, MaybeRider,
       ReleasePcs
<1>7. ASSUME NEW t \in Tasks, NEW o \in Orders, NEW r \in Riders, ReassignPartner(t, o, r)
      PROVE  Sound' /\ KeepsRider
  BY <1>7 DEF ReassignPartner
<1>8. ASSUME NEW t \in Tasks, NEW o \in Orders, NEW b \in BOOLEAN, MarkDelivered(t, o, b)
      PROVE  Sound' /\ KeepsRider
  <2>1. Begin(t, "kitchenClose", o, None, None, status[o]) /\ UNCHANGED dataVars
    BY <1>8 DEF MarkDelivered, dataVars, holdVars, offerVars, billVars
  <2> QED
    BY <1>0, <1>8, <2>1, FrozenIsGentle, GentleBegin DEF MarkDelivered, Sound, Inv, DataOK, Pcs,
       MaybeRider, ReleasePcs
<1>9. ASSUME NEW t \in Tasks, NEW r \in Riders, ToggleDuty(t, r)
      PROVE  Sound' /\ KeepsRider
  <2>1. Begin(t, "duty", None, r, None, rider[r]) /\ UNCHANGED dataVars
    BY <1>9 DEF ToggleDuty, dataVars, holdVars, offerVars, billVars
  <2> QED
    BY <1>0, <1>9, <2>1, FrozenIsGentle, GentleBegin DEF Sound, Inv, DataOK, Pcs, MaybeRider,
       ReleasePcs
<1>10. ASSUME NEW t \in Tasks, NEW o \in Orders, AcceptOrder(t, o)
      PROVE  Sound' /\ KeepsRider
  <2>1. Gentle /\ OneHolder'
    BY <1>10 DEF AcceptOrder, Sound, Inv, DataOK, OneHolder, Gentle, holdVars, offerVars, billVars
  <2>2. Begin(t, "search", o, None, None, "nothing")
    BY <1>10 DEF AcceptOrder
  <2> QED
    BY <1>0, <2>1, <2>2, GentleBegin DEF Pcs, MaybeRider, ReleasePcs
<1>11. ASSUME NEW o \in Orders, Lapse(o)
      PROVE  Sound' /\ KeepsRider
  <2>1. /\ UNCHANGED <<asg, partner, offeredTo, task>>
        /\ \A x \in Orders : status[x] = "cancelled" <=> status'[x] = "cancelled"
    BY <1>11 DEF Lapse, Assignable, Sound, Inv, DataOK, holdVars, offerVars, billVars
  <2> QED
    BY <1>0, <2>1 DEF Sound, Inv, Knows, KnowsHolder, OneHolder, TakenBack, WillWithdraw,
       WillUnassign,
                      KeepsRider, ReleasePcs
<1>12. ASSUME NEW o \in Orders, SendOut(o)
      PROVE  Sound' /\ KeepsRider
  <2>1. /\ UNCHANGED <<asg, partner, offeredTo, task>>
        /\ \A x \in Orders : status[x] = "cancelled" <=> status'[x] = "cancelled"
    BY <1>12 DEF SendOut, Assignable, Sound, Inv, DataOK, holdVars, offerVars, billVars
  <2> QED
    BY <1>0, <2>1 DEF Sound, Inv, Knows, KnowsHolder, OneHolder, TakenBack, WillWithdraw,
       WillUnassign,
                      KeepsRider, ReleasePcs
<1>13. ASSUME NEW t \in Tasks, CountBusy(t)
      PROVE  Sound' /\ KeepsRider
  <2>1. UNCHANGED dataVars /\ task[t].pc \notin ReleasePcs
    BY <1>13 DEF CountBusy, At, ReleasePcs, dataVars, holdVars, offerVars, billVars
  <2>2. Goto(t, "setBusy") \/ Finish(t)
    BY <1>13 DEF CountBusy
  <2> QED
    BY <1>0, <2>1, <2>2, FrozenIsGentle, GentleGoto, GentleFinish DEF Pcs, ReleasePcs
<1>14. ASSUME NEW t \in Tasks, Bill(t)
      PROVE  Sound' /\ KeepsRider
  <2>1. UNCHANGED dataVars /\ task[t].pc \notin ReleasePcs
    BY <1>14 DEF Bill, At, ReleasePcs, dataVars, holdVars, offerVars, billVars
  <2>2. Goto(t, "billWrite") \/ Goto(t, "count")
    BY <1>14 DEF Bill
  <2> QED
    BY <1>0, <2>1, <2>2, FrozenIsGentle, GentleGoto, GentleFinish DEF Pcs, ReleasePcs
<1>15. ASSUME NEW t \in Tasks, Offer(t)
      PROVE  Sound' /\ KeepsRider
  <2>1. task[t].o \in Orders \union {None} /\ task[t].pc \notin ReleasePcs
    BY <1>15 DEF Offer, At, ReleasePcs, Sound, Inv, Knows
  <2>3. Gentle /\ OneHolder'
    BY <1>15, <2>1 DEF Offer, Sound, Inv, DataOK, OneHolder, Held, Gentle, Assignable, holdVars,
       offerVars, billVars
  <2>4. Finish(t)
    BY <1>15 DEF Offer
  <2> QED
    BY <1>0, <2>1, <2>3, <2>4, GentleGoto, GentleFinish DEF Pcs, ReleasePcs
<1>16. ASSUME NEW t \in Tasks, Expire(t)
      PROVE  Sound' /\ KeepsRider
  <2>1. task[t].o \in Orders \union {None} /\ task[t].pc \notin ReleasePcs
    BY <1>16 DEF Expire, At, ReleasePcs, Sound, Inv, Knows
  <2>3. Gentle /\ OneHolder'
    BY <1>16, <2>1 DEF Expire, Sound, Inv, DataOK, OneHolder, Held, Gentle, Clear, holdVars,
       offerVars, billVars
  <2>4. Goto(t, "search") \/ Finish(t)
    BY <1>16 DEF Expire
  <2> QED
    BY <1>0, <2>1, <2>3, <2>4, GentleGoto, GentleFinish DEF Pcs, ReleasePcs
<1>17. ASSUME NEW t \in Tasks, Accept(t)
      PROVE  Sound' /\ KeepsRider
  <2>1. task[t].o \in Orders \union {None} /\ task[t].pc \notin ReleasePcs
    BY <1>17 DEF Accept, At, ReleasePcs, Sound, Inv, Knows
  <2>2. task[t].o \in Orders /\ task[t].r # None
    BY <1>17, NoneAssumption DEF Accept, At, Sound, Inv, Knows, KnowsHolder
  <2>3. Gentle /\ OneHolder'
    BY <1>17, <2>1, <2>2 DEF Accept, Sound, Inv, DataOK, OneHolder, Held, Gentle, Clear,
       Assignable, holdVars, offerVars, billVars
  <2>4. Goto(t, "countBusy") \/ Finish(t)
    BY <1>17 DEF Accept
  <2> QED
    BY <1>0, <2>1, <2>3, <2>4, GentleGoto, GentleFinish DEF Pcs, ReleasePcs
<1>18. ASSUME NEW t \in Tasks, SetBusy(t)
      PROVE  Sound' /\ KeepsRider
  <2>1. task[t].o \in Orders \union {None} /\ task[t].pc \notin ReleasePcs
    BY <1>18 DEF SetBusy, At, ReleasePcs, Sound, Inv, Knows
  <2>3. Gentle /\ OneHolder'
    BY <1>18, <2>1 DEF SetBusy, Sound, Inv, DataOK, OneHolder, Held, Gentle, holdVars, offerVars,
       billVars
  <2>4. Finish(t)
    BY <1>18 DEF SetBusy
  <2> QED
    BY <1>0, <2>1, <2>3, <2>4, GentleGoto, GentleFinish DEF Pcs, ReleasePcs
<1>19. ASSUME NEW t \in Tasks, Reject(t)
      PROVE  Sound' /\ KeepsRider
  <2>1. task[t].o \in Orders \union {None} /\ task[t].pc \notin ReleasePcs
    BY <1>19 DEF Reject, At, ReleasePcs, Sound, Inv, Knows
  <2>3. Gentle /\ OneHolder'
    BY <1>19, <2>1 DEF Reject, Sound, Inv, DataOK, OneHolder, Held, Gentle, Clear, holdVars,
       offerVars, billVars
  <2>4. Goto(t, "search")
    BY <1>19 DEF Reject
  <2> QED
    BY <1>0, <2>1, <2>3, <2>4, GentleGoto, GentleFinish DEF Pcs, ReleasePcs
<1>20. ASSUME NEW t \in Tasks, KitchenSave(t)
      PROVE  Sound' /\ KeepsRider
  <2>1. task[t].o \in Orders \union {None} /\ task[t].pc \notin ReleasePcs
    BY <1>20 DEF KitchenSave, At, ReleasePcs, Sound, Inv, Knows
  <2>2. task[t].o \in Orders /\ status[task[t].o] = "delivered"
    BY <1>20 DEF KitchenSave, At, Sound, Inv, Knows, KnowsHolder
  <2>3. Gentle /\ OneHolder'
    BY <1>20, <2>1, <2>2 DEF KitchenSave, Sound, Inv, DataOK, OneHolder, Held, Gentle, holdVars,
       offerVars, billVars
  <2>4. Goto(t, "bill")
    BY <1>20 DEF KitchenSave
  <2> QED
    BY <1>0, <2>1, <2>3, <2>4, GentleGoto, GentleFinish DEF Pcs, ReleasePcs
<1>21. ASSUME NEW t \in Tasks, SetFree(t)
      PROVE  Sound' /\ KeepsRider
  <2>1. task[t].o \in Orders \union {None} /\ task[t].pc \notin ReleasePcs
    BY <1>21 DEF SetFree, At, ReleasePcs, Sound, Inv, Knows
  <2>3. Gentle /\ OneHolder'
    BY <1>21, <2>1 DEF SetFree, Sound, Inv, DataOK, OneHolder, Held, Gentle, holdVars, offerVars,
       billVars
  <2>4. Goto(t, "freeing")
    BY <1>21 DEF SetFree
  <2> QED
    BY <1>0, <2>1, <2>3, <2>4, GentleGoto, GentleFinish DEF Pcs, ReleasePcs
<1>22. ASSUME NEW t \in Tasks, PickUp(t)
      PROVE  Sound' /\ KeepsRider
  <2>1. task[t].o \in Orders \union {None} /\ task[t].pc \notin ReleasePcs
    BY <1>22 DEF PickUp, At, ReleasePcs, Sound, Inv, Knows
  <2>3. Gentle /\ OneHolder'
    BY <1>22, <2>1 DEF PickUp, Sound, Inv, DataOK, OneHolder, Held, Gentle, holdVars, offerVars,
       billVars
  <2>4. Goto(t, "handoff") \/ Finish(t)
    BY <1>22 DEF PickUp
  <2> QED
    BY <1>0, <2>1, <2>3, <2>4, GentleGoto, GentleFinish DEF Pcs, ReleasePcs
<1>23. ASSUME NEW t \in Tasks, Handoff(t)
      PROVE  Sound' /\ KeepsRider
  <2>1. task[t].o \in Orders \union {None} /\ task[t].pc \notin ReleasePcs
    BY <1>23 DEF Handoff, At, ReleasePcs, Sound, Inv, Knows
  <2>3. Gentle /\ OneHolder'
    BY <1>23, <2>1 DEF Handoff, Sound, Inv, DataOK, OneHolder, Held, Gentle, Assignable,
       holdVars, offerVars, billVars
  <2>4. Finish(t)
    BY <1>23 DEF Handoff
  <2> QED
    BY <1>0, <2>1, <2>3, <2>4, GentleGoto, GentleFinish DEF Pcs, ReleasePcs
<1>24. ASSUME NEW t \in Tasks, Close(t)
      PROVE  Sound' /\ KeepsRider
  <2>1. task[t].o \in Orders \union {None} /\ task[t].pc \notin ReleasePcs
    BY <1>24 DEF Close, At, ReleasePcs, Sound, Inv, Knows
  <2>2. task[t].o \in Orders /\ asg[task[t].o] = "delivered"
    BY <1>24 DEF Close, At, Sound, Inv, Knows, KnowsHolder
  <2>3. Gentle /\ OneHolder'
    BY <1>24, <2>1, <2>2 DEF Close, Sound, Inv, DataOK, OneHolder, Held, Gentle,
       HandedOverIsNotCancelled, holdVars, offerVars, billVars
  <2>4. Goto(t, "count") \/ Goto(t, "bill")
    BY <1>24 DEF Close
  <2> QED
    BY <1>0, <2>1, <2>3, <2>4, GentleGoto, GentleFinish DEF Pcs, ReleasePcs
<1>25. ASSUME NEW t \in Tasks, BillWrite(t)
      PROVE  Sound' /\ KeepsRider
  <2>1. task[t].o \in Orders \union {None} /\ task[t].pc \notin ReleasePcs
    BY <1>25 DEF BillWrite, At, ReleasePcs, Sound, Inv, Knows
  <2>3. Gentle /\ OneHolder'
    BY <1>25, <2>1 DEF BillWrite, Sound, Inv, DataOK, OneHolder, Held, Gentle, holdVars,
       offerVars, billVars
  <2>4. Goto(t, "count")
    BY <1>25 DEF BillWrite
  <2> QED
    BY <1>0, <2>1, <2>3, <2>4, GentleGoto, GentleFinish DEF Pcs, ReleasePcs
<1>26. ASSUME NEW t \in Tasks, Count(t)
      PROVE  Sound' /\ KeepsRider
  <2>1. task[t].o \in Orders \union {None} /\ task[t].pc \notin ReleasePcs
    BY <1>26 DEF Count, At, ReleasePcs, Sound, Inv, Knows
  <2>3. Gentle /\ OneHolder'
    BY <1>26, <2>1 DEF Count, Sound, Inv, DataOK, OneHolder, Held, Gentle, holdVars, offerVars,
       billVars
  <2>4. Goto(t, "freeing")
    BY <1>26 DEF Count
  <2> QED
    BY <1>0, <2>1, <2>3, <2>4, GentleGoto, GentleFinish DEF Pcs, ReleasePcs
<1>27. ASSUME NEW t \in Tasks, Reassign(t)
      PROVE  Sound' /\ KeepsRider
  BY <1>27 DEF Reassign, At, Sound, KnowsHolder
<1>28. ASSUME NEW t \in Tasks, SaveDuty(t)
      PROVE  Sound' /\ KeepsRider
  <2>1. Gentle /\ OneHolder' /\ task[t].pc \notin ReleasePcs
    BY <1>28 DEF SaveDuty, At, ReleasePcs, Sound, Inv, DataOK, OneHolder, Gentle, holdVars,
       offerVars, billVars
  <2> QED
    BY <1>0, <1>28, <2>1, GentleFinish DEF SaveDuty
<1>29. ASSUME NEW t \in Tasks, Search(t)
      PROVE  Sound' /\ KeepsRider
  <2>1. UNCHANGED dataVars /\ task[t] \in Task /\ task[t].pc \notin ReleasePcs
    BY <1>29 DEF Search, At, ReleasePcs, Sound, Inv, dataVars, holdVars, offerVars, billVars
  <2>2. ASSUME NEW r \in Riders, Become(t, [task[t] EXCEPT !.pc = "offer", !.r = r])
        PROVE  Sound' /\ KeepsRider
    <3> DEFINE v == [task[t] EXCEPT !.pc = "offer", !.r = r]
    <3>1. r \in MaybeRider /\ "offer" \in Pcs
      BY DEF MaybeRider, Pcs
    <3>2. v \in Task /\ v.pc = "offer"
      BY <2>1, <3>1, Zenon DEF Task
    <3>3. Become(t, v)
      BY <2>2
    <3> HIDE DEF v
    <3> QED
      BY <1>0, <2>1, <3>2, <3>3, FrozenIsGentle, GentleOK DEF KnowsHolder, ReleasePcs
  <2> QED
    BY <1>0, <1>29, <2>1, <2>2, FrozenIsGentle, GentleFinish DEF Search
<1>30. ASSUME NEW t \in Tasks, Freeing(t)
      PROVE  Sound' /\ KeepsRider
  <2>1. UNCHANGED dataVars /\ task[t] \in Task /\ task[t].pc \notin ReleasePcs
    BY <1>30 DEF Freeing, At, ReleasePcs, Sound, Inv, dataVars, holdVars, offerVars, billVars
  <2>2. ASSUME NEW r \in task[t].free, NEW pc \in {"setFree", "freeing"},
               Become(t, [task[t] EXCEPT !.free = @ \ {r}, !.r = r, !.pc = pc])
        PROVE  Sound' /\ KeepsRider
    <3> DEFINE v == [task[t] EXCEPT !.free = @ \ {r}, !.r = r, !.pc = pc]
    <3>1. task[t].free \in SUBSET Riders
      BY <2>1 DEF Task
    <3>2. r \in MaybeRider /\ task[t].free \ {r} \in SUBSET Riders /\ pc \in Pcs
      BY <3>1 DEF MaybeRider, Pcs
    <3>3. v \in Task /\ v.pc = pc
      BY <2>1, <3>2, Zenon DEF Task
    <3>4. Become(t, v)
      BY <2>2
    <3> HIDE DEF v
    <3> QED
      BY <1>0, <2>1, <2>2, <3>3, <3>4, FrozenIsGentle, GentleOK DEF KnowsHolder, ReleasePcs
  <2> QED
    BY <1>0, <1>30, <2>1, <2>2, FrozenIsGentle, GentleFinish DEF Freeing
<1>31. ASSUME NEW t \in Tasks, KitchenClose(t)
      PROVE  Sound' /\ KeepsRider
  <2> DEFINE o == task[t].o
             v == [task[t] EXCEPT !.pc = "kitchenSave", !.saw = asg[o], !.free = {partner[o]} \ {None}]
  <2>1. task[t] \in Task /\ o \in Orders /\ task[t].pc \notin ReleasePcs
    BY <1>31 DEF KitchenClose, At, ReleasePcs, Sound, Inv, Knows
  <2>2. CASE status[o] = task[t].saw
    <3>1. asg[o] \in Assignments /\ {partner[o]} \ {None} \in SUBSET Riders
      BY <2>1 DEF Sound, Inv, DataOK, MaybeRider
    <3>2. v \in Task /\ v.pc = "kitchenSave"
      BY <2>1, <3>1, Zenon DEF Task, Pcs
    <3>3. Become(t, v)
      BY <1>31, <2>2 DEF KitchenClose
    <3> HIDE DEF v
    <3>4. status[o] # "cancelled"
      BY <1>31, <2>2 DEF KitchenClose, At, Sound, KnowsHolder
    <3>5. Gentle /\ OneHolder'
      BY <1>31, <2>1, <2>2, <3>4 DEF KitchenClose, Sound, Inv, DataOK, OneHolder, Gentle,
         holdVars, offerVars, billVars
    <3> QED
      BY <1>0, <2>1, <3>2, <3>3, <3>5, GentleOK DEF KnowsHolder, ReleasePcs
  <2>3. CASE status[o] # task[t].saw
    <3>1. Gentle /\ OneHolder'
      BY <1>31, <2>3, FrozenIsGentle DEF KitchenClose, dataVars, holdVars, offerVars, billVars
    <3> QED
      BY <1>0, <1>31, <2>1, <2>3, <3>1, GentleFinish DEF KitchenClose
  <2> QED
    BY <2>2, <2>3
<1>32. ASSUME NEW t \in Tasks, Handover(t)
      PROVE  Sound' /\ KeepsRider
  <2> DEFINE o == task[t].o
             v == [task[t] EXCEPT !.pc = "close", !.saw = status[o], !.free = {task[t].r}]
             wins == status[o] # "cancelled" /\ asg[o] = "picked_up" /\ partner[o] = task[t].r
  <2>1. task[t] \in Task /\ o \in Orders /\ task[t].r \in Riders /\ task[t].pc \notin ReleasePcs
    BY <1>32 DEF Handover, At, ReleasePcs, Sound, Inv, Knows
  <2>2. Gentle /\ OneHolder'
    BY <1>32, <2>1 DEF Handover, Sound, Inv, DataOK, OneHolder, Held, Gentle, holdVars,
       offerVars, billVars
  <2>3. CASE wins
    <3>1. status[o] \in Statuses /\ {task[t].r} \in SUBSET Riders
      BY <2>1 DEF Sound, Inv, DataOK
    <3>2. v \in Task /\ v.pc = "close" /\ v.o = o
      BY <2>1, <3>1, Zenon DEF Task, Pcs
    <3>3. Become(t, v)
      BY <1>32, <2>3 DEF Handover
    <3> HIDE DEF v
    <3>4. asg'[o] = "delivered" /\ partner'[o] # None
      BY <1>32, <2>1, <2>3, NoneAssumption DEF Handover, Sound, Inv, DataOK
    <3> QED
      BY <1>0, <2>1, <2>2, <3>2, <3>3, <3>4, GentleOK DEF KnowsHolder, ReleasePcs
  <2>4. CASE ~wins
    BY <1>0, <1>32, <2>1, <2>2, <2>4, GentleFinish DEF Handover
  <2> QED
    BY <2>3, <2>4
<1>33. ASSUME NEW t \in Tasks, NEW o \in Orders, NEW b \in BOOLEAN, Cancel(t, o, b)
      PROVE  Sound' /\ KeepsRider
  <2> DEFINE v == [pc |-> "release", o |-> o, r |-> None, p |-> None, saw |-> "nothing", free |-> {}]
  <2>1. v \in Task /\ v.pc = "release" /\ v.o = o
    BY DEF Task, Pcs, MaybeRider
  <2>2. Become(t, v) /\ task[t].pc = "idle"
    BY <1>33 DEF Cancel, Begin, At
  <2> HIDE DEF v
  <2>3. /\ task'[t] = v
        /\ \A u \in Tasks : u # t => task'[u] = task[u]
    BY <2>1, <2>2, BecomeOK DEF Sound, Inv
  <2>4. /\ UNCHANGED <<asg, partner, offeredTo>> /\ status'[o] = "cancelled"
        /\ \A x \in Orders : x # o => status'[x] = status[x]
    BY <1>33 DEF Cancel, Sound, Inv, DataOK, holdVars, offerVars
  <2>5. \A u \in Tasks : KnowsHolder(task[u], status, asg, partner)'
    <3>1. KnowsHolder(v, status', asg', partner')
      BY <2>1, <2>4 DEF KnowsHolder, ReleasePcs
    <3> QED
      BY <1>0, <2>1, <2>2, <2>4, <3>1, OthersKnow
  <2>6. TakenBack'
    <3> SUFFICES ASSUME NEW x \in Orders, status'[x] = "cancelled"
                 PROVE  /\ offeredTo[x] # None => \E u \in Tasks : WillWithdraw(task'[u], x, offeredTo[x])
                        /\ asg[x] \in Held => \E u \in Tasks : WillUnassign(task'[u], x, asg[x], partner[x])
      BY <2>4 DEF TakenBack, WillWithdraw, WillUnassign
    <3>1. CASE x = o
      BY <2>1, <2>3, <3>1 DEF WillWithdraw, WillUnassign
    <3>2. CASE x # o
      BY <2>2, <2>3, <2>4, <3>2 DEF Sound, TakenBack, WillWithdraw, WillUnassign
    <3> QED
      BY <3>1, <3>2
  <2> QED
    BY <1>0, <2>4, <2>5, <2>6 DEF Sound, OneHolder, KeepsRider
<1>34. ASSUME NEW t \in Tasks, Release(t)
      PROVE  Sound' /\ KeepsRider
  <2> DEFINE o == task[t].o
             v == [task[t] EXCEPT !.pc = "withdraw", !.r = offeredTo[o], !.p = partner[o],
                                !.saw = asg[o]]
  <2>1. UNCHANGED dataVars /\ task[t] \in Task /\ o \in Orders /\ task[t].pc = "release"
    BY <1>34 DEF Release, At, Sound, Inv, Knows, dataVars, holdVars, offerVars, billVars
  <2>2. offeredTo[o] \in MaybeRider /\ partner[o] \in MaybeRider /\ asg[o] \in Assignments
    BY <2>1 DEF Sound, Inv, DataOK
  <2>3. /\ v \in Task /\ v.pc = "withdraw" /\ v.o = o
        /\ v.r = offeredTo[o] /\ v.p = partner[o] /\ v.saw = asg[o]
    BY <2>1, <2>2, Zenon DEF Task, Pcs
  <2>4. Become(t, v)
    BY <1>34 DEF Release
  <2> HIDE DEF v
  <2>5. /\ task'[t] = v
        /\ \A u \in Tasks : u # t => task'[u] = task[u]
    BY <2>3, <2>4, BecomeOK DEF Sound, Inv
  <2>6. UNCHANGED <<status, asg, partner, offeredTo>>
    BY <2>1 DEF dataVars
  <2>7. \A u \in Tasks : KnowsHolder(task[u], status, asg, partner)'
    <3>1. KnowsHolder(v, status', asg', partner')
      BY <2>1, <2>3, <2>6 DEF Sound, KnowsHolder, ReleasePcs
    <3> QED
      BY <1>0, <2>3, <2>4, <2>6, <3>1, OthersKnow
  <2>8. TakenBack'
    <3> SUFFICES ASSUME NEW x \in Orders, status[x] = "cancelled"
                 PROVE  /\ offeredTo[x] # None => \E u \in Tasks : WillWithdraw(task'[u], x, offeredTo[x])
                        /\ asg[x] \in Held => \E u \in Tasks : WillUnassign(task'[u], x, asg[x], partner[x])
      BY <2>6 DEF TakenBack, WillWithdraw, WillUnassign
    <3>1. CASE x = o
      BY <2>3, <2>5, <3>1 DEF WillWithdraw, WillUnassign
    <3>2. CASE x # o
      BY <2>5, <3>2 DEF Sound, TakenBack, WillWithdraw, WillUnassign
    <3> QED
      BY <3>1, <3>2
  <2> QED
    BY <1>0, <2>6, <2>7, <2>8 DEF Sound, OneHolder, KeepsRider
<1>35. ASSUME NEW t \in Tasks, Withdraw(t)
      PROVE  Sound' /\ KeepsRider
  <2> DEFINE o == task[t].o
             r == task[t].r
             free == IF r # None /\ offeredTo[o] = r THEN task[t].free \union {r} ELSE task[t].free
             v == [task[t] EXCEPT !.pc = "unassign", !.free = free]
  <2>1. task[t] \in Task /\ o \in Orders /\ task[t].pc = "withdraw" /\ r \in MaybeRider
    BY <1>35 DEF Withdraw, At, Sound, Inv, Knows, Task
  <2>2. free \in SUBSET Riders /\ "unassign" \in Pcs
    BY <2>1 DEF Task, MaybeRider, Pcs
  <2>3. Become(t, v)
    <3>1. CASE r # None /\ offeredTo[o] = r
      BY <1>35, <3>1 DEF Withdraw
    <3>2. CASE ~(r # None /\ offeredTo[o] = r)
      <4>1. [task[t] EXCEPT !.pc = "unassign"] = [task[t] EXCEPT !.pc = "unassign", !.free = task[t].free]
        BY <2>1, Zenon DEF Task
      <4> QED
        BY <1>35, <3>2, <4>1 DEF Withdraw, Goto
    <3> QED
      BY <3>1, <3>2
  <2> HIDE DEF free
  <2>4. v \in Task /\ v.pc = "unassign" /\ v.o = o /\ v.p = task[t].p /\ v.saw = task[t].saw
    BY <2>1, <2>2, Zenon DEF Task
  <2> HIDE DEF v
  <2>5. /\ task'[t] = v
        /\ \A u \in Tasks : u # t => task'[u] = task[u]
    BY <2>3, <2>4, BecomeOK DEF Sound, Inv
  <2>6. /\ UNCHANGED <<status, asg, partner>>
        /\ \A x \in Orders : offeredTo'[x] = IF x = o /\ offeredTo[o] = r THEN None ELSE offeredTo[x]
    BY <1>35, <2>1 DEF Withdraw, Clear, Sound, Inv, DataOK, holdVars, offerVars
  <2>7. \A u \in Tasks : KnowsHolder(task[u], status, asg, partner)'
    <3>1. KnowsHolder(v, status', asg', partner')
      BY <2>1, <2>4, <2>6 DEF Sound, KnowsHolder, ReleasePcs
    <3> QED
      BY <1>0, <2>3, <2>4, <2>6, <3>1, OthersKnow
  <2>8. TakenBack'
    <3> SUFFICES ASSUME NEW x \in Orders, status[x] = "cancelled"
                 PROVE  /\ offeredTo'[x] # None => \E u \in Tasks : WillWithdraw(task'[u], x, offeredTo'[x])
                        /\ asg[x] \in Held => \E u \in Tasks : WillUnassign(task'[u], x, asg[x], partner[x])
      BY <2>6 DEF TakenBack, WillWithdraw, WillUnassign
    <3>1. ASSUME offeredTo'[x] # None
          PROVE  \E u \in Tasks : WillWithdraw(task'[u], x, offeredTo'[x])
      <4>1. PICK u \in Tasks : WillWithdraw(task[u], x, offeredTo[x])
        BY <2>6, <3>1 DEF Sound, TakenBack
      <4>2. u # t /\ offeredTo'[x] = offeredTo[x]
        BY <2>1, <2>6, <3>1, <4>1 DEF WillWithdraw
      <4> QED
        BY <2>5, <4>1, <4>2
    <3>2. ASSUME asg[x] \in Held
          PROVE  \E u \in Tasks : WillUnassign(task'[u], x, asg[x], partner[x])
      <4>1. PICK u \in Tasks : WillUnassign(task[u], x, asg[x], partner[x])
        BY <3>2 DEF Sound, TakenBack
      <4> QED
        BY <2>1, <2>4, <2>5, <4>1 DEF WillUnassign
    <3> QED
      BY <3>1, <3>2
  <2> QED
    BY <1>0, <2>6, <2>7, <2>8 DEF Sound, OneHolder, KeepsRider
<1>36. ASSUME NEW t \in Tasks, Unassign(t)
      PROVE  Sound' /\ KeepsRider
  <2> DEFINE o == task[t].o
             p == task[t].p
             mine == task[t].saw \in Held /\ p # None /\ asg[o] = task[t].saw /\ partner[o] = p
             free == IF mine THEN task[t].free \union {p} ELSE task[t].free
             v == [task[t] EXCEPT !.pc = "freeing", !.free = free]
  <2>1. /\ task[t] \in Task /\ o \in Orders /\ task[t].pc = "unassign" /\ p \in MaybeRider
        /\ status[o] = "cancelled"
    BY <1>36 DEF Unassign, At, Sound, Inv, Knows, KnowsHolder, ReleasePcs, Task
  <2>2. free \in SUBSET Riders /\ "freeing" \in Pcs
    BY <2>1 DEF Task, MaybeRider, Pcs
  <2>3. Become(t, v)
    <3>1. CASE mine
      BY <1>36, <3>1 DEF Unassign
    <3>2. CASE ~mine
      <4>1. [task[t] EXCEPT !.pc = "freeing"] = [task[t] EXCEPT !.pc = "freeing", !.free = task[t].free]
        BY <2>1, Zenon DEF Task
      <4> QED
        BY <1>36, <3>2, <4>1 DEF Unassign, Goto
    <3> QED
      BY <3>1, <3>2
  <2> HIDE DEF free
  <2>4. v \in Task /\ v.pc = "freeing" /\ v.o = o
    BY <2>1, <2>2, Zenon DEF Task
  <2> HIDE DEF v
  <2>5. /\ task'[t] = v
        /\ \A u \in Tasks : u # t => task'[u] = task[u]
    BY <2>3, <2>4, BecomeOK DEF Sound, Inv
  <2>6. /\ UNCHANGED <<status, offeredTo>>
        /\ \A x \in Orders : ~(x = o /\ mine) => asg'[x] = asg[x] /\ partner'[x] = partner[x]
        /\ mine => asg'[o] \notin Held /\ partner'[o] \in {None, partner[o]}
    BY <1>36, <2>1 DEF Unassign, Sound, Inv, DataOK, Held, holdVars, offerVars
  <2>7. \A u \in Tasks : KnowsHolder(task[u], status, asg, partner)'
    <3>1. KnowsHolder(v, status', asg', partner')
      BY <2>4 DEF KnowsHolder, ReleasePcs
    <3>2. \A x \in Orders : asg[x] = "delivered" /\ partner[x] # None
                            => asg'[x] = "delivered" /\ partner'[x] # None
      BY <2>6 DEF Held
    <3> QED
      BY <1>0, <2>3, <2>4, <2>6, <3>1, <3>2, OthersKnow
  <2>8. TakenBack'
    <3> SUFFICES ASSUME NEW x \in Orders, status[x] = "cancelled"
                 PROVE  /\ offeredTo[x] # None => \E u \in Tasks : WillWithdraw(task'[u], x, offeredTo[x])
                        /\ asg'[x] \in Held => \E u \in Tasks : WillUnassign(task'[u], x, asg'[x], partner'[x])
      BY <2>6 DEF TakenBack, WillWithdraw, WillUnassign
    <3>1. ASSUME offeredTo[x] # None
          PROVE  \E u \in Tasks : WillWithdraw(task'[u], x, offeredTo[x])
      BY <2>1, <2>5, <3>1 DEF Sound, TakenBack, WillWithdraw
    <3>2. ASSUME asg'[x] \in Held
          PROVE  \E u \in Tasks : WillUnassign(task'[u], x, asg'[x], partner'[x])
      <4>1. ~(x = o /\ mine) /\ asg'[x] = asg[x] /\ partner'[x] = partner[x]
        BY <2>6, <3>2
      <4>2. PICK u \in Tasks : WillUnassign(task[u], x, asg[x], partner[x])
        BY <3>2, <4>1 DEF Sound, TakenBack
      <4>3. u # t
        BY <2>1, <3>2, <4>1, <4>2 DEF WillUnassign, Sound, OneHolder
      <4> QED
        BY <2>5, <4>1, <4>2, <4>3
    <3> QED
      BY <3>1, <3>2
  <2>9. OneHolder' /\ KeepsRider
    BY <2>1, <2>6 DEF Sound, OneHolder, KeepsRider
  <2> QED
    BY <1>0, <2>7, <2>8, <2>9 DEF Sound
<1>37. CASE UNCHANGED vars
  BY <1>0, <1>37 DEF vars, Sound, KnowsHolder, OneHolder, TakenBack, WillWithdraw, WillUnassign,
     KeepsRider
<1>38. ASSUME NEW o \in Orders, Age(o)
       PROVE  Sound' /\ KeepsRider
  BY <1>0, <1>38 DEF Age, Sound, KnowsHolder, OneHolder, TakenBack, WillWithdraw, WillUnassign,
     KeepsRider, holdVars, offerVars
<1> QED
  BY <1>0, <1>1, <1>2, <1>3, <1>4, <1>5, <1>6, <1>7, <1>8, <1>9, <1>10, <1>11, <1>12, <1>13,
     <1>14, <1>15, <1>16, <1>17, <1>18, <1>19, <1>20, <1>21, <1>22, <1>23, <1>24, <1>25, <1>26,
     <1>27, <1>28, <1>29, <1>30, <1>31, <1>32, <1>33, <1>34, <1>35, <1>36, <1>37, <1>38 DEF Next,
     Step, Start

\* The initial state is sound.
LEMMA InitSound == Init => Sound
<1>1. Init => OneHolder /\ TakenBack
  BY DEF Init, OneHolder, TakenBack, Held
<1>2. Init => \A t \in Tasks : KnowsHolder(task[t], status, asg, partner)
  BY IdleOK DEF Init, KnowsHolder, ReleasePcs
<1> QED
  BY <1>1, <1>2, InitInv DEF Sound

\* Sound holds in every reachable state while no administrator gives orders to riders.
LEMMA Soundness == ASSUME Reassigns = {} PROVE Spec => []Sound /\ [][KeepsRider]_vars
<1>1. Init => Sound
  BY InitSound
<1>2. Sound /\ [Next]_vars => Sound' /\ KeepsRider
  BY NextSound
<1> QED
  BY <1>1, <1>2, PTL DEF Spec

\* A cancelled order is out of every rider's hands once releaseAssignmentForCancelledOrder has
\* run, whatever riders, kitchen and sweeps do at the same time (no administrator reassigning).
THEOREM CancelledReleased == ASSUME Reassigns = {} PROVE Spec => []CancelledIsReleased
<1>1. Sound => CancelledIsReleased
  BY DEF Sound, TakenBack, WillWithdraw, WillUnassign, CancelledIsReleased, Releasing
<1> QED
  BY <1>1, Soundness, PTL

\* acceptOrder never takes an order from the rider who holds it (no administrator
\* reassigning): a rider loses an order only by its cancellation.
THEOREM HolderKept == ASSUME Reassigns = {} PROVE Spec => NoTakeover
<1>1. KeepsRider =>
        (\A o \in Orders : partner[o] # None /\ partner'[o] # partner[o]
           => \/ partner'[o] = None /\ status[o] = "cancelled"
              \/ \E t \in Tasks : At(t, "reassign") /\ task[t].o = o /\ task[t].r = partner'[o])
  BY DEF KeepsRider
<1> QED
  BY <1>1, Soundness, PTL DEF NoTakeover
-----------------------------------------------------------------------------
\* One handler at a time: offers.

Alone == \A t, u \in Tasks : t = u

\* The rider a handler with the registers v is about to ask has no other order's offer.
Unasked(v) == v.pc = "offer" => \A x \in Orders \ {v.o} : ~(Live(x) /\ offeredTo[x] = v.r)

OffersOK ==
    /\ OneOfferAtATime
    /\ \A t \in Tasks : Unasked(task[t])

\* A step that offers nothing.
NoNewOffer == \A x \in Orders : Live(x)' => Live(x) /\ offeredTo'[x] = offeredTo[x]

\* A step that offers nothing, of a handler that is not about to.
LEMMA NoOfferOK ==
    ASSUME OffersOK, NoNewOffer,
           \A t \in Tasks : task'[t].pc = "offer" => task'[t] = task[t]
    PROVE  OffersOK'
BY DEF OffersOK, OneOfferAtATime, Unasked, NoNewOffer

\* A handler that starts offers nothing.
LEMMA StartOffersNothing ==
    ASSUME Inv, Alone, NEW t \in Tasks, OffersOK, NEW o, NEW pc, NEW r, NEW p, NEW saw,
           Begin(t, pc, o, r, p, saw), pc # "offer", UNCHANGED <<offeredTo, lapsed>>
    PROVE  OffersOK'
<1>1. task'[t].pc = pc
  BY DEF Begin, Become, Inv
<1>2. \A u \in Tasks : u = t
  BY DEF Alone
<1>3. NoNewOffer
  BY DEF NoNewOffer, Live
<1> QED
  BY <1>1, <1>2, <1>3, NoOfferOK

\* Every step keeps the live offers of different orders at different riders, while handlers do
\* not interleave.
LEMMA NextOffers ==
    ASSUME Inv, Alone, OffersOK, [Next]_vars
    PROVE  OffersOK'
<1>1. ASSUME NEW t \in Tasks, NEW o \in Orders, Start(t, o)
      PROVE  OffersOK'
  <2>1. UNCHANGED <<offeredTo, lapsed>>
    BY <1>1, Zenon DEF Start, AcceptOrder, ExpireStale, SweepUnassigned, MarkDelivered, Cancel,
       AcceptOffer, RejectOffer, VerifyPickup, DeliverOrder, ReassignPartner, offerVars
  <2>2. \E pc, r, p, saw : Begin(t, pc, o, r, p, saw) /\ pc # "offer"
    BY <1>1 DEF Start, AcceptOrder, ExpireStale, SweepUnassigned, MarkDelivered, Cancel,
       AcceptOffer, RejectOffer, VerifyPickup, DeliverOrder, ReassignPartner
  <2> QED
    BY <2>1, <2>2, StartOffersNothing
<1>2. ASSUME NEW t \in Tasks, NEW r \in Riders, ToggleDuty(t, r)
      PROVE  OffersOK'
  BY <1>2, StartOffersNothing DEF ToggleDuty, offerVars
<1>3. ASSUME NEW o \in Orders, Lapse(o) \/ SendOut(o)
      PROVE  OffersOK'
  <2>1. NoNewOffer /\ task' = task
    BY <1>3 DEF Lapse, SendOut, NoNewOffer, Live, offerVars, Inv, DataOK
  <2> QED
    BY <2>1, NoOfferOK
<1>4. ASSUME NEW t \in Tasks, Search(t)
      PROVE  OffersOK'
  <2>1. \A u \in Tasks : u = t
    BY DEF Alone
  <2>2. UNCHANGED <<offeredTo, lapsed>> /\ task[t] \in Task
    BY <1>4 DEF Search, offerVars, Inv
  <2>3. CASE Finish(t)
    <3>1. task'[t].pc = "idle"
      BY <2>3, IdleOK DEF Finish, Become, Inv
    <3> QED
      BY <2>1, <2>2, <3>1, NoOfferOK DEF NoNewOffer, Live
  <2>4. CASE ~Finish(t)
    <3>1. PICK r \in Riders : /\ Available(task[t].o, r)
                              /\ Become(t, [task[t] EXCEPT !.pc = "offer", !.r = r])
      BY <1>4, <2>4 DEF Search
    <3>2. task'[t].o = task[t].o /\ task'[t].r = r
      BY <2>2, <3>1 DEF Become, Inv, Task
    <3>3. \A o \in Orders : Live(o)' <=> Live(o)
      BY <2>2 DEF Live
    <3>4. OneOfferAtATime'
      BY <2>2, <3>3 DEF OffersOK, OneOfferAtATime
    <3>5. Unasked(task[t])'
      BY <2>2, <3>1, <3>2, <3>3 DEF Unasked, Available
    <3> QED
      BY <2>1, <3>4, <3>5 DEF OffersOK
  <2> QED
    BY <2>3, <2>4
<1>5. ASSUME NEW t \in Tasks, Offer(t)
      PROVE  OffersOK'
  <2>1. /\ \A u \in Tasks : u = t
        /\ task'[t].pc = "idle" /\ task[t].o \in Orders /\ task[t].r \in Riders
    BY <1>5, IdleOK DEF Alone, Offer, Finish, Become, Inv, Knows, At
  <2>2. PICK o \in Orders, r \in Riders : o = task[t].o /\ r = task[t].r
    BY <2>1
  <2>3. \/ UNCHANGED <<offeredTo, lapsed>>
        \/ offeredTo' = [offeredTo EXCEPT ![o] = r] /\ lapsed' = [lapsed EXCEPT ![o] = FALSE]
    BY <1>5, <2>2, Zenon DEF Offer
  <2>4. \A x \in Orders \ {o} : ~(Live(x) /\ offeredTo[x] = r)
    BY <1>5, <2>2 DEF Offer, At, OffersOK, Unasked
  <2>5. /\ \A x \in Orders \ {o} : offeredTo'[x] = offeredTo[x] /\ lapsed'[x] = lapsed[x]
        /\ UNCHANGED <<offeredTo, lapsed>> \/ offeredTo'[o] = r
    BY <2>3 DEF Inv, DataOK
  <2>6. OneOfferAtATime'
    BY <2>4, <2>5 DEF OffersOK, OneOfferAtATime, Live
  <2> QED
    BY <2>1, <2>6 DEF OffersOK, Unasked
<1>6. ASSUME NEW t \in Tasks, Step(t), ~Search(t), ~Offer(t)
      PROVE  OffersOK'
  <2>1. task[t] \in Task /\ task \in [Tasks -> Task] /\ \A u \in Tasks : u = t
    BY DEF Inv, Alone
  <2>2. NoNewOffer
    <3>1. CASE Expire(t) \/ Accept(t) \/ Reject(t) \/ Withdraw(t)
      BY <3>1 DEF Expire, Accept, Reject, Withdraw, Clear, NoNewOffer, Live, offerVars, Inv, DataOK
    <3>2. CASE ~(Expire(t) \/ Accept(t) \/ Reject(t) \/ Withdraw(t))
      <4>1. UNCHANGED <<offeredTo, lapsed>>
        BY <1>6, <3>2, Zenon DEF Step, CountBusy, SetBusy, KitchenClose, KitchenSave, Release,
           Unassign, Freeing, SetFree, PickUp, Handoff, Handover, Close, Bill, BillWrite, Count,
           Reassign, SaveDuty, offerVars
      <4> QED
        BY <4>1 DEF NoNewOffer, Live
    <3> QED
      BY <3>1, <3>2
  <2>3. \E v : v.pc # "offer" /\ Become(t, v)
    <3>1. CASE Expire(t) \/ Accept(t) \/ CountBusy(t) \/ SetBusy(t) \/ Reject(t) \/ Release(t)
      BY <2>1, <3>1, IdleOK DEF Expire, Accept, CountBusy, SetBusy, Reject, Release, Finish, Goto, Task
    <3>2. CASE KitchenClose(t) \/ KitchenSave(t) \/ Withdraw(t) \/ Unassign(t) \/ Freeing(t)
      BY <2>1, <3>2, IdleOK DEF KitchenClose, KitchenSave, Withdraw, Unassign, Freeing, Finish, Goto, Task
    <3>3. CASE SetFree(t) \/ PickUp(t) \/ Handoff(t) \/ Handover(t) \/ Close(t) \/ Bill(t)
      BY <2>1, <3>3, IdleOK DEF SetFree, PickUp, Handoff, Handover, Close, Bill, Finish, Goto, Task
    <3>4. CASE BillWrite(t) \/ Count(t) \/ Reassign(t) \/ SaveDuty(t)
      BY <2>1, <3>4, IdleOK DEF BillWrite, Count, Reassign, SaveDuty, Finish, Goto, Task
    <3> QED
      BY <1>6, <3>1, <3>2, <3>3, <3>4 DEF Step
  <2> QED
    BY <2>1, <2>2, <2>3, NoOfferOK DEF Become
<1>7. CASE UNCHANGED vars \/ \E o \in Orders : Age(o)
  BY <1>7, NoOfferOK DEF vars, Age, offerVars, NoNewOffer, Live
<1> QED
  BY <1>1, <1>2, <1>3, <1>4, <1>5, <1>6, <1>7 DEF Next

\* While handlers do not interleave, autoAssign's test of a rider's offers holds until its
\* write: a rider has one live offer at a time, for any orders, riders and reassignments.
THEOREM OneOffer == ASSUME Alone PROVE Spec => []OneOfferAtATime
<1>1. Init => OffersOK
  BY IdleOK DEF Init, OffersOK, OneOfferAtATime, Live, Unasked
<1>2. Inv /\ OffersOK /\ [Next]_vars => OffersOK'
  BY NextOffers
<1>3. OffersOK => OneOfferAtATime
  BY DEF OffersOK
<1> QED
  BY <1>1, <1>2, <1>3, Invariance, PTL DEF Spec

-----------------------------------------------------------------------------
\* One handler at a time: busy riders.

\* Where a handler has riders to free.
FreeingPcs == {"unassign", "freeing", "setFree", "close", "kitchenSave", "bill", "billWrite",
               "count"}

\* What a handler with the registers v knows of its order's rider and of its rider's load.
KnowsLoad(v) ==
    /\ v.pc = "reassign" => partner[v.o] = None /\ offeredTo[v.o] = None
    /\ v.pc = "setBusy" => Load(v.r) >= MaxActive
    /\ v.pc = "kitchenSave" => partner[v.o] \in v.free \union {None}
    /\ v.pc \notin FreeingPcs => v.free = {}

\* A handler with the registers v is going to look whether r is still busy.
WillFree(v, r) == r \in v.free \/ (v.pc = "setFree" /\ v.r = r)

OfferedIsFree == \A o \in Orders : offeredTo[o] # None => partner[o] = None

\* A busy rider has as many orders as a rider may, or is about to be freed.
BusyOK ==
    /\ \A r \in Riders : rider[r] = "busy"
          => Load(r) >= MaxActive \/ \E t \in Tasks : WillFree(task[t], r)
    /\ \A t \in Tasks : KnowsLoad(task[t])
    /\ OfferedIsFree

\* r loses no order.
HoldsOnto(r) ==
    \A o \in Orders : partner[o] = r /\ asg[o] \in Held => partner'[o] = r /\ asg'[o] \in Held

\* A rider who loses no order has no lower load.
LEMMA LoadOK ==
    ASSUME NEW r
    PROVE  Load(r) \in Nat /\ Load(r)' \in Nat /\ (HoldsOnto(r) => Load(r)' >= Load(r))
<1> DEFINE S == {o \in Orders : partner[o] = r /\ asg[o] \in Held}
           T == {o \in Orders : partner'[o] = r /\ asg'[o] \in Held}
<1>1. IsFiniteSet(S) /\ IsFiniteSet(T)
  BY OrdersAssumption, FS_Subset
<1>2. Cardinality(S) \in Nat /\ Cardinality(T) \in Nat
  BY <1>1, FS_CardinalityType
<1>3. HoldsOnto(r) => Cardinality(S) <= Cardinality(T)
  BY <1>1, FS_Subset DEF HoldsOnto
<1>4. Load(r) = Cardinality(S) /\ Load(r)' = Cardinality(T)
  BY DEF Load
<1> QED
  BY <1>2, <1>3, <1>4

\* A step of the one handler after which it knows what it should, and every busy rider will be
\* looked at, has a full load, or was busy before and lost nothing.
LEMMA BusyStep ==
    ASSUME Alone, Inv, BusyOK, NEW t \in Tasks, NEW v, Become(t, v), KnowsLoad(v)',
           OfferedIsFree',
           \A r \in Riders : rider'[r] = "busy" =>
               \/ WillFree(v, r) \/ (Load(r) >= MaxActive)'
               \/ rider[r] = "busy" /\ ~WillFree(task[t], r) /\ HoldsOnto(r)
    PROVE  BusyOK'
<1>1. task'[t] = v /\ \A u \in Tasks : u = t
  BY DEF Become, Inv, Alone
<1>2. \A u \in Tasks : KnowsLoad(task[u])'
  BY <1>1
<1>3. ASSUME NEW r \in Riders, rider'[r] = "busy"
      PROVE  (Load(r) >= MaxActive)' \/ \E u \in Tasks : WillFree(task'[u], r)
  <2>1. CASE WillFree(v, r) \/ (Load(r) >= MaxActive)'
    BY <1>1, <2>1
  <2>2. CASE rider[r] = "busy" /\ ~WillFree(task[t], r) /\ HoldsOnto(r)
    <3>1. Load(r) >= MaxActive
      BY <1>1, <2>2 DEF BusyOK
    <3>2. Load(r) \in Nat /\ Load(r)' \in Nat /\ Load(r)' >= Load(r)
      BY <2>2, LoadOK
    <3>3. Load(r)' >= MaxActive
      BY <3>1, <3>2, LimitsAssumption
    <3> QED
      BY <3>3
  <2> QED
    BY <1>3, <2>1, <2>2
<1>4. (\A r \in Riders : rider[r] = "busy"
          => Load(r) >= MaxActive \/ \E u \in Tasks : WillFree(task[u], r))'
  BY <1>3 DEF WillFree
<1> QED
  BY <1>2, <1>4 DEF BusyOK

\* A step that changes neither riders nor what they hold, and forgets nobody.
LEMMA CalmStep ==
    ASSUME Alone, Inv, BusyOK, NEW t \in Tasks, NEW v, Become(t, v), KnowsLoad(v)',
           OfferedIsFree', UNCHANGED <<asg, partner, rider>>,
           \A r \in Riders : WillFree(task[t], r) => WillFree(v, r) \/ Load(r) >= MaxActive
    PROVE  BusyOK'
<1>1. \A r : HoldsOnto(r) /\ Load(r)' = Load(r)
  BY DEF HoldsOnto, Load
<1> QED
  BY <1>1, BusyStep

\* A handler starts.
LEMMA BusyBegin ==
    ASSUME Alone, Inv, BusyOK, NEW t \in Tasks, NEW o \in Orders \union {None}, NEW pc, NEW r,
           NEW p, NEW saw,
           Begin(t, pc, o, r, p, saw), pc \notin FreeingPcs \union {"setBusy"},
           pc = "reassign" => partner[o] = None /\ offeredTo[o] = None,
           UNCHANGED <<asg, partner, rider, offeredTo>>
    PROVE  BusyOK'
<1> DEFINE v == [pc |-> pc, o |-> o, r |-> r, p |-> p, saw |-> saw, free |-> {}]
<1>1. v.pc = pc /\ v.free = {} /\ v.o = o
  OBVIOUS
<1>2. Become(t, v) /\ task[t].pc = "idle"
  BY Zenon DEF Begin, At
<1> HIDE DEF v
<1>3. KnowsLoad(v)' /\ OfferedIsFree'
  BY <1>1 DEF KnowsLoad, FreeingPcs, BusyOK, OfferedIsFree
<1>4. \A x \in Riders : ~WillFree(task[t], x)
  BY <1>2 DEF BusyOK, KnowsLoad, FreeingPcs, WillFree
<1> QED
  BY <1>2, <1>3, <1>4, CalmStep

\* A handler goes on.
LEMMA BusyGoto ==
    ASSUME Alone, Inv, BusyOK, NEW t \in Tasks, NEW pc, Goto(t, pc),
           pc \notin {"reassign", "setBusy", "kitchenSave"}, task[t].pc # "setFree",
           pc \in FreeingPcs \/ task[t].pc \notin FreeingPcs,
           OfferedIsFree', UNCHANGED <<asg, partner, rider>>
    PROVE  BusyOK'
<1> PICK v : v = [task[t] EXCEPT !.pc = pc]
  OBVIOUS
<1>1. v.pc = pc /\ v.free = task[t].free /\ Become(t, v)
  BY DEF Goto, Inv, Task
<1>2. KnowsLoad(v)'
  BY <1>1 DEF KnowsLoad, BusyOK
<1>3. \A x \in Riders : WillFree(task[t], x) => WillFree(v, x)
  BY <1>1 DEF WillFree
<1> QED
  BY <1>1, <1>2, <1>3, CalmStep

\* A handler with nobody to free returns.
LEMMA BusyFinish ==
    ASSUME Alone, Inv, BusyOK, NEW t \in Tasks, Finish(t), task[t].pc # "setFree",
           task[t].pc \notin FreeingPcs \/ task[t].free = {},
           OfferedIsFree', UNCHANGED <<asg, partner, rider>>
    PROVE  BusyOK'
<1>1. KnowsLoad(Idle)' /\ Become(t, Idle)
  BY DEF KnowsLoad, Idle, Finish
<1>2. \A x \in Riders : ~WillFree(task[t], x)
  BY DEF WillFree, BusyOK, KnowsLoad
<1> QED
  BY <1>1, <1>2, CalmStep

\* Every step keeps busy riders loaded or about to be freed, while handlers do not interleave
\* and administrators give away waiting orders only.
LEMMA NextBusy ==
    ASSUME Inv, Alone, Reassigns \subseteq {"waiting"}, BusyOK, [Next]_vars
    PROVE  BusyOK'
<1>1. ASSUME NEW t \in Tasks, NEW o \in Orders, Start(t, o)
      PROVE  BusyOK'
  <2>1. UNCHANGED <<asg, partner, rider, offeredTo>>
    BY <1>1, Zenon DEF Start, AcceptOrder, ExpireStale, SweepUnassigned, MarkDelivered, Cancel,
       AcceptOffer, RejectOffer, VerifyPickup, DeliverOrder, ReassignPartner, offerVars, holdVars
  <2>2. CASE \E r \in Riders : ReassignPartner(t, o, r)
    BY <2>1, <2>2, BusyBegin DEF ReassignPartner, Situation, FreeingPcs
  <2>3. CASE ~\E r \in Riders : ReassignPartner(t, o, r)
    <3>1. \E pc, r, p, saw : /\ Begin(t, pc, o, r, p, saw)
                             /\ pc \notin FreeingPcs \union {"setBusy", "reassign"}
      BY <1>1, <2>3 DEF Start, AcceptOrder, ExpireStale, SweepUnassigned, MarkDelivered, Cancel,
         AcceptOffer, RejectOffer, VerifyPickup, DeliverOrder, FreeingPcs
    <3> QED
      BY <2>1, <3>1, BusyBegin
  <2> QED
    BY <2>2, <2>3
<1>2. ASSUME NEW t \in Tasks, NEW r \in Riders, ToggleDuty(t, r)
      PROVE  BusyOK'
  BY <1>2, BusyBegin DEF ToggleDuty, offerVars, holdVars, FreeingPcs
<1>3. CASE UNCHANGED <<asg, partner, rider, offeredTo, task>>
  BY <1>3 DEF BusyOK, KnowsLoad, WillFree, OfferedIsFree, Load
<1>4. ASSUME NEW t \in Tasks, Search(t)
      PROVE  BusyOK'
  <2>1. OfferedIsFree' /\ UNCHANGED <<asg, partner, rider>> /\ task[t].pc \notin FreeingPcs
    BY <1>4 DEF Search, At, FreeingPcs, BusyOK, OfferedIsFree, holdVars, offerVars
  <2>2. CASE Finish(t)
    BY <1>4, <2>1, <2>2, BusyFinish DEF Search, At
  <2>3. CASE ~Finish(t)
    <3>1. PICK r \in Riders : Become(t, [task[t] EXCEPT !.pc = "offer", !.r = r])
      BY <1>4, <2>3 DEF Search
    <3>2. PICK v : v = [task[t] EXCEPT !.pc = "offer", !.r = r]
      OBVIOUS
    <3>3. v.pc = "offer" /\ v.free = task[t].free /\ Become(t, v) /\ task[t].free = {}
      BY <2>1, <3>1, <3>2 DEF Inv, Task, BusyOK, KnowsLoad
    <3>4. KnowsLoad(v)' /\ \A x \in Riders : ~WillFree(task[t], x)
      BY <2>1, <3>3 DEF KnowsLoad, WillFree, FreeingPcs
    <3> QED
      BY <2>1, <3>3, <3>4, CalmStep
  <2> QED
    BY <2>2, <2>3
<1>5. ASSUME NEW t \in Tasks, Offer(t)
      PROVE  BusyOK'
  <2>1. task[t].o \in Orders /\ OfferedIsFree'
    BY <1>5 DEF Offer, At, BusyOK, OfferedIsFree, Inv, Knows, DataOK, holdVars
  <2> QED
    BY <1>5, <2>1, BusyFinish DEF Offer, At, FreeingPcs, holdVars
<1>6. ASSUME NEW t \in Tasks, Expire(t) \/ Reject(t)
      PROVE  BusyOK'
  <2>1. OfferedIsFree'
    BY <1>6 DEF Expire, Reject, Clear, BusyOK, OfferedIsFree, Inv, DataOK, holdVars, offerVars
  <2>2. Goto(t, "search") \/ Finish(t)
    BY <1>6 DEF Expire, Reject
  <2> QED
    BY <1>6, <2>1, <2>2, BusyGoto, BusyFinish DEF Expire, Reject, At, FreeingPcs, holdVars
<1>7. ASSUME NEW t \in Tasks, Accept(t)
      PROVE  BusyOK'
  <2> DEFINE o == task[t].o
  <2>1. task[t].pc = "accept" /\ o \in Orders /\ task[t].r \in Riders /\ task[t] \in Task
    BY <1>7 DEF Accept, At, Inv, Knows
  <2>2. OfferedIsFree' /\ UNCHANGED rider
    BY <1>7, <2>1 DEF Accept, Clear, BusyOK, OfferedIsFree, Inv, DataOK, holdVars
  <2>3. CASE Finish(t) /\ UNCHANGED holdVars
    BY <2>1, <2>2, <2>3, BusyFinish DEF FreeingPcs, holdVars
  <2>4. CASE ~(Finish(t) /\ UNCHANGED holdVars)
    <3>1. /\ offeredTo[o] = task[t].r /\ Goto(t, "countBusy")
          /\ asg' = [asg EXCEPT ![o] = "assigned"] /\ partner' = [partner EXCEPT ![o] = task[t].r]
      BY <1>7, <2>4 DEF Accept
    <3>2. partner[o] = None
      BY <2>1, <3>1, NoneAssumption DEF BusyOK, OfferedIsFree
    <3>3. \A x \in Riders : HoldsOnto(x)
      BY <2>1, <3>1, <3>2, NoneAssumption DEF HoldsOnto, Inv, DataOK, Held
    <3>4. PICK v : v = [task[t] EXCEPT !.pc = "countBusy"]
      OBVIOUS
    <3>5. v.pc = "countBusy" /\ v.free = {} /\ Become(t, v) /\ task[t].free = {}
      BY <2>1, <3>1, <3>4 DEF Goto, Task, BusyOK, KnowsLoad, FreeingPcs
    <3>6. KnowsLoad(v)' /\ \A x \in Riders : ~WillFree(task[t], x)
      BY <2>1, <3>5 DEF KnowsLoad, WillFree
    <3> QED
      BY <2>2, <3>3, <3>5, <3>6, BusyStep
  <2> QED
    BY <2>3, <2>4
<1>8. ASSUME NEW t \in Tasks, CountBusy(t)
      PROVE  BusyOK'
  <2>1. OfferedIsFree' /\ UNCHANGED <<asg, partner, rider>> /\ task[t].pc = "countBusy"
    BY <1>8 DEF CountBusy, At, BusyOK, OfferedIsFree, holdVars, offerVars
  <2>2. CASE Load(task[t].r) >= MaxActive
    <3>1. PICK v : v = [task[t] EXCEPT !.pc = "setBusy"]
      OBVIOUS
    <3>2. /\ v.pc = "setBusy" /\ v.r = task[t].r /\ v.free = {} /\ Become(t, v)
          /\ task[t].free = {}
      BY <1>8, <2>1, <2>2, <3>1 DEF CountBusy, Goto, Inv, Task, BusyOK, KnowsLoad, FreeingPcs
    <3>3. Load(v.r)' >= MaxActive
      BY <2>1, <2>2, <3>2 DEF Load
    <3>4. KnowsLoad(v)' /\ \A x \in Riders : ~WillFree(task[t], x)
      BY <2>1, <3>2, <3>3 DEF KnowsLoad, WillFree
    <3> QED
      BY <2>1, <3>2, <3>4, CalmStep
  <2>3. CASE ~(Load(task[t].r) >= MaxActive)
    BY <1>8, <2>1, <2>3, BusyFinish DEF CountBusy, FreeingPcs
  <2> QED
    BY <2>2, <2>3
<1>9. ASSUME NEW t \in Tasks, SetBusy(t)
      PROVE  BusyOK'
  <2>1. /\ OfferedIsFree' /\ UNCHANGED <<asg, partner>> /\ Load(task[t].r) >= MaxActive
        /\ task[t].pc = "setBusy" /\ task[t].free = {} /\ Become(t, Idle)
    BY <1>9 DEF SetBusy, At, BusyOK, KnowsLoad, FreeingPcs, OfferedIsFree, holdVars, offerVars, Finish
  <2>2. KnowsLoad(Idle)' /\ \A x \in Riders : ~WillFree(task[t], x) /\ HoldsOnto(x)
    BY <2>1 DEF KnowsLoad, WillFree, Idle, HoldsOnto
  <2>3. \A x \in Riders : rider'[x] = "busy" => x = task[t].r \/ rider[x] = "busy"
    BY <1>9 DEF SetBusy, Inv, DataOK
  <2>4. \A x \in Riders : Load(x)' = Load(x)
    BY <2>1 DEF Load
  <2> QED
    BY <2>1, <2>2, <2>3, <2>4, BusyStep
<1>10. ASSUME NEW t \in Tasks, KitchenClose(t)
      PROVE  BusyOK'
  <2> DEFINE o == task[t].o
  <2>1. /\ OfferedIsFree' /\ UNCHANGED <<asg, partner, rider>> /\ task[t].pc = "kitchenClose"
        /\ task[t].free = {} /\ o \in Orders
    BY <1>10 DEF KitchenClose, At, BusyOK, KnowsLoad, FreeingPcs, OfferedIsFree, holdVars, offerVars,
       Inv, Knows
  <2>2. CASE status[o] = task[t].saw
    <3>1. PICK v : v = [task[t] EXCEPT !.pc = "kitchenSave", !.saw = asg[o],
                                       !.free = {partner[o]} \ {None}]
      OBVIOUS
    <3>2. v.pc = "kitchenSave" /\ v.o = o /\ v.free = {partner[o]} \ {None} /\ Become(t, v)
      BY <1>10, <2>2, <3>1, Zenon DEF KitchenClose, Inv, Task
    <3>3. KnowsLoad(v)' /\ \A x \in Riders : ~WillFree(task[t], x)
      BY <2>1, <3>2 DEF KnowsLoad, WillFree, FreeingPcs
    <3> QED
      BY <2>1, <3>2, <3>3, CalmStep
  <2>3. CASE status[o] # task[t].saw
    BY <1>10, <2>1, <2>3, BusyFinish DEF KitchenClose, FreeingPcs
  <2> QED
    BY <2>2, <2>3
<1>11. ASSUME NEW t \in Tasks, KitchenSave(t)
      PROVE  BusyOK'
  <2> DEFINE o == task[t].o
  <2>1. /\ OfferedIsFree' /\ UNCHANGED <<partner, rider>> /\ task[t].pc = "kitchenSave"
        /\ o \in Orders /\ partner[o] \in task[t].free \union {None}
    BY <1>11 DEF KitchenSave, At, BusyOK, KnowsLoad, OfferedIsFree, offerVars, Inv, Knows
  <2>2. PICK v : v = [task[t] EXCEPT !.pc = "bill"]
    OBVIOUS
  <2>3. v.pc = "bill" /\ v.free = task[t].free /\ Become(t, v)
    BY <1>11, <2>2 DEF KitchenSave, Goto, Inv, Task
  <2>4. \A x \in Riders : HoldsOnto(x) \/ WillFree(v, x)
    BY <1>11, <2>1, <2>3, NoneAssumption DEF KitchenSave, HoldsOnto, WillFree, Inv, DataOK
  <2>5. KnowsLoad(v)' /\ \A x \in Riders : WillFree(task[t], x) => WillFree(v, x)
    BY <2>1, <2>3 DEF KnowsLoad, FreeingPcs, WillFree
  <2> QED
    BY <2>1, <2>3, <2>4, <2>5, BusyStep
<1>12. ASSUME NEW t \in Tasks, Release(t)
      PROVE  BusyOK'
  <2>1. /\ OfferedIsFree' /\ UNCHANGED <<asg, partner, rider>> /\ task[t].pc = "release"
        /\ task[t].free = {}
    BY <1>12 DEF Release, At, BusyOK, KnowsLoad, FreeingPcs, OfferedIsFree, holdVars, offerVars
  <2>2. PICK v : v = [task[t] EXCEPT !.pc = "withdraw", !.r = offeredTo[task[t].o],
                                     !.p = partner[task[t].o], !.saw = asg[task[t].o]]
    OBVIOUS
  <2>3. v.pc = "withdraw" /\ v.free = task[t].free /\ Become(t, v)
    BY <1>12, <2>2, Zenon DEF Release, Inv, Task
  <2>4. KnowsLoad(v)' /\ \A x \in Riders : ~WillFree(task[t], x)
    BY <2>1, <2>3 DEF KnowsLoad, WillFree
  <2> QED
    BY <2>1, <2>3, <2>4, CalmStep
<1>13. ASSUME NEW t \in Tasks, Withdraw(t)
      PROVE  BusyOK'
  <2>1. /\ UNCHANGED <<asg, partner, rider>> /\ task[t].pc = "withdraw" /\ task[t].free = {}
    BY <1>13 DEF Withdraw, At, BusyOK, KnowsLoad, FreeingPcs, holdVars
  <2>2. OfferedIsFree'
    BY <1>13, <2>1 DEF Withdraw, Clear, BusyOK, OfferedIsFree, offerVars, Inv, DataOK
  <2>3. PICK v : Become(t, v) /\ v.pc = "unassign"
    <3>1. task[t] \in Task
      BY DEF Inv
    <3>2. /\ [task[t] EXCEPT !.pc = "unassign"].pc = "unassign"
          /\ \A x : [task[t] EXCEPT !.pc = "unassign", !.free = @ \union {x}].pc = "unassign"
      BY <3>1, Zenon DEF Task
    <3> QED
      BY <1>13, <3>2, Zenon DEF Withdraw, Goto
  <2>4. KnowsLoad(v)' /\ \A x \in Riders : ~WillFree(task[t], x)
    BY <2>1, <2>3 DEF KnowsLoad, WillFree, FreeingPcs
  <2> QED
    BY <2>1, <2>2, <2>3, <2>4, CalmStep
<1>14. ASSUME NEW t \in Tasks, Unassign(t)
      PROVE  BusyOK'
  <2> DEFINE o == task[t].o
             p == task[t].p
  <2>1. /\ task[t].pc = "unassign" /\ o \in Orders /\ task[t] \in Task /\ UNCHANGED <<rider, offeredTo>>
    BY <1>14 DEF Unassign, At, Inv, Knows, offerVars
  <2>2. CASE Goto(t, "freeing") /\ UNCHANGED holdVars
    <3>1. OfferedIsFree'
      BY <2>1, <2>2 DEF BusyOK, OfferedIsFree, holdVars
    <3> QED
      BY <2>1, <2>2, <3>1, BusyGoto DEF FreeingPcs, holdVars
  <2>3. CASE ~(Goto(t, "freeing") /\ UNCHANGED holdVars)
    <3>1. PICK v : v = [task[t] EXCEPT !.pc = "freeing", !.free = @ \union {p}]
      OBVIOUS
    <3>2. /\ Become(t, v) /\ partner[o] = p
          /\ asg' \in {[asg EXCEPT ![o] = "failed"], [asg EXCEPT ![o] = "unassigned"]}
          /\ partner' \in {partner, [partner EXCEPT ![o] = None]}
      BY <1>14, <2>3, <3>1 DEF Unassign
    <3>3. v.pc = "freeing" /\ v.free = task[t].free \union {p}
      BY <2>1, <3>1 DEF Task
    <3>4. OfferedIsFree'
      BY <2>1, <3>2 DEF BusyOK, OfferedIsFree, Inv, DataOK
    <3>5. \A x \in Riders : /\ HoldsOnto(x) \/ WillFree(v, x)
                            /\ WillFree(task[t], x) => WillFree(v, x)
      BY <2>1, <3>2, <3>3 DEF HoldsOnto, WillFree, Inv, DataOK
    <3>6. KnowsLoad(v)'
      BY <3>3 DEF KnowsLoad, FreeingPcs
    <3> QED
      BY <2>1, <3>2, <3>4, <3>5, <3>6, BusyStep
  <2> QED
    BY <2>2, <2>3
<1>15. ASSUME NEW t \in Tasks, Freeing(t)
      PROVE  BusyOK'
  <2>1. /\ OfferedIsFree' /\ UNCHANGED <<asg, partner, rider>> /\ task[t].pc = "freeing"
        /\ task[t] \in Task
    BY <1>15 DEF Freeing, At, BusyOK, OfferedIsFree, holdVars, offerVars, Inv
  <2>2. CASE task[t].free = {} /\ Finish(t)
    BY <2>1, <2>2, BusyFinish
  <2>3. CASE ~(task[t].free = {} /\ Finish(t))
    <3>1. PICK r \in task[t].free :
             Become(t, [task[t] EXCEPT !.free = @ \ {r}, !.r = r,
                                       !.pc = IF Load(r) < MaxActive THEN "setFree" ELSE "freeing"])
      BY <1>15, <2>3 DEF Freeing
    <3>2. PICK v : v = [task[t] EXCEPT !.free = @ \ {r}, !.r = r,
                                       !.pc = IF Load(r) < MaxActive THEN "setFree" ELSE "freeing"]
      OBVIOUS
    <3>3. /\ v.pc = (IF Load(r) < MaxActive THEN "setFree" ELSE "freeing")
          /\ v.r = r /\ v.free = task[t].free \ {r} /\ Become(t, v)
      BY <2>1, <3>1, <3>2 DEF Task
    <3>4. KnowsLoad(v)'
      BY <3>3 DEF KnowsLoad, FreeingPcs
    <3>5. Load(r) < MaxActive \/ Load(r) >= MaxActive
      BY LoadOK, LimitsAssumption
    <3>6. \A x \in Riders : WillFree(task[t], x) => WillFree(v, x) \/ Load(x) >= MaxActive
      BY <2>1, <3>3, <3>5 DEF WillFree
    <3> QED
      BY <2>1, <3>3, <3>4, <3>6, CalmStep
  <2> QED
    BY <2>2, <2>3
<1>16. ASSUME NEW t \in Tasks, SetFree(t)
      PROVE  BusyOK'
  <2>1. /\ OfferedIsFree' /\ UNCHANGED <<asg, partner>> /\ task[t].pc = "setFree"
    BY <1>16 DEF SetFree, At, BusyOK, OfferedIsFree, holdVars, offerVars
  <2>2. PICK v : v = [task[t] EXCEPT !.pc = "freeing"]
    OBVIOUS
  <2>3. v.pc = "freeing" /\ v.free = task[t].free /\ Become(t, v)
    BY <1>16, <2>2 DEF SetFree, Goto, Inv, Task
  <2>4. \A x \in Riders : rider'[x] = "busy" => rider[x] = "busy" /\ x # task[t].r
    BY <1>16 DEF SetFree, Inv, DataOK
  <2>5. KnowsLoad(v)' /\ \A x \in Riders : HoldsOnto(x)
    BY <2>1, <2>3 DEF KnowsLoad, FreeingPcs, HoldsOnto
  <2>6. \A x \in Riders : x # task[t].r /\ WillFree(task[t], x) => WillFree(v, x)
    BY <2>3 DEF WillFree
  <2> QED
    BY <2>1, <2>3, <2>4, <2>5, <2>6, BusyStep
<1>17. ASSUME NEW t \in Tasks, PickUp(t)
      PROVE  BusyOK'
  <2>1. /\ OfferedIsFree' /\ UNCHANGED <<partner, rider>> /\ task[t].pc = "pickup"
        /\ task[t].o \in Orders /\ task[t].free = {} /\ task[t] \in Task
    BY <1>17 DEF PickUp, At, BusyOK, KnowsLoad, FreeingPcs, OfferedIsFree, offerVars, Inv, Knows
  <2>2. \A x \in Riders : HoldsOnto(x) /\ ~WillFree(task[t], x)
    BY <1>17, <2>1 DEF PickUp, HoldsOnto, Held, WillFree, Inv, DataOK
  <2>3. PICK v : Become(t, v) /\ v.pc \in {"handoff", "idle"} /\ v.free = {}
    BY <1>17, <2>1 DEF PickUp, Goto, Finish, Idle, Task
  <2>4. KnowsLoad(v)'
    BY <2>3 DEF KnowsLoad
  <2> QED
    BY <2>1, <2>2, <2>3, <2>4, BusyStep
<1>18. ASSUME NEW t \in Tasks, Handoff(t)
      PROVE  BusyOK'
  <2>1. OfferedIsFree' /\ UNCHANGED <<asg, partner, rider>>
    BY <1>18 DEF Handoff, BusyOK, OfferedIsFree, holdVars, offerVars
  <2> QED
    BY <1>18, <2>1, BusyFinish DEF Handoff, At, FreeingPcs
<1>19. ASSUME NEW t \in Tasks, Handover(t)
      PROVE  BusyOK'
  <2> DEFINE o == task[t].o
  <2>1. /\ OfferedIsFree' /\ UNCHANGED <<partner, rider>> /\ task[t].pc = "handover"
        /\ o \in Orders /\ task[t].free = {} /\ task[t] \in Task
    BY <1>19 DEF Handover, At, BusyOK, KnowsLoad, FreeingPcs, OfferedIsFree, offerVars, Inv, Knows
  <2>2. CASE Finish(t) /\ UNCHANGED asg
    BY <2>1, <2>2, BusyFinish
  <2>3. CASE ~(Finish(t) /\ UNCHANGED asg)
    <3>1. PICK v : v = [task[t] EXCEPT !.pc = "close", !.saw = status[o], !.free = {task[t].r}]
      OBVIOUS
    <3>2. Become(t, v) /\ partner[o] = task[t].r /\ asg' = [asg EXCEPT ![o] = "delivered"]
      BY <1>19, <2>3, <3>1 DEF Handover
    <3>3. v.pc = "close" /\ v.free = {task[t].r}
      BY <2>1, <3>1, Zenon DEF Task
    <3>4. \A x \in Riders : /\ HoldsOnto(x) \/ WillFree(v, x)
                            /\ ~WillFree(task[t], x)
      BY <2>1, <3>2, <3>3 DEF HoldsOnto, WillFree, Inv, DataOK
    <3>5. KnowsLoad(v)'
      BY <3>3 DEF KnowsLoad, FreeingPcs
    <3> QED
      BY <2>1, <3>2, <3>4, <3>5, BusyStep
  <2> QED
    BY <2>2, <2>3
<1>20. ASSUME NEW t \in Tasks, Close(t) \/ Bill(t) \/ BillWrite(t) \/ Count(t)
      PROVE  BusyOK'
  <2>1. /\ OfferedIsFree' /\ UNCHANGED <<asg, partner, rider>>
        /\ task[t].pc \in {"close", "bill", "billWrite", "count"}
    BY <1>20 DEF Close, Bill, BillWrite, Count, At, BusyOK, OfferedIsFree, holdVars, offerVars
  <2>2. \E pc \in {"bill", "billWrite", "count", "freeing"} : Goto(t, pc)
    BY <1>20 DEF Close, Bill, BillWrite, Count
  <2> QED
    BY <2>1, <2>2, BusyGoto DEF FreeingPcs
<1>21. ASSUME NEW t \in Tasks, Reassign(t)
      PROVE  BusyOK'
  <2> DEFINE o == task[t].o
  <2>1. /\ task[t].pc = "reassign" /\ o \in Orders /\ task[t].free = {}
        /\ partner[o] = None /\ offeredTo[o] = None /\ task[t].r \in MaybeRider
        /\ UNCHANGED <<rider, offeredTo>> /\ Become(t, Idle)
    BY <1>21 DEF Reassign, At, BusyOK, KnowsLoad, FreeingPcs, Inv, Knows, Task, Finish
  <2>2. partner' \in {partner, [partner EXCEPT ![o] = task[t].r]}
    BY <1>21 DEF Reassign
  <2>3. asg' \in {asg, [asg EXCEPT ![o] = "assigned"]}
    BY <1>21 DEF Reassign
  <2>4. \A x \in Riders : HoldsOnto(x) /\ ~WillFree(task[t], x)
    BY <2>1, <2>2, <2>3, NoneAssumption DEF HoldsOnto, WillFree, Inv, DataOK
  <2>5. OfferedIsFree'
    BY <2>1, <2>2 DEF BusyOK, OfferedIsFree, Inv, DataOK
  <2>6. KnowsLoad(Idle)'
    BY DEF KnowsLoad, Idle
  <2> QED
    BY <2>1, <2>4, <2>5, <2>6, BusyStep
<1>22. ASSUME NEW t \in Tasks, SaveDuty(t)
      PROVE  BusyOK'
  <2>1. /\ OfferedIsFree' /\ UNCHANGED <<asg, partner>> /\ task[t].pc = "duty"
        /\ task[t].free = {} /\ Become(t, Idle)
    BY <1>22 DEF SaveDuty, At, BusyOK, KnowsLoad, FreeingPcs, OfferedIsFree, holdVars, offerVars,
       Finish
  <2>2. \A x \in Riders : rider'[x] = "busy" => rider[x] = "busy"
    BY <1>22 DEF SaveDuty, Inv, DataOK
  <2>3. KnowsLoad(Idle)' /\ \A x \in Riders : HoldsOnto(x) /\ ~WillFree(task[t], x)
    BY <2>1 DEF KnowsLoad, Idle, HoldsOnto, WillFree
  <2> QED
    BY <2>1, <2>2, <2>3, BusyStep
<1>23. ASSUME NEW o \in Orders, Lapse(o) \/ SendOut(o)
       PROVE  UNCHANGED <<asg, partner, rider, offeredTo, task>>
  BY <1>23 DEF Lapse, SendOut, holdVars, offerVars
<1>24. UNCHANGED vars \/ (\E o \in Orders : Age(o))
         => UNCHANGED <<asg, partner, rider, offeredTo, task>>
  BY DEF vars, Age, holdVars, offerVars
<1>25. ASSUME NEW t \in Tasks, Step(t)
       PROVE  BusyOK'
  BY <1>25, <1>4, <1>5, <1>6, <1>7, <1>8, <1>9, <1>10, <1>11, <1>12, <1>13, <1>14, <1>15, <1>16,
     <1>17, <1>18, <1>19, <1>20, <1>21, <1>22 DEF Step
<1> QED
  BY <1>1, <1>2, <1>3, <1>23, <1>24, <1>25 DEF Next

\* While handlers do not interleave and administrators only give away orders nobody was asked
\* about, acceptOrder's and freeRiderIfIdle's counts are true when they are used: a rider is
\* left busy only with a full load, for any orders, riders and limits.
THEOREM BusyIsLoaded ==
    ASSUME Alone, Reassigns \subseteq {"waiting"} PROVE Spec => []BusyHoldsAnOrder
<1>1. Init => BusyOK
  BY DEF Init, BusyOK, KnowsLoad, OfferedIsFree, Idle
<1>2. Inv /\ BusyOK /\ [Next]_vars => BusyOK'
  BY NextBusy
<1>3. BusyOK => BusyHoldsAnOrder
  BY DEF BusyOK, BusyHoldsAnOrder, KnowsLoad, WillFree, FreeingPcs
<1> QED
  BY <1>1, <1>2, <1>3, Invariance, PTL DEF Spec
=============================================================================
