-------------------------- MODULE DineInBillProofs --------------------------
(***************************************************************************)
(* Proofs about DineInBill, for any number of rounds, Razorpay orders and  *)
(* handlers.                                                               *)
(*                                                                         *)
(* Inv, the inductive invariant: the types; a bill paid online shows the   *)
(* payment it was settled by (Frozen); what a handler knows (Knows); and   *)
(* which handler still has to flag a round cancelled on a bill paid online *)
(* (Pending).  It rests on three facts about every step (Tame): a paid     *)
(* bill is final, a captured payment is final, and a round ordered stays   *)
(* ordered.                                                                *)
(*                                                                         *)
(* Kept adds, for one handler at a time or one Razorpay order, that no     *)
(* captured payment is dropped: the payment in the bill's one slot is on   *)
(* record, a refund about to be cleared has been copied, and a handler     *)
(* about to settle finds no refund but its own payment's on the bill.      *)
(***************************************************************************)
EXTENDS DineInBill, FiniteSetTheorems, TLAPS

\* A settled bill shows who settled it; an open one, nobody. A refund on record has its payment.
Frozen ==
    /\ bill.status = "open" => bill.channel = "none"
    /\ bill.refund => bill.pid \in Intents
    /\ bill.channel = "online" =>
        /\ bill.pid \in Intents
        /\ rzp[bill.pid].state = "captured"
        /\ bill.total = rzp[bill.pid].amount

Ordered(rs) == \A r \in rs : round[r] # "none"

\* Where a handler has a Razorpay order in hand, and where a payment of it that it counts.
MovePcs == {"move", "copy", "clear", "settle"}
PayPcs == MovePcs \union {"adopt", "lock", "refuse", "refused", "stray"}

\* What the registers v know.
Knows(v) ==
    /\ v.pc \in PayPcs => v.i \in Intents
    /\ v.pc \in MovePcs => rzp[v.i].state = "captured"
    /\ v.pc \in {"copy", "clear"} => v.saw.pid \in Intents
    /\ v.pc = "discount" => v.saw.off < MaxDiscounts
    /\ v.pc = "create" => round[v.r] = "none"
    /\ v.pc = "cancel" => v.was # "none"
    /\ v.pc \in {"bill", "abandoned", "write"} => Ordered(v.ate)
    /\ v.pc \in {"close", "void"} =>
        /\ bill.status = "paid" /\ bill.channel = v.saw.channel /\ bill.rounds = v.saw.rounds
        /\ v.saw.channel = "online" => bill.pid = v.i

\* Nobody creates the round another handler is creating.
OneCreator ==
    \A t, u \in Tasks : At(t, "create") /\ At(u, "create") /\ task[t].r = task[u].r => t = u

\* A round cancelled on a bill paid online is flagged or forfeited or will be, and one that is not
\* cancelled is paid for or will be.
Pending ==
    bill.channel = "online" => \A r \in bill.rounds :
        /\ round[r] # "cancelled" => r \in marked \/ \E t \in Tasks : At(t, "close")
        /\ round[r] = "cancelled" =>
            \/ r \in flagged \union forfeited
            \/ \E t \in Tasks : task[t].pc \in {"close", "void"} \/ (At(t, "flag") /\ task[t].r = r)

Inv ==
    /\ TypeOK
    /\ Frozen
    /\ \A t \in Tasks : Knows(task[t])
    /\ OneCreator
    /\ Ordered(bill.rounds)
    /\ Pending

-----------------------------------------------------------------------------
(* The types.                                                              *)

LEMMA AmountOK ==
    /\ 0 \in Amounts
    /\ \A rs \in SUBSET Rounds, off \in 0..MaxDiscounts : Amount(rs, off) \in Amounts
<1>1. Cardinality(Rounds) \in Nat /\ MaxDiscounts \in Nat
  BY RoundsAssumption, DiscountsAssumption, FS_CardinalityType
<1>2. ASSUME NEW rs \in SUBSET Rounds
      PROVE  Cardinality(rs) \in Nat /\ Cardinality(rs) <= Cardinality(Rounds)
  BY RoundsAssumption, FS_Subset, FS_CardinalityType
<1>3. ASSUME NEW rs \in SUBSET Rounds, NEW off \in 0..MaxDiscounts PROVE Amount(rs, off) \in Amounts
  <2> DEFINE n == Cardinality(rs)
             m == Cardinality(Rounds)
  <2>1. n \in Nat /\ m \in Nat /\ n <= m /\ off \in 0..MaxDiscounts /\ MaxDiscounts \in Nat
    BY <1>1, <1>2
  <2> HIDE DEF n, m
  <2>2. Price * n - off \in -MaxDiscounts..(Price * m)
    BY <2>1 DEF Price
  <2> QED
    BY <2>2 DEF n, m, Amount, Amounts
<1>4. 0 \in Amounts
  BY <1>1 DEF Amounts, Price
<1> QED
  BY <1>3, <1>4

LEMMA FirstBillOK == FirstBill \in Bill /\ FirstBill.channel = "none"
BY AmountOK, DiscountsAssumption DEF FirstBill, Bill

LEMMA IdleOK == Idle \in Task /\ Idle.pc = "idle" /\ Idle.saw = FirstBill
BY FirstBillOK, RoundsAssumption DEF Idle, Task, Pcs, Paths, RoundStatuses

\* One handler moves on, the others stay.
LEMMA BecomeOK ==
    ASSUME task \in [Tasks -> Task], NEW t \in Tasks, NEW v \in Task, Become(t, v)
    PROVE  /\ task' \in [Tasks -> Task]
           /\ task'[t] = v
           /\ \A u \in Tasks : u # t => task'[u] = task[u]
BY DEF Become

LEMMA FreshOK == /\ Knows(Idle) /\ Knows(Idle)'
                 /\ Idle.pc \notin {"close", "void", "flag", "create"}
BY IdleOK DEF Knows, PayPcs, MovePcs

\* A sitting with its first round placed and nothing paid satisfies the invariant.
THEOREM InitInv == Init => Inv
<1> SUFFICES ASSUME Init PROVE Inv
  OBVIOUS
<1>1. TypeOK
  BY IdleOK, FirstBillOK, AmountOK, RoundsAssumption DEF Init, TypeOK, RoundStatuses, Intent
<1>2. \A t \in Tasks : Knows(task[t]) /\ ~At(t, "create")
  BY FreshOK DEF Init, At
<1>3. Frozen /\ Ordered(bill.rounds) /\ Pending
  BY DEF Init, Frozen, Ordered, Pending, FirstBill
<1> QED
  BY <1>1, <1>2, <1>3 DEF Inv, OneCreator

-----------------------------------------------------------------------------
(* What every step leaves alone.                                           *)

RoundsGo == \A r \in Rounds : round[r] # "none" => round'[r] # "none"
PaidIsFinal == bill.status = "paid" => bill' = bill
CapturedIsFinal == \A i \in Intents : rzp[i].state = "captured" => rzp'[i] = rzp[i]
Tame == RoundsGo /\ PaidIsFinal /\ CapturedIsFinal

\* What a handler knows stays true while others act.
LEMMA KnowsStays ==
    ASSUME Inv, Tame, NEW u \in Tasks, At(u, "create") => round'[task[u].r] = "none"
    PROVE  \A v : v = task[u] => Knows(v)'
<1> SUFFICES ASSUME NEW v, v = task[u] PROVE Knows(v)'
  OBVIOUS
<1>1. Knows(v) /\ v \in Task /\ (v.pc = "create" => round'[v.r] = "none")
  BY DEF Inv, TypeOK, At
<1>2. /\ v.pc \in PayPcs => v.i \in Intents
      /\ v.pc \in {"copy", "clear"} => v.saw.pid \in Intents
      /\ v.pc = "discount" => v.saw.off < MaxDiscounts
      /\ v.pc = "cancel" => v.was # "none"
  BY <1>1 DEF Knows
<1>3. v.pc \in MovePcs => rzp'[v.i].state = "captured"
  BY <1>1 DEF Knows, PayPcs, Tame, CapturedIsFinal
<1>4. v.pc \in {"bill", "abandoned", "write"} => Ordered(v.ate)'
  BY <1>1 DEF Knows, Ordered, Tame, RoundsGo, Task
<1>5. v.pc \in {"close", "void"} =>
          /\ bill'.status = "paid" /\ bill'.channel = v.saw.channel /\ bill'.rounds = v.saw.rounds
          /\ v.saw.channel = "online" => bill'.pid = v.i
  BY <1>1 DEF Knows, Tame, PaidIsFinal
<1> QED
  BY <1>1, <1>2, <1>3, <1>4, <1>5 DEF Knows

\* A handler's step keeps every handler's knowledge.
LEMMA HandlersOK ==
    ASSUME Inv, Tame, NEW t \in Tasks, NEW v \in Task, Become(t, v), Knows(v)',
           \A u \in Tasks : u # t /\ At(u, "create") => round'[task[u].r] = "none"
    PROVE  \A u \in Tasks : Knows(task[u])'
<1> SUFFICES ASSUME NEW u \in Tasks PROVE Knows(task[u])'
  OBVIOUS
<1>1. /\ task' \in [Tasks -> Task] /\ task'[t] = v
      /\ \A w \in Tasks : w # t => task'[w] = task[w]
  BY BecomeOK DEF Inv, TypeOK
<1>2. PICK w : w = task'[u]
  OBVIOUS
<1>3. Knows(w)'
  <2>1. CASE u = t
    BY <1>1, <1>2, <2>1
  <2>2. CASE u # t
    BY <1>1, <1>2, <2>2, KnowsStays
  <2> QED
    BY <2>1, <2>2
<1> QED
  BY <1>2, <1>3 DEF Knows

\* An open bill is written and stays open; or no bill is.
BillStaysOpen ==
    \/ bill' = bill
    \/ /\ bill.status = "open" /\ bill'.status = "open"
       /\ bill'.channel = bill.channel
       /\ bill'.refund => bill'.pid \in Intents
       /\ Ordered(bill'.rounds)

LEMMA BillStaysOpenOK ==
    ASSUME Inv, CapturedIsFinal, BillStaysOpen
    PROVE  PaidIsFinal /\ Frozen' /\ bill'.channel = bill.channel
<1>1. CASE bill' = bill
  BY <1>1 DEF Inv, PaidIsFinal, CapturedIsFinal, Frozen
<1>2. CASE bill' # bill
  BY <1>2 DEF Inv, PaidIsFinal, BillStaysOpen, Frozen
<1> QED
  BY <1>1, <1>2

\* A step that orders, cancels, marks and flags no round.
LEMMA MildOK ==
    ASSUME Inv, TypeOK', CapturedIsFinal, BillStaysOpen, NEW t \in Tasks, NEW v \in Task, Become(t, v),
           Knows(v)', v.pc # "create", task[t].pc \notin {"close", "void", "flag"},
           UNCHANGED <<round, marked, flagged, forfeited>>
    PROVE  Inv'
<1>1. /\ task' \in [Tasks -> Task] /\ task'[t] = v
      /\ \A w \in Tasks : w # t => task'[w] = task[w]
  BY BecomeOK DEF Inv, TypeOK
<1>2. PaidIsFinal /\ Frozen' /\ bill'.channel = bill.channel
  BY BillStaysOpenOK
<1>3. Tame
  BY <1>2 DEF Tame, RoundsGo
<1>4. \A u \in Tasks : Knows(task[u])'
  BY <1>3, HandlersOK DEF Inv, Knows, At
<1>5. OneCreator'
  BY <1>1 DEF Inv, OneCreator, At
<1>6. Ordered(bill.rounds)'
  BY DEF Inv, Ordered, BillStaysOpen
<1>7. Pending'
  <2>1. CASE bill' = bill
    BY <1>1, <2>1 DEF Inv, Pending, At
  <2>2. CASE bill' # bill
    BY <1>2, <2>2 DEF Inv, BillStaysOpen, Frozen, Pending
  <2> QED
    BY <2>1, <2>2
<1> QED
  BY <1>2, <1>4, <1>5, <1>6, <1>7 DEF Inv

\* The same, when only the handler moves.
LEMMA QuietOK ==
    ASSUME Inv, NEW t \in Tasks, NEW v \in Task, Become(t, v), Knows(v),
           v.pc # "create", task[t].pc \notin {"close", "void", "flag"},
           UNCHANGED <<floorVars, bill, moneyVars>>
    PROVE  Inv'
<1>1. UNCHANGED <<round, listed, marked, session, bill, rzp, strays, forfeited, flagged, answered>>
  BY DEF floorVars, moneyVars
<1>2. TypeOK'
  BY <1>1, BecomeOK DEF Inv, TypeOK
<1>3. Knows(v)' /\ CapturedIsFinal /\ BillStaysOpen
  BY <1>1 DEF Knows, Ordered, CapturedIsFinal, BillStaysOpen
<1> QED
  BY <1>1, <1>2, <1>3, MildOK

\* A handler at rest, or with its registers as they are.
LEMMA FinishOK ==
    ASSUME NEW t \in Tasks, Finish(t)
    PROVE  Idle \in Task /\ Become(t, Idle) /\ Knows(Idle) /\ Knows(Idle)' /\ Idle.pc \notin {"create", "flag"}
BY IdleOK, FreshOK DEF Finish

LEMMA GotoOK ==
    ASSUME task \in [Tasks -> Task], NEW t \in Tasks, NEW pc \in Pcs
    PROVE  LET v == [task[t] EXCEPT !.pc = pc] IN
           /\ v \in Task /\ v.pc = pc /\ v.path = task[t].path /\ v.r = task[t].r
           /\ v.i = task[t].i /\ v.saw = task[t].saw /\ v.ate = task[t].ate /\ v.was = task[t].was
BY DEF Task

-----------------------------------------------------------------------------
(* The rounds' steps.                                                      *)

LEMMA PlaceRoundOK ==
    ASSUME Inv, NEW t \in Tasks, NEW r \in Rounds, PlaceRound(t, r) PROVE Inv'
<1> DEFINE v == [Idle EXCEPT !.pc = "create", !.r = r]
<1>1. v \in Task /\ v.pc = "create" /\ v.r = r /\ Become(t, v)
  BY IdleOK DEF PlaceRound, Task, Pcs
<1>2. UNCHANGED <<round, listed, marked, session, bill, rzp, strays, forfeited, flagged, answered>>
  BY DEF PlaceRound, floorVars, moneyVars
<1>3. round[r] = "none" /\ \A u \in Tasks : At(u, "create") => task[u].r # r
  BY DEF PlaceRound
<1> HIDE DEF v
<1>4. /\ task' \in [Tasks -> Task] /\ task'[t] = v
      /\ \A w \in Tasks : w # t => task'[w] = task[w]
  BY <1>1, BecomeOK DEF Inv, TypeOK
<1>5. Tame /\ Knows(v)'
  BY <1>1, <1>2, <1>3 DEF Tame, RoundsGo, PaidIsFinal, CapturedIsFinal, Knows, PayPcs, MovePcs
<1>6. \A u \in Tasks : Knows(task[u])'
  BY <1>1, <1>2, <1>5, HandlersOK DEF Inv, Knows, At
<1>7. OneCreator'
  BY <1>1, <1>3, <1>4 DEF Inv, OneCreator, At
<1>8. Pending'
  BY <1>1, <1>2, <1>4 DEF Inv, Pending, At, PlaceRound
<1> QED
  BY <1>2, <1>4, <1>6, <1>7, <1>8 DEF Inv, TypeOK, Frozen, Ordered

\* What becomes of a round changes nothing but what is pending.
LEMMA RoundWritten ==
    ASSUME Inv, NEW r \in Rounds, NEW status \in RoundStatuses \ {"none"},
           round' = [round EXCEPT ![r] = status],
           UNCHANGED <<bill, rzp>>
    PROVE  /\ round' \in [Rounds -> RoundStatuses]
           /\ round'[r] = status /\ \A q \in Rounds : q # r => round'[q] = round[q]
           /\ Tame /\ Frozen' /\ Ordered(bill.rounds)'
<1>1. /\ round' \in [Rounds -> RoundStatuses]
      /\ round'[r] = status /\ \A q \in Rounds : q # r => round'[q] = round[q]
  BY DEF Inv, TypeOK
<1>2. Tame
  BY <1>1 DEF Tame, RoundsGo, PaidIsFinal, CapturedIsFinal
<1>3. bill.rounds \subseteq Rounds
  BY DEF Inv, TypeOK, Bill
<1>4. Ordered(bill.rounds)'
  BY <1>2, <1>3 DEF Inv, Ordered, Tame, RoundsGo
<1> QED
  BY <1>1, <1>2, <1>4 DEF Inv, Frozen

LEMMA CreateRoundOK ==
    ASSUME Inv, NEW t \in Tasks, CreateRound(t) PROVE Inv'
<1> DEFINE v == [task[t] EXCEPT !.pc = "push"]
<1> PICK r \in Rounds : r = task[t].r
  BY DEF Inv, TypeOK, Task
<1>1. v \in Task /\ v.pc = "push" /\ Become(t, v) /\ At(t, "create")
  <2>1. Goto(t, "push") /\ "push" \in Pcs /\ task \in [Tasks -> Task] /\ At(t, "create")
    BY DEF CreateRound, Inv, TypeOK, Pcs
  <2> QED
    BY <2>1, GotoOK DEF Goto
<1>2. UNCHANGED <<listed, marked, session, bill, rzp, strays, forfeited, flagged, answered>>
  BY DEF CreateRound, moneyVars
<1>3. PICK status \in {"placed", "confirmed"} : round' = [round EXCEPT ![r] = status]
  BY DEF CreateRound
<1>4. /\ round' \in [Rounds -> RoundStatuses]
      /\ round'[r] = status /\ \A q \in Rounds : q # r => round'[q] = round[q]
      /\ Tame /\ Frozen' /\ Ordered(bill.rounds)'
  BY <1>2, <1>3, RoundWritten DEF RoundStatuses
<1> HIDE DEF v
<1>5. /\ task' \in [Tasks -> Task] /\ task'[t] = v
      /\ \A w \in Tasks : w # t => task'[w] = task[w]
  BY <1>1, BecomeOK DEF Inv, TypeOK
<1>6. round[r] = "none" /\ r \notin bill.rounds
  BY <1>1 DEF Inv, Knows, At, Ordered
<1>7. ASSUME NEW u \in Tasks, u # t, At(u, "create") PROVE round'[task[u].r] = "none"
  <2>1. task[u].r # r /\ task[u].r \in Rounds /\ round[task[u].r] = "none"
    BY <1>1, <1>7 DEF Inv, OneCreator, Knows, At, TypeOK, Task
  <2> QED
    BY <1>4, <2>1
<1>8. \A u \in Tasks : Knows(task[u])'
  BY <1>1, <1>4, <1>7, HandlersOK DEF Knows, PayPcs, MovePcs
<1>9. OneCreator'
  BY <1>1, <1>5 DEF Inv, OneCreator, At
<1>10. Pending'
  <2>1. bill.rounds \subseteq Rounds
    BY DEF Inv, TypeOK, Bill
  <2>2. \A q \in bill.rounds : round'[q] = round[q]
    BY <1>4, <1>6, <2>1
  <2> QED
    BY <1>1, <1>2, <1>5, <2>2 DEF Inv, Pending, At
<1> QED
  BY <1>2, <1>4, <1>5, <1>8, <1>9, <1>10 DEF Inv, TypeOK

LEMMA PushRoundOK ==
    ASSUME Inv, NEW t \in Tasks, PushRound(t) PROVE Inv'
<1>1. UNCHANGED <<round, marked, session, bill, rzp, strays, forfeited, flagged, answered>>
  BY DEF PushRound, moneyVars
<1>2. Idle \in Task /\ Become(t, Idle) /\ Knows(Idle)' /\ Idle.pc # "create"
  BY FinishOK DEF PushRound
<1>3. TypeOK'
  BY <1>1, <1>2, BecomeOK DEF Inv, TypeOK, PushRound, Task
<1>4. CapturedIsFinal /\ BillStaysOpen
  BY <1>1 DEF CapturedIsFinal, BillStaysOpen
<1> QED
  BY <1>1, <1>2, <1>3, <1>4, MildOK DEF PushRound, At

\* The kitchen moves a round on: nobody is creating it, and it is not cancelled.
LEMMA KitchenOK ==
    ASSUME Inv, NEW r \in Rounds, Kitchen(r) PROVE Inv'
<1>1. PICK status \in {"confirmed", "preparing", "served"} :
          round' = [round EXCEPT ![r] = status] /\ round[r] \notin {"none", "cancelled"}
  BY DEF Kitchen, Accept, Prepare, Serve, Advance
<1>2. UNCHANGED <<listed, marked, session, bill, rzp, strays, forfeited, flagged, answered, task>>
  BY DEF Kitchen, Accept, Prepare, Serve, Advance, moneyVars
<1>3. /\ round' \in [Rounds -> RoundStatuses]
      /\ round'[r] = status /\ \A q \in Rounds : q # r => round'[q] = round[q]
      /\ Tame /\ Frozen' /\ Ordered(bill.rounds)'
  BY <1>1, <1>2, RoundWritten DEF RoundStatuses
<1>4. ASSUME NEW u \in Tasks PROVE Knows(task[u])'
  <2>1. At(u, "create") => round'[task[u].r] = "none"
    BY <1>1, <1>3 DEF Inv, Knows, At, TypeOK, Task
  <2>2. PICK w : w = task[u]
    OBVIOUS
  <2>3. Knows(w)'
    BY <1>3, <2>1, <2>2, KnowsStays
  <2> QED
    BY <1>2, <2>2, <2>3 DEF Knows
<1>5. OneCreator'
  BY <1>2 DEF Inv, OneCreator, At
<1>6. Pending'
  <2>1. bill.rounds \subseteq Rounds
    BY DEF Inv, TypeOK, Bill
  <2> QED
    BY <1>1, <1>2, <1>3, <2>1 DEF Inv, Pending, At
<1> QED
  BY <1>2, <1>3, <1>4, <1>5, <1>6 DEF Inv, TypeOK

LEMMA StartCancelOK ==
    ASSUME Inv, NEW t \in Tasks, NEW r \in Rounds, StartCancel(t, r) PROVE Inv'
<1> DEFINE v == [Idle EXCEPT !.pc = "cancel", !.r = r, !.was = round[r]]
<1>1. round[r] \in RoundStatuses /\ round[r] # "none"
  BY DEF Inv, TypeOK, StartCancel
<1>2. v \in Task /\ v.pc = "cancel" /\ v.was = round[r] /\ Become(t, v)
  BY <1>1, IdleOK DEF StartCancel, Task, Pcs
<1> QED
  BY <1>1, <1>2, QuietOK DEF StartCancel, Knows, At, PayPcs, MovePcs

LEMMA CancelRoundOK ==
    ASSUME Inv, NEW t \in Tasks, CancelRound(t) PROVE Inv'
<1> PICK r \in Rounds : r = task[t].r
  BY DEF Inv, TypeOK, Task
<1>1. UNCHANGED <<listed, marked, session, bill, rzp, strays, flagged, answered>> /\ At(t, "cancel")
  BY DEF CancelRound, moneyVars
<1>2. CASE UNCHANGED <<round, forfeited>> /\ Finish(t)
  BY <1>1, <1>2, FinishOK, QuietOK DEF floorVars, moneyVars, At
<1>3. CASE /\ round' = [round EXCEPT ![r] = "cancelled"] /\ round[r] # "none"
           /\ \/ r \in marked /\ bill.channel = "online" /\ Goto(t, "flag") /\ UNCHANGED forfeited
              \/ ~(r \in marked /\ bill.channel = "online") /\ Finish(t) /\ UNCHANGED forfeited
              \/ Finish(t) /\ forfeited' = forfeited \union {r}
  <2>1. /\ round' \in [Rounds -> RoundStatuses]
        /\ round'[r] = "cancelled" /\ \A q \in Rounds : q # r => round'[q] = round[q]
        /\ Tame /\ Frozen' /\ Ordered(bill.rounds)'
    BY <1>1, <1>3, RoundWritten DEF RoundStatuses
  <2>2. PICK v \in Task : /\ Become(t, v) /\ v.pc \in {"idle", "flag"}
                          /\ r \in marked /\ bill.channel = "online" =>
                                (v.pc = "flag" /\ v.r = r) \/ r \in forfeited'
    <3>1. CASE r \in marked /\ bill.channel = "online" /\ Goto(t, "flag")
      <4> DEFINE v == [task[t] EXCEPT !.pc = "flag"]
      <4>1. v \in Task /\ v.pc = "flag" /\ v.r = r /\ Become(t, v)
        <5>1. Goto(t, "flag") /\ "flag" \in Pcs /\ task \in [Tasks -> Task]
          BY <1>3, <3>1 DEF Inv, TypeOK, Pcs
        <5> QED
          BY <5>1, GotoOK DEF Goto
      <4> QED
        BY <4>1
    <3>2. CASE Finish(t) /\ (~(r \in marked /\ bill.channel = "online") \/ r \in forfeited')
      BY <3>2, IdleOK DEF Finish
    <3> QED
      BY <1>3, <3>1, <3>2
  <2>3. /\ task' \in [Tasks -> Task] /\ task'[t] = v
        /\ \A w \in Tasks : w # t => task'[w] = task[w]
    BY <2>2, BecomeOK DEF Inv, TypeOK
  <2>4. \A u \in Tasks : u # t /\ At(u, "create") => round'[task[u].r] = "none"
    BY <1>3, <2>1 DEF Inv, Knows, At, TypeOK, Task
  <2>5. \A u \in Tasks : Knows(task[u])'
    BY <2>1, <2>2, <2>4, HandlersOK DEF Knows, PayPcs, MovePcs
  <2>6. OneCreator'
    BY <2>2, <2>3 DEF Inv, OneCreator, At
  <2>7. Pending'
    <3> SUFFICES ASSUME bill.channel = "online", NEW q \in bill.rounds
                 PROVE  /\ round'[q] # "cancelled" => q \in marked \/ \E u \in Tasks : At(u, "close")'
                        /\ round'[q] = "cancelled" =>
                            \/ q \in flagged \union forfeited'
                            \/ \E u \in Tasks : task'[u].pc \in {"close", "void"}
                                                \/ (At(u, "flag")' /\ task'[u].r = q)
      BY <1>1 DEF Pending
    <3>1. q \in Rounds /\ forfeited \subseteq forfeited'
      BY <1>3 DEF Inv, TypeOK, Bill
    <3>2. \A u \in Tasks : task[u].pc \in {"close", "void", "flag"} => u # t /\ task'[u] = task[u]
      BY <1>1, <2>3 DEF At
    <3>3. CASE q # r
      BY <2>1, <3>1, <3>2, <3>3 DEF Inv, Pending, At
    <3>4. CASE q = r /\ r \in marked
      BY <2>1, <2>2, <2>3, <3>4 DEF At
    <3>5. CASE q = r /\ r \notin marked
      <4>1. round[r] # "cancelled" \/ round[r] = "cancelled"
        OBVIOUS
      <4> QED
        BY <2>1, <3>1, <3>2, <3>5 DEF Inv, Pending, At
    <3> QED
      BY <3>3, <3>4, <3>5
  <2>8. forfeited' \subseteq Rounds
    BY <1>3 DEF Inv, TypeOK
  <2> QED
    BY <1>1, <2>1, <2>3, <2>5, <2>6, <2>7, <2>8 DEF Inv, TypeOK
<1>4. task[t].was # "none"
  BY <1>1 DEF Inv, Knows, At
<1> QED
  BY <1>2, <1>3, <1>4 DEF CancelRound

LEMMA FlagCancelledOK ==
    ASSUME Inv, NEW t \in Tasks, FlagCancelled(t) PROVE Inv'
<1> PICK r \in Rounds : r = task[t].r
  BY DEF Inv, TypeOK, Task
<1>1. /\ UNCHANGED <<round, listed, marked, session, bill, rzp, strays, forfeited, answered>> /\ At(t, "flag")
      /\ flagged' = IF bill.channel = "online" THEN flagged \union {r} ELSE flagged
  BY DEF FlagCancelled, floorVars
<1>2. Idle \in Task /\ Become(t, Idle) /\ Knows(Idle)' /\ Idle.pc \notin {"create", "flag"}
  BY FinishOK DEF FlagCancelled
<1>3. /\ task' \in [Tasks -> Task] /\ task'[t] = Idle
      /\ \A w \in Tasks : w # t => task'[w] = task[w]
  BY <1>2, BecomeOK DEF Inv, TypeOK
<1>4. Tame
  BY <1>1 DEF Tame, RoundsGo, PaidIsFinal, CapturedIsFinal
<1>5. \A u \in Tasks : Knows(task[u])'
  BY <1>1, <1>2, <1>4, HandlersOK DEF Inv, Knows, At
<1>6. OneCreator'
  BY <1>2, <1>3 DEF Inv, OneCreator, At
<1>7. bill.channel = "online" => flagged' = flagged \union {r}
  BY <1>1
<1>8. Pending'
  BY <1>1, <1>3, <1>7 DEF Inv, Pending, At
<1> QED
  BY <1>1, <1>3, <1>5, <1>6, <1>8 DEF Inv, TypeOK, Frozen, Ordered

-----------------------------------------------------------------------------
(* The bill's steps.                                                       *)

LEMMA BilledOK == \A rs \in SUBSET Rounds : BilledOrders(rs) \in SUBSET Rounds /\ Ordered(BilledOrders(rs))
BY DEF BilledOrders, Ordered

LEMMA AskFinalOK ==
    ASSUME Inv, NEW t \in Tasks, NEW path \in Paths, AskFinal(t, path) PROVE Inv'
<1> DEFINE v == [Idle EXCEPT !.pc = "final", !.path = path]
<1>1. v \in Task /\ v.pc = "final" /\ Become(t, v)
  BY IdleOK DEF AskFinal, Task, Pcs
<1> HIDE DEF v
<1>2. Knows(v)
  BY <1>1 DEF Knows, PayPcs, MovePcs
<1> QED
  BY <1>1, <1>2, QuietOK DEF AskFinal, At

LEMMA AssembleOK ==
    ASSUME Inv, NEW t \in Tasks, NEW path \in Paths, Assemble(t, path) PROVE Inv'
<1> DEFINE v == [Idle EXCEPT !.pc = "bill", !.path = path, !.ate = BilledOrders(listed), !.was = session]
<1>1. BilledOrders(listed) \in SUBSET Rounds /\ Ordered(BilledOrders(listed))
  BY BilledOK DEF Inv, TypeOK
<1>2. v \in Task /\ v.pc = "bill" /\ v.ate = BilledOrders(listed) /\ Become(t, v)
  BY <1>1, IdleOK DEF Assemble, Inv, TypeOK, Task, Pcs
<1> HIDE DEF v
<1>3. Knows(v)
  BY <1>1, <1>2 DEF Knows, PayPcs, MovePcs
<1> QED
  BY <1>2, <1>3, QuietOK DEF Assemble, At

\* Where a handler goes with the bill it was given.
LEMMA GivenOK ==
    ASSUME Inv, NEW t \in Tasks, NEW b \in Bill, Given(t, b)
    PROVE  \E v \in Task : Become(t, v) /\ v.pc \in {"idle", "live", "counted"}
<1> DEFINE pc == After(task[t].path)
           v == [Idle EXCEPT !.pc = pc, !.saw = b]
<1>1. CASE pc = "idle"
  BY <1>1, IdleOK DEF Given
<1>2. CASE pc # "idle"
  <2>1. pc \in {"live", "counted"}
    BY <1>2 DEF After
  <2> HIDE DEF pc
  <2>2. v \in Task /\ v.pc = pc
    BY <2>1, IdleOK DEF Task, Pcs
  <2>3. Become(t, v)
    BY <1>2 DEF Given, pc
  <2> QED
    BY <2>1, <2>2, <2>3
<1> QED
  BY <1>1, <1>2

LEMMA ReadBillOK ==
    ASSUME Inv, NEW t \in Tasks, ReadBill(t) PROVE Inv'
<1>1. task[t] \in Task /\ bill \in Bill /\ At(t, "bill") /\ UNCHANGED <<floorVars, bill, moneyVars>>
  BY DEF Inv, TypeOK, ReadBill
<1>2. CASE Given(t, bill)
  <2>1. PICK v \in Task : Become(t, v) /\ v.pc \in {"idle", "live", "counted"}
    BY <1>1, <1>2, GivenOK
  <2> QED
    BY <1>1, <2>1, QuietOK DEF Knows, At, PayPcs, MovePcs
<1>3. ASSUME NEW pc \in {"abandoned", "write"},
             Become(t, [task[t] EXCEPT !.pc = pc, !.saw.off = bill.off])
      PROVE  Inv'
  <2> DEFINE v == [task[t] EXCEPT !.pc = pc, !.saw.off = bill.off]
  <2>1. v \in Task /\ v.pc = pc /\ v.ate = task[t].ate
    BY <1>1 DEF Task, Bill, Pcs
  <2> HIDE DEF v
  <2>2. Knows(v)
    BY <1>1, <2>1 DEF Inv, Knows, At, PayPcs, MovePcs
  <2> QED
    BY <1>1, <1>3, <2>1, <2>2, QuietOK DEF v, At
<1> QED
  BY <1>2, <1>3 DEF ReadBill

LEMMA ReleaseAbandonedOK ==
    ASSUME Inv, NEW t \in Tasks, ReleaseAbandoned(t) PROVE Inv'
<1>1. /\ UNCHANGED <<round, listed, marked, bill, rzp, strays, forfeited, flagged, answered>>
      /\ At(t, "abandoned") /\ Goto(t, "write") /\ "write" \in Pcs /\ task \in [Tasks -> Task]
  BY DEF ReleaseAbandoned, moneyVars, Inv, TypeOK, Pcs
<1>2. PICK v \in Task : v.pc = "write" /\ v.ate = task[t].ate /\ Become(t, v)
  BY <1>1, GotoOK DEF Goto
<1>3. Knows(v)'
  BY <1>1, <1>2 DEF Inv, Knows, At, Ordered, PayPcs, MovePcs
<1>4. TypeOK'
  BY <1>1, <1>2, BecomeOK DEF Inv, TypeOK, ReleaseAbandoned, Reopened
<1>5. CapturedIsFinal /\ BillStaysOpen
  BY <1>1 DEF CapturedIsFinal, BillStaysOpen
<1> QED
  BY <1>1, <1>2, <1>3, <1>4, <1>5, MildOK DEF At

LEMMA WriteBillOK ==
    ASSUME Inv, NEW t \in Tasks, WriteBill(t) PROVE Inv'
<1> DEFINE rs == task[t].ate
           off == task[t].saw.off
<1>1. /\ rs \in SUBSET Rounds /\ off \in 0..MaxDiscounts /\ Ordered(rs) /\ bill \in Bill
      /\ At(t, "write") /\ UNCHANGED <<round, listed, marked, session, rzp, strays, forfeited, flagged, answered>>
  BY DEF Inv, TypeOK, Task, Bill, Knows, At, WriteBill, floorVars, moneyVars
<1>2. /\ Priced(t) \in Bill /\ Priced(t).status = bill.status /\ Priced(t).channel = bill.channel
      /\ Priced(t).rounds = rs /\ Priced(t).pid = bill.pid /\ Priced(t).refund = bill.refund
  <2> DEFINE total == Amount(rs, off)
  <2>1. total \in Amounts
    BY <1>1, AmountOK
  <2>2. Priced(t) = [bill EXCEPT !.rounds = rs, !.off = off, !.total = total]
    BY Zenon DEF Priced
  <2>3. rs \in SUBSET Rounds /\ off \in 0..MaxDiscounts /\ bill \in Bill
    BY <1>1
  <2> HIDE DEF rs, off, total
  <2> QED
    BY <2>1, <2>2, <2>3 DEF Bill
<1>3. BillStaysOpen /\ bill' \in Bill /\ CapturedIsFinal
  BY <1>1, <1>2 DEF WriteBill, BillStaysOpen, CapturedIsFinal, Ordered, Inv, Frozen
<1>4. PICK v \in Task : Become(t, v) /\ v.pc \in {"idle", "live", "counted"}
  <2>1. PICK b \in Bill : b = bill'
    BY <1>3
  <2> QED
    BY <2>1, GivenOK DEF WriteBill
<1>5. TypeOK'
  BY <1>1, <1>3, <1>4, BecomeOK DEF Inv, TypeOK
<1>6. Knows(v)'
  BY <1>4 DEF Knows, PayPcs, MovePcs
<1> QED
  BY <1>1, <1>3, <1>4, <1>5, <1>6, MildOK DEF At

LEMMA StartDiscountOK ==
    ASSUME Inv, NEW t \in Tasks, StartDiscount(t) PROVE Inv'
<1> DEFINE v == [Idle EXCEPT !.pc = "discount", !.saw.off = bill.off, !.saw.rounds = bill.rounds]
<1>1. v \in Task /\ v.pc = "discount" /\ v.saw.off = bill.off
  BY IdleOK DEF Inv, TypeOK, Task, Bill, Pcs
<1>2. Become(t, v) /\ v.saw.off < MaxDiscounts /\ At(t, "idle") /\ UNCHANGED <<floorVars, bill, moneyVars>>
  BY <1>1 DEF StartDiscount
<1> HIDE DEF v
<1>3. Knows(v)
  BY <1>1, <1>2 DEF Knows, PayPcs, MovePcs
<1> QED
  BY <1>1, <1>2, <1>3, QuietOK DEF At

LEMMA ApplyDiscountOK ==
    ASSUME Inv, NEW t \in Tasks, ApplyDiscount(t) PROVE Inv'
<1> DEFINE off == task[t].saw.off + 1
           total == Amount(task[t].saw.rounds, off)
<1>1. /\ task[t].saw.rounds \in SUBSET Rounds /\ task[t].saw.off \in 0..MaxDiscounts /\ bill \in Bill
      /\ task[t].saw.off < MaxDiscounts
      /\ At(t, "discount") /\ UNCHANGED <<round, listed, marked, session, rzp, strays, forfeited, flagged, answered>>
  BY DEF Inv, TypeOK, Task, Bill, Knows, At, ApplyDiscount, floorVars, moneyVars
<1>2. off \in 0..MaxDiscounts
  BY <1>1, DiscountsAssumption
<1>3. total \in Amounts
  BY <1>1, <1>2, AmountOK
<1>4. bill' = IF bill.status = "open" THEN [bill EXCEPT !.off = off, !.total = total] ELSE bill
  BY DEF ApplyDiscount
<1> HIDE DEF off, total
<1>5. LET b == [bill EXCEPT !.off = off, !.total = total] IN
      /\ b \in Bill /\ b.status = bill.status /\ b.channel = bill.channel
      /\ b.rounds = bill.rounds /\ b.pid = bill.pid /\ b.refund = bill.refund
  BY <1>1, <1>2, <1>3 DEF Bill
<1>6. BillStaysOpen /\ bill' \in Bill /\ CapturedIsFinal
  BY <1>1, <1>4, <1>5 DEF BillStaysOpen, CapturedIsFinal, Ordered, Inv, Frozen
<1>7. Idle \in Task /\ Become(t, Idle) /\ Knows(Idle)' /\ Idle.pc # "create"
  BY FinishOK DEF ApplyDiscount
<1>8. TypeOK'
  BY <1>1, <1>6, <1>7, BecomeOK DEF Inv, TypeOK
<1> QED
  BY <1>1, <1>6, <1>7, <1>8, MildOK DEF At

-----------------------------------------------------------------------------
(* The payment's steps.                                                    *)

LEMMA CheckLiveOK ==
    ASSUME Inv, NEW t \in Tasks, CheckLive(t) PROVE Inv'
<1>1. At(t, "live") /\ UNCHANGED <<floorVars, bill, moneyVars>>
  BY DEF CheckLive
<1>2. CASE Finish(t)
  BY <1>1, <1>2, FinishOK, QuietOK DEF At
<1>3. CASE Goto(t, "open")
  <2>1. "open" \in Pcs /\ task \in [Tasks -> Task]
    BY DEF Inv, TypeOK, Pcs
  <2>2. PICK v \in Task : v.pc = "open" /\ Become(t, v)
    BY <1>3, <2>1, GotoOK DEF Goto
  <2> QED
    BY <1>1, <2>2, QuietOK DEF Knows, At, PayPcs, MovePcs
<1> QED
  BY <1>2, <1>3 DEF CheckLive

\* Registers with a Razorpay order in hand.
LEMMA WithIntentOK ==
    ASSUME NEW i \in Intents, NEW pc \in PayPcs \ {"copy", "clear"}
    PROVE  LET v == [Idle EXCEPT !.pc = pc, !.i = i] IN
           /\ v \in Task /\ v.pc = pc /\ v.i = i
           /\ rzp[i].state = "captured" => Knows(v)
           /\ pc \notin MovePcs => Knows(v)
<1> DEFINE v == [Idle EXCEPT !.pc = pc, !.i = i]
<1>1. v \in Task /\ v.pc = pc /\ v.i = i
  BY IdleOK DEF Task, Pcs, PayPcs, MovePcs
<1> HIDE DEF v
<1>2. /\ rzp[i].state = "captured" => Knows(v)
      /\ pc \notin MovePcs => Knows(v)
  BY <1>1 DEF Knows, PayPcs, MovePcs
<1> QED
  BY <1>1, <1>2 DEF v

\* One Razorpay order that is not captured moves on.
LEMMA IntentMovesOK ==
    ASSUME rzp \in [Intents -> Intent], NEW i \in Intents, rzp[i].state # "captured", NEW w \in Intent,
           rzp' = [rzp EXCEPT ![i] = w]
    PROVE  rzp' \in [Intents -> Intent] /\ rzp'[i] = w /\ CapturedIsFinal
BY DEF CapturedIsFinal

LEMMA OpenRazorpayOK ==
    ASSUME Inv, NEW t \in Tasks, OpenRazorpay(t) PROVE Inv'
<1> DEFINE b == task[t].saw
<1>1. /\ b \in Bill /\ At(t, "open")
      /\ UNCHANGED <<round, listed, marked, session, bill, strays, forfeited, flagged, answered>>
  BY DEF Inv, TypeOK, Task, OpenRazorpay, floorVars
<1>2. CASE b.intent # None /\ Become(t, [Idle EXCEPT !.pc = "lock", !.i = b.intent]) /\ UNCHANGED rzp
  <2>1. b.intent \in Intents
    BY <1>1, <1>2 DEF Bill
  <2>2. PICK v \in Task : Become(t, v) /\ v.pc = "lock" /\ Knows(v)
    BY <1>2, <2>1, WithIntentOK DEF PayPcs, MovePcs
  <2> QED
    BY <1>1, <1>2, <2>2, QuietOK DEF At, floorVars, moneyVars
<1>3. ASSUME NEW i \in Intents, rzp[i].state = "none",
             rzp' = [rzp EXCEPT ![i] = [state |-> "created", amount |-> b.total]],
             Become(t, [Idle EXCEPT !.pc = "adopt", !.i = i])
      PROVE  Inv'
  <2>1. [state |-> "created", amount |-> b.total] \in Intent
    BY <1>1 DEF Intent, Bill
  <2>2. rzp' \in [Intents -> Intent] /\ CapturedIsFinal
    BY <1>3, <2>1, IntentMovesOK DEF Inv, TypeOK
  <2>3. PICK v \in Task : Become(t, v) /\ v.pc = "adopt" /\ v.i = i
    BY <1>3, WithIntentOK DEF PayPcs, MovePcs
  <2>4. Knows(v)' /\ BillStaysOpen
    BY <1>1, <2>3 DEF Knows, BillStaysOpen, PayPcs, MovePcs
  <2>5. TypeOK'
    BY <1>1, <2>2, <2>3, BecomeOK DEF Inv, TypeOK
  <2> QED
    BY <1>1, <2>2, <2>3, <2>4, <2>5, MildOK DEF At
<1> QED
  BY <1>2, <1>3 DEF OpenRazorpay

LEMMA AdoptOK ==
    ASSUME Inv, NEW t \in Tasks, Adopt(t) PROVE Inv'
<1> PICK i \in Intents : i = task[t].i
  BY DEF Inv, Knows, Adopt, At, PayPcs, MovePcs
<1>1. /\ At(t, "adopt") /\ bill \in Bill /\ task \in [Tasks -> Task]
      /\ UNCHANGED <<round, listed, marked, session, rzp, strays, forfeited, flagged, answered>>
  BY DEF Inv, TypeOK, Adopt, floorVars, moneyVars
<1>2. CASE UNCHANGED bill /\ Finish(t)
  BY <1>1, <1>2, FinishOK, QuietOK DEF At, floorVars, moneyVars
<1>3. CASE /\ bill.status = "open" /\ Goto(t, "lock")
           /\ bill' = [bill EXCEPT !.intent = i, !.history = bill.history \union {i}]
  <2>1. bill' \in Bill /\ BillStaysOpen
    BY <1>1, <1>3 DEF Bill, BillStaysOpen, Inv, Ordered, Frozen
  <2>2. PICK v \in Task : Become(t, v) /\ v.pc = "lock" /\ v.i = i
    <3>1. "lock" \in Pcs
      BY DEF Pcs
    <3>2. task \in [Tasks -> Task] /\ Goto(t, "lock") /\ task[t].i = i
      BY <1>1, <1>3
    <3> DEFINE v == [task[t] EXCEPT !.pc = "lock"]
    <3>3. v \in Task /\ v.pc = "lock" /\ v.i = task[t].i
      BY <3>1, <3>2, GotoOK
    <3>4. Become(t, v)
      BY <3>2 DEF Goto
    <3> HIDE DEF v
    <3> QED
      BY <3>2, <3>3, <3>4
  <2>3. Knows(v)' /\ CapturedIsFinal
    BY <1>1, <2>2 DEF Knows, CapturedIsFinal, PayPcs, MovePcs
  <2>4. TypeOK'
    BY <1>1, <2>1, <2>2, BecomeOK DEF Inv, TypeOK
  <2> QED
    BY <1>1, <2>1, <2>2, <2>3, <2>4, MildOK DEF At
<1> QED
  BY <1>2, <1>3 DEF Adopt

LEMMA LockOK ==
    ASSUME Inv, NEW t \in Tasks, Lock(t) PROVE Inv'
<1> PICK i \in Intents : i = task[t].i
  BY DEF Inv, Knows, Lock, At, PayPcs, MovePcs
<1> DEFINE state == IF rzp[i].state = "created" THEN "handed" ELSE rzp[i].state
           w == [rzp[i] EXCEPT !.state = state]
<1>1. /\ At(t, "lock") /\ rzp \in [Intents -> Intent] /\ rzp' = [rzp EXCEPT ![i] = w]
      /\ UNCHANGED <<round, listed, marked, bill, strays, forfeited, flagged, answered>>
      /\ session' \in {"open", "bill_requested", "paid"}
  BY DEF Inv, TypeOK, Lock
<1>2. w \in Intent /\ (rzp[i].state = "captured" => w = rzp[i])
  BY <1>1 DEF Intent
<1> HIDE DEF w
<1>3. rzp' \in [Intents -> Intent] /\ CapturedIsFinal
  BY <1>1, <1>2 DEF CapturedIsFinal
<1>4. Idle \in Task /\ Become(t, Idle) /\ Knows(Idle)' /\ Idle.pc # "create"
  BY FinishOK DEF Lock
<1>5. TypeOK'
  BY <1>1, <1>3, <1>4, BecomeOK DEF Inv, TypeOK
<1>6. BillStaysOpen
  BY <1>1 DEF BillStaysOpen
<1> QED
  BY <1>1, <1>3, <1>4, <1>5, <1>6, MildOK DEF At

LEMMA GuestPaysOK ==
    ASSUME Inv, NEW i \in Intents, GuestPays(i) PROVE Inv'
<1>1. UNCHANGED <<round, listed, marked, session, bill, strays, forfeited, flagged, answered, task>>
  BY DEF GuestPays, floorVars
<1>2. PICK state \in {"authorized", "captured"} :
          rzp[i].state = "handed" /\ rzp' = [rzp EXCEPT ![i] = [rzp[i] EXCEPT !.state = state]]
  BY DEF GuestPays
<1>3. [rzp[i] EXCEPT !.state = state] \in Intent
  BY DEF Inv, TypeOK, Intent
<1>4. rzp' \in [Intents -> Intent] /\ CapturedIsFinal
  BY <1>2, <1>3, IntentMovesOK DEF Inv, TypeOK
<1>5. Tame /\ Frozen'
  BY <1>1, <1>4 DEF Tame, RoundsGo, PaidIsFinal, CapturedIsFinal, Inv, Frozen
<1>6. ASSUME NEW u \in Tasks PROVE Knows(task[u])'
  <2>1. PICK w : w = task[u]
    OBVIOUS
  <2>2. At(u, "create") => round'[task[u].r] = "none"
    BY <1>1 DEF Inv, Knows, At
  <2>3. Knows(w)'
    BY <1>5, <2>1, <2>2, KnowsStays
  <2> QED
    BY <1>1, <2>1, <2>3 DEF Knows
<1>7. OneCreator' /\ Pending'
  BY <1>1 DEF Inv, OneCreator, Pending, At
<1> QED
  BY <1>1, <1>4, <1>5, <1>6, <1>7 DEF Inv, TypeOK, Ordered

LEMMA StartSettleOK ==
    ASSUME Inv, NEW t \in Tasks, NEW i \in Intents, StartSettle(t, i) PROVE Inv'
<1>1. /\ At(t, "idle") /\ rzp[i].state \in {"authorized", "captured"} /\ rzp \in [Intents -> Intent]
      /\ UNCHANGED <<round, listed, marked, session, bill, strays, forfeited, flagged>>
  BY DEF StartSettle, PaidState, Inv, TypeOK, floorVars
<1>2. BillStaysOpen /\ answered' \subseteq Intents
  BY <1>1 DEF BillStaysOpen, StartSettle, Answer, Inv, TypeOK
<1>3. CASE /\ rzp' = [rzp EXCEPT ![i] = [rzp[i] EXCEPT !.state = "captured"]]
           /\ Become(t, [Idle EXCEPT !.pc = "move", !.i = i])
  <2>1. /\ [rzp[i] EXCEPT !.state = "captured"] \in Intent
        /\ rzp[i].state = "captured" => [rzp[i] EXCEPT !.state = "captured"] = rzp[i]
    BY <1>1 DEF Intent
  <2>2. rzp' \in [Intents -> Intent] /\ CapturedIsFinal /\ rzp'[i].state = "captured"
    BY <1>1, <1>3, <2>1 DEF CapturedIsFinal, Intent
  <2>3. PICK v \in Task : Become(t, v) /\ v.pc = "move" /\ v.i = i
    BY <1>3, WithIntentOK DEF PayPcs, MovePcs
  <2>4. Knows(v)'
    BY <2>2, <2>3 DEF Knows
  <2>5. TypeOK'
    BY <1>1, <1>2, <2>2, <2>3, BecomeOK DEF Inv, TypeOK
  <2> QED
    BY <1>1, <1>2, <2>2, <2>3, <2>4, <2>5, MildOK DEF At
<1>4. ASSUME UNCHANGED rzp, NEW v \in Task, Become(t, v), v.pc \in {"idle", "refuse", "stray"},
             v.pc # "idle" => v.i = i
      PROVE  Inv'
  <2>1. Knows(v)' /\ CapturedIsFinal
    BY <1>4 DEF Knows, MovePcs, CapturedIsFinal, PayPcs
  <2>2. TypeOK'
    BY <1>1, <1>2, <1>4, BecomeOK DEF Inv, TypeOK
  <2> QED
    BY <1>1, <1>2, <1>4, <2>1, <2>2, MildOK DEF At
<1>5. CASE UNCHANGED rzp /\ Become(t, Idle)
  BY <1>4, <1>5, IdleOK
<1>6. ASSUME NEW pc \in {"refuse", "stray"}, UNCHANGED rzp, Become(t, [Idle EXCEPT !.pc = pc, !.i = i])
      PROVE  Inv'
  <2>1. PICK v \in Task : Become(t, v) /\ v.pc = pc /\ v.i = i
    BY <1>6, WithIntentOK DEF PayPcs, MovePcs
  <2> QED
    BY <1>4, <1>6, <2>1
<1>7. CASE bill.status = "open" /\ rzp[i].amount = bill.total
  BY <1>3, <1>7 DEF StartSettle
<1>8. CASE ~(bill.status = "open" /\ rzp[i].amount = bill.total)
  BY <1>5, <1>6, <1>8 DEF StartSettle
<1> QED
  BY <1>7, <1>8

-----------------------------------------------------------------------------
(* The settlement's steps.                                                 *)

\* markPaid's update of an open bill: the handler now has the sitting to close.
LEMMA SettledOK ==
    ASSUME Inv, NEW t \in Tasks, task[t].pc \notin {"close", "void", "flag"},
           NEW channel \in {"online", "counter"}, NEW i \in Intents \union {None},
           task[t].i = i \/ channel = "counter",
           channel = "counter" => i = bill.pid,
           channel = "online" => i \in Intents /\ rzp[i].state = "captured" /\ bill.total = rzp[i].amount,
           bill.status = "open", bill' = Settled(channel, i), Closing(t, channel),
           UNCHANGED <<floorVars, moneyVars>>
    PROVE  Inv'
<1>1. /\ UNCHANGED <<round, listed, marked, session, rzp, strays, forfeited, flagged, answered>>
      /\ bill \in Bill /\ task[t] \in Task
  BY DEF floorVars, moneyVars, Inv, TypeOK
<1>2. /\ bill' \in Bill /\ bill'.status = "paid" /\ bill'.channel = channel /\ bill'.pid = i
      /\ bill'.rounds = bill.rounds /\ bill'.total = bill.total /\ bill'.refund = bill.refund
  BY <1>1 DEF Settled, Bill
<1>3. PICK v \in Task : /\ Become(t, v) /\ v.pc = "close" /\ v.i = task[t].i
                        /\ v.saw.channel = channel /\ v.saw.rounds = bill.rounds
  <2> DEFINE v == [Idle EXCEPT !.pc = "close", !.i = task[t].i, !.saw.channel = channel,
                               !.saw.rounds = bill.rounds]
  <2>1. v \in Task /\ v.pc = "close" /\ v.i = task[t].i
        /\ v.saw.channel = channel /\ v.saw.rounds = bill.rounds
    <3>1. task[t].i \in Intents \union {None} /\ bill.rounds \in SUBSET Rounds
      BY <1>1 DEF Task, Bill
    <3>2. /\ Idle \in Task /\ FirstBill \in Bill /\ Idle.saw = FirstBill
          /\ channel \in {"none", "online", "counter"} /\ "close" \in Pcs
      BY IdleOK, FirstBillOK DEF Pcs
    <3> DEFINE saw == [FirstBill EXCEPT !.channel = channel, !.rounds = bill.rounds]
    <3>3. saw \in Bill /\ saw.channel = channel /\ saw.rounds = bill.rounds
      BY <3>1, <3>2 DEF Bill
    <3>4. v = [Idle EXCEPT !.pc = "close", !.i = task[t].i, !.saw = saw]
      BY <3>2 DEF Idle
    <3> HIDE DEF saw
    <3> QED
      BY <3>1, <3>2, <3>3, <3>4 DEF Task
  <2> QED
    BY <2>1 DEF Closing
<1>4. /\ task' \in [Tasks -> Task] /\ task'[t] = v
      /\ \A u \in Tasks : u # t => task'[u] = task[u]
  BY <1>3, BecomeOK DEF Inv, TypeOK
<1>5. Tame
  BY <1>1 DEF Tame, RoundsGo, PaidIsFinal, CapturedIsFinal
<1>6. Knows(v)'
  BY <1>2, <1>3 DEF Knows, PayPcs, MovePcs
<1>7. \A u \in Tasks : Knows(task[u])'
  BY <1>1, <1>3, <1>5, <1>6, HandlersOK DEF Inv, Knows, At
<1>8. OneCreator'
  BY <1>3, <1>4 DEF Inv, OneCreator, At
<1>9. Frozen'
  BY <1>1, <1>2 DEF Inv, Frozen
<1>10. Pending'
  BY <1>3, <1>4 DEF Pending, At
<1>11. Ordered(bill.rounds)'
  BY <1>1, <1>2 DEF Inv, Ordered
<1> QED
  BY <1>1, <1>2, <1>4, <1>7, <1>8, <1>9, <1>10, <1>11 DEF Inv, TypeOK

\* A handler moves on with the Razorpay order it has in hand.
LEMMA HandOnOK ==
    ASSUME Inv, NEW t \in Tasks, task[t].pc \in PayPcs, NEW pc \in PayPcs \ {"copy"}, Goto(t, pc),
           pc \in MovePcs => task[t].pc \in MovePcs,
           pc = "clear" => task[t].pc = "copy",
           CapturedIsFinal, BillStaysOpen, bill' \in Bill, strays' \subseteq Intents,
           UNCHANGED <<round, listed, marked, session, rzp, flagged, forfeited, answered>>
    PROVE  Inv'
<1>1. pc \in Pcs /\ task \in [Tasks -> Task]
  BY DEF PayPcs, MovePcs, Pcs, Inv, TypeOK
<1>2. PICK v \in Task : Become(t, v) /\ v.pc = pc /\ v.i = task[t].i /\ v.saw = task[t].saw
  BY <1>1, GotoOK DEF Goto
<1>3. Knows(v)'
  BY <1>2 DEF Inv, Knows, PayPcs, MovePcs
<1>4. TypeOK'
  BY <1>2, BecomeOK DEF Inv, TypeOK
<1> QED
  BY <1>2, <1>3, <1>4, MildOK DEF PayPcs, MovePcs

LEMMA MoveReadOK ==
    ASSUME Inv, NEW t \in Tasks, MoveRead(t) PROVE Inv'
<1> PICK i \in Intents : i = task[t].i
  BY DEF Inv, Knows, MoveRead, At, PayPcs, MovePcs
<1>1. /\ At(t, "move") /\ UNCHANGED <<floorVars, bill, moneyVars>>
      /\ bill \in Bill /\ task[t] \in Task /\ rzp[i].state = "captured"
  BY DEF MoveRead, Inv, TypeOK, Knows, At, MovePcs
<1>2. CASE ToMove(i) /\ Become(t, [task[t] EXCEPT !.pc = "copy", !.saw.pid = bill.pid])
  <2> DEFINE v == [task[t] EXCEPT !.pc = "copy", !.saw.pid = bill.pid]
  <2>1. v \in Task /\ v.pc = "copy" /\ v.i = i /\ v.saw.pid = bill.pid
    BY <1>1 DEF Task, Bill, Pcs
  <2>2. bill.pid \in Intents
    BY <1>2 DEF ToMove, Inv, Frozen
  <2> HIDE DEF v
  <2>3. Knows(v)
    BY <1>1, <2>1, <2>2 DEF Knows
  <2> QED
    BY <1>1, <1>2, <2>1, <2>3, QuietOK DEF v, At
<1>3. CASE Goto(t, "settle")
  <2>1. UNCHANGED <<round, listed, marked, session, bill, rzp, strays, forfeited, flagged, answered>>
    BY <1>1 DEF floorVars, moneyVars
  <2> QED
    BY <1>1, <1>3, <2>1, HandOnOK DEF At, PayPcs, MovePcs, CapturedIsFinal, BillStaysOpen, Inv, TypeOK
<1> QED
  BY <1>2, <1>3 DEF MoveRead

LEMMA MoveCopyOK ==
    ASSUME Inv, NEW t \in Tasks, MoveCopy(t) PROVE Inv'
<1>1. /\ At(t, "copy") /\ Goto(t, "clear")
      /\ UNCHANGED <<round, listed, marked, session, bill, rzp, forfeited, flagged, answered>>
  BY DEF MoveCopy, floorVars
<1>2. strays' \subseteq Intents
  BY <1>1 DEF MoveCopy, Inv, TypeOK, Knows, At
<1> QED
  BY <1>1, <1>2, HandOnOK DEF At, PayPcs, MovePcs, CapturedIsFinal, BillStaysOpen, Inv, TypeOK

LEMMA MoveClearOK ==
    ASSUME Inv, NEW t \in Tasks, MoveClear(t) PROVE Inv'
<1>1. /\ At(t, "clear") /\ bill \in Bill /\ strays \subseteq Intents
      /\ UNCHANGED <<round, listed, marked, session, rzp, strays, forfeited, flagged, answered>>
  BY DEF MoveClear, floorVars, moneyVars, Inv, TypeOK
<1>2. bill' \in Bill /\ BillStaysOpen /\ CapturedIsFinal
  BY <1>1 DEF MoveClear, Bill, BillStaysOpen, CapturedIsFinal, Inv, Ordered, Frozen
<1>3. PICK pc \in {"move", "settle"} : Goto(t, pc)
  BY DEF MoveClear
<1> QED
  BY <1>1, <1>2, <1>3, HandOnOK DEF At, PayPcs, MovePcs

LEMMA SettleOK ==
    ASSUME Inv, NEW t \in Tasks, Settle(t) PROVE Inv'
<1> PICK i \in Intents : i = task[t].i
  BY DEF Inv, Knows, Settle, At, PayPcs, MovePcs
<1>1. /\ At(t, "settle") /\ UNCHANGED <<floorVars, moneyVars>> /\ rzp[i].state = "captured"
  BY DEF Settle, Inv, Knows, At, MovePcs
<1>2. CASE bill.status = "open" /\ bill.total = rzp[i].amount
  BY <1>1, <1>2, SettledOK DEF Settle, At
<1>3. ASSUME NEW pc \in {"refuse", "stray"}, Goto(t, pc), UNCHANGED bill PROVE Inv'
  <2>1. UNCHANGED <<round, listed, marked, session, bill, rzp, strays, forfeited, flagged, answered>>
    BY <1>1, <1>3 DEF floorVars, moneyVars
  <2> QED
    BY <1>1, <1>3, <2>1, HandOnOK DEF At, PayPcs, MovePcs, CapturedIsFinal, BillStaysOpen, Inv, TypeOK
<1> QED
  BY <1>2, <1>3 DEF Settle

\* A payment is answered for, or on its way to be recorded.
LEMMA AnsweredOK ==
    ASSUME Inv, NEW t \in Tasks, task[t].pc \in {"refuse", "refused", "stray"},
           Finish(t) \/ Goto(t, "reopen") \/ Goto(t, "refused"),
           bill' \in Bill, BillStaysOpen, strays' \subseteq Intents, answered' \subseteq Intents,
           UNCHANGED <<floorVars, rzp, flagged>>
    PROVE  Inv'
<1>1. UNCHANGED <<round, listed, marked, session, forfeited, rzp, flagged>> /\ CapturedIsFinal
  BY DEF floorVars, CapturedIsFinal
<1>2. PICK v \in Task : /\ Become(t, v) /\ v.pc \in {"idle", "reopen", "refused"}
                        /\ v.pc = "refused" => v.i = task[t].i
  <2>1. {"reopen", "refused"} \subseteq Pcs /\ task \in [Tasks -> Task]
    BY DEF Pcs, Inv, TypeOK
  <2>2. CASE Finish(t)
    BY <2>2, IdleOK DEF Finish
  <2>3. ASSUME NEW pc \in {"reopen", "refused"}, Goto(t, pc)
        PROVE  \E v \in Task : /\ Become(t, v) /\ v.pc \in {"idle", "reopen", "refused"}
                               /\ v.pc = "refused" => v.i = task[t].i
    <3> DEFINE v == [task[t] EXCEPT !.pc = pc]
    <3>1. v \in Task /\ v.pc = pc /\ v.i = task[t].i
      <4>1. pc \in Pcs
        BY <2>1
      <4> QED
        BY <2>1, <4>1, GotoOK
    <3>2. Become(t, v)
      BY <2>3 DEF Goto
    <3> HIDE DEF v
    <3> QED
      BY <3>1, <3>2
  <2> QED
    BY <2>2, <2>3
<1>3. Knows(v)'
  BY <1>2 DEF Inv, Knows, PayPcs, MovePcs
<1>4. TypeOK'
  BY <1>1, <1>2, BecomeOK DEF Inv, TypeOK
<1> QED
  BY <1>1, <1>2, <1>3, <1>4, MildOK

LEMMA RefuseOK ==
    ASSUME Inv, NEW t \in Tasks, Refuse(t) PROVE Inv'
<1> PICK i \in Intents : i = task[t].i
  BY DEF Inv, Knows, Refuse, At, PayPcs
<1>1. bill' \in Bill /\ BillStaysOpen
  <2>1. bill \in Bill /\ [bill EXCEPT !.pid = i, !.refund = TRUE] \in Bill
    BY DEF Inv, TypeOK, Bill
  <2>2. LET b == [bill EXCEPT !.pid = i, !.refund = TRUE] IN
        b.status = bill.status /\ b.channel = bill.channel /\ b.rounds = bill.rounds /\ b.pid = i
    BY <2>1 DEF Inv, TypeOK, Bill
  <2>3. bill' = bill \/ (bill.status = "open" /\ bill' = [bill EXCEPT !.pid = i, !.refund = TRUE])
    BY DEF Refuse
  <2> QED
    BY <2>1, <2>2, <2>3 DEF BillStaysOpen, Inv, Ordered
<1>2. strays' \subseteq Intents /\ answered' \subseteq Intents /\ UNCHANGED <<floorVars, rzp, flagged>>
  BY DEF Refuse, Answer, Inv, TypeOK
<1>3. Finish(t) \/ Goto(t, "reopen") \/ Goto(t, "refused")
  BY DEF Refuse
<1> QED
  BY <1>1, <1>2, <1>3, AnsweredOK DEF Refuse, At

LEMMA RecordStrayOK ==
    ASSUME Inv, NEW t \in Tasks, RecordStray(t) PROVE Inv'
<1> PICK i \in Intents : i = task[t].i
  BY DEF Inv, Knows, RecordStray, PayPcs
<1>1. /\ UNCHANGED <<floorVars, bill, rzp, flagged>>
      /\ strays' \subseteq Intents /\ answered' \subseteq Intents
  BY DEF RecordStray, Answer, Inv, TypeOK
<1>2. bill' \in Bill /\ BillStaysOpen
  BY <1>1 DEF Inv, TypeOK, BillStaysOpen
<1>3. task[t].pc \in {"refuse", "refused", "stray"} /\ (Finish(t) \/ Goto(t, "reopen"))
  BY DEF RecordStray
<1> QED
  BY <1>1, <1>2, <1>3, AnsweredOK

LEMMA ReopenOK ==
    ASSUME Inv, NEW t \in Tasks, Reopen(t) PROVE Inv'
<1> DEFINE w == [Idle EXCEPT !.pc = "bill", !.path = "release", !.was = session', !.ate = BilledOrders(listed)]
<1>1. /\ UNCHANGED <<round, listed, marked, bill, rzp, strays, forfeited, flagged, answered>>
      /\ task[t].pc \in {"reopen", "backout", "released"} /\ session' \in {"open", "bill_requested", "paid"}
  BY DEF Reopen, moneyVars, Reopened, Inv, TypeOK
<1>2. BilledOrders(listed) \in SUBSET Rounds /\ Ordered(BilledOrders(listed))
  BY BilledOK DEF Inv, TypeOK
<1>3. w \in Task /\ w.pc = "bill" /\ w.ate = BilledOrders(listed)
  BY <1>1, <1>2, IdleOK DEF Task, Pcs, Paths
<1>4. PICK v \in Task : Become(t, v) /\ (v.pc = "idle" \/ (v.pc = "bill" /\ v.ate = BilledOrders(listed)))
  BY <1>3, IdleOK DEF Reopen
<1>5. Knows(v)'
  BY <1>1, <1>2, <1>4 DEF Knows, Ordered, PayPcs, MovePcs
<1>6. TypeOK'
  BY <1>1, <1>4, BecomeOK DEF Inv, TypeOK
<1>7. CapturedIsFinal /\ BillStaysOpen
  BY <1>1 DEF CapturedIsFinal, BillStaysOpen
<1> QED
  BY <1>1, <1>4, <1>5, <1>6, <1>7, MildOK

LEMMA CheckCounterOK ==
    ASSUME Inv, NEW t \in Tasks, CheckCounter(t) PROVE Inv'
<1> DEFINE v == [Idle EXCEPT !.pc = "counted", !.saw.channel = "counter"]
<1>1. At(t, "counted") /\ UNCHANGED <<floorVars, bill, moneyVars>>
  BY DEF CheckCounter
<1>2. v \in Task /\ v.pc = "counted"
  BY IdleOK, FirstBillOK DEF Task, Bill, Pcs
<1>3. CASE Finish(t)
  BY <1>1, <1>3, FinishOK, QuietOK DEF At
<1>4. CASE Become(t, v)
  BY <1>1, <1>2, <1>4, QuietOK DEF Knows, At, PayPcs, MovePcs
<1> QED
  BY <1>3, <1>4 DEF CheckCounter

LEMMA PayAtCounterOK ==
    ASSUME Inv, NEW t \in Tasks, PayAtCounter(t) PROVE Inv'
<1>1. At(t, "counted") /\ UNCHANGED <<floorVars, moneyVars>>
  BY DEF PayAtCounter
<1>2. CASE bill.status = "open"
  <2>1. PICK pid \in Intents \union {None} : pid = bill.pid
    BY DEF Inv, TypeOK, Bill
  <2>2. bill' = Settled("counter", pid) /\ Closing(t, "counter")
    BY <1>2, <2>1 DEF PayAtCounter
  <2> QED
    BY <1>1, <1>2, <2>1, <2>2, SettledOK DEF At
<1>3. CASE bill.status # "open"
  BY <1>1, <1>3, FinishOK, QuietOK DEF PayAtCounter, At
<1> QED
  BY <1>2, <1>3

LEMMA StartBackOutOK ==
    ASSUME Inv, NEW t \in Tasks, StartBackOut(t) PROVE Inv'
<1>1. /\ At(t, "idle") /\ UNCHANGED <<floorVars, bill, moneyVars>> /\ task \in [Tasks -> Task]
      /\ {"backout", "released"} \subseteq Pcs
  BY DEF StartBackOut, Inv, TypeOK, Pcs
<1>2. PICK pc \in {"backout", "released"} : Goto(t, pc)
  BY DEF StartBackOut
<1>3. PICK v \in Task : Become(t, v) /\ v.pc = pc
  BY <1>1, <1>2, GotoOK DEF Goto
<1> QED
  BY <1>1, <1>3, QuietOK DEF Knows, At, PayPcs, MovePcs

\* The sitting ends: its rounds are marked as paid, the voided ones still to be flagged.
LEMMA CloseSessionOK ==
    ASSUME Inv, NEW t \in Tasks, CloseSession(t) PROVE Inv'
<1>1. /\ UNCHANGED <<round, listed, bill, rzp, strays, forfeited, flagged, answered>> /\ At(t, "close")
      /\ marked' = marked \union {r \in Rounds : round[r] \notin {"none", "cancelled"}}
      /\ session' = "paid" /\ Goto(t, "void") /\ "void" \in Pcs /\ task \in [Tasks -> Task]
  BY DEF CloseSession, moneyVars, Inv, TypeOK, Pcs
<1>2. PICK v \in Task : Become(t, v) /\ v.pc = "void" /\ v.saw = task[t].saw /\ v.i = task[t].i
  <2>1. "void" \in Pcs /\ task \in [Tasks -> Task] /\ Goto(t, "void")
    BY <1>1
  <2> QED
    BY <2>1, GotoOK DEF Goto
<1>3. /\ task' \in [Tasks -> Task] /\ task'[t] = v
      /\ \A u \in Tasks : u # t => task'[u] = task[u]
  BY <1>2, BecomeOK DEF Inv, TypeOK
<1>4. Tame
  BY <1>1 DEF Tame, RoundsGo, PaidIsFinal, CapturedIsFinal
<1>5. Knows(v)'
  BY <1>1, <1>2 DEF Inv, Knows, At, PayPcs, MovePcs
<1>6. \A u \in Tasks : Knows(task[u])'
  BY <1>1, <1>2, <1>4, <1>5, HandlersOK DEF Inv, Knows, At
<1>7. OneCreator'
  BY <1>2, <1>3 DEF Inv, OneCreator, At
<1>8. Pending'
  <2> SUFFICES ASSUME bill.channel = "online", NEW r \in bill.rounds
               PROVE  /\ round[r] # "cancelled" => r \in marked'
                      /\ round[r] = "cancelled" => \E u \in Tasks : task'[u].pc \in {"close", "void"}
    BY <1>1 DEF Pending
  <2>1. r \in Rounds /\ round[r] # "none"
    BY DEF Inv, TypeOK, Bill, Ordered
  <2> QED
    BY <1>1, <1>2, <1>3, <2>1
<1>9. marked' \subseteq Rounds
  BY <1>1 DEF Inv, TypeOK
<1> QED
  BY <1>1, <1>3, <1>6, <1>7, <1>8, <1>9 DEF Inv, TypeOK, Frozen, Ordered

LEMMA FlagVoidedOK ==
    ASSUME Inv, NEW t \in Tasks, FlagVoided(t) PROVE Inv'
<1> DEFINE online == task[t].saw.channel = "online"
<1>1. /\ UNCHANGED <<round, listed, marked, session, bill, rzp, strays, forfeited>> /\ At(t, "void")
      /\ flagged' = IF online THEN flagged \union {r \in task[t].saw.rounds : round[r] = "cancelled"} ELSE flagged
      /\ answered' = IF online THEN answered \union {task[t].i} ELSE answered
  BY DEF FlagVoided, floorVars
<1>2. /\ bill.channel = task[t].saw.channel /\ bill.rounds = task[t].saw.rounds
      /\ online => bill.pid = task[t].i /\ bill.pid \in Intents
  BY <1>1 DEF Inv, Knows, At, Frozen
<1>3. Idle \in Task /\ Become(t, Idle) /\ Knows(Idle)' /\ Idle.pc \notin {"create", "flag"}
  BY FinishOK DEF FlagVoided
<1>4. /\ task' \in [Tasks -> Task] /\ task'[t] = Idle
      /\ \A u \in Tasks : u # t => task'[u] = task[u]
  BY <1>3, BecomeOK DEF Inv, TypeOK
<1>5. Tame
  BY <1>1 DEF Tame, RoundsGo, PaidIsFinal, CapturedIsFinal
<1>6. \A u \in Tasks : Knows(task[u])'
  BY <1>1, <1>3, <1>5, HandlersOK DEF Inv, Knows, At
<1>7. OneCreator'
  BY <1>3, <1>4 DEF Inv, OneCreator, At
<1>8. bill.rounds \subseteq Rounds
  BY DEF Inv, TypeOK, Bill
<1>9. flagged' \subseteq Rounds /\ answered' \subseteq Intents
  BY <1>1, <1>2, <1>8 DEF Inv, TypeOK
<1>10. Pending'
  <2> SUFFICES ASSUME bill.channel = "online", NEW r \in bill.rounds
               PROVE  /\ round[r] # "cancelled" => r \in marked \/ \E u \in Tasks : At(u, "close")'
                      /\ round[r] = "cancelled" => r \in flagged'
    BY <1>1 DEF Pending
  <2>1. \A u \in Tasks : At(u, "close") => At(u, "close")'
    BY <1>1, <1>4 DEF At
  <2> QED
    BY <1>1, <1>2, <2>1 DEF Inv, Pending
<1> QED
  BY <1>1, <1>4, <1>6, <1>7, <1>9, <1>10 DEF Inv, TypeOK, Frozen, Ordered

-----------------------------------------------------------------------------
(* Every step, and the theorems.                                           *)

LEMMA StutterOK == ASSUME Inv, UNCHANGED vars PROVE Inv'
<1>1. UNCHANGED <<round, listed, marked, session, bill, rzp, strays, forfeited, flagged, answered, task>>
  BY DEF vars, floorVars, moneyVars
<1>2. (\A t \in Tasks : Knows(task[t])) => \A t \in Tasks : Knows(task[t])'
  BY <1>1 DEF Knows, Ordered
<1>3. TypeOK' /\ Frozen' /\ OneCreator' /\ Ordered(bill.rounds)' /\ Pending'
  BY <1>1 DEF Inv, TypeOK, Frozen, OneCreator, Ordered, Pending, At
<1> QED
  BY <1>2, <1>3 DEF Inv

LEMMA HandlerStepOK ==
    ASSUME Inv, NEW t \in Tasks,
           Arrive(t) \/ OrderStep(t) \/ BillStep(t) \/ PayStep(t) \/ SettleStep(t)
    PROVE  Inv'
<1>1. CASE Arrive(t)
  BY <1>1, PlaceRoundOK, StartCancelOK, AskFinalOK, AssembleOK, StartSettleOK, StartBackOutOK, StartDiscountOK
     DEF Arrive
<1>2. CASE OrderStep(t)
  BY <1>2, CreateRoundOK, PushRoundOK, CancelRoundOK, FlagCancelledOK DEF OrderStep
<1>3. CASE BillStep(t)
  BY <1>3, ReadBillOK, ReleaseAbandonedOK, WriteBillOK, ApplyDiscountOK DEF BillStep
<1>4. CASE PayStep(t)
  BY <1>4, CheckLiveOK, OpenRazorpayOK, AdoptOK, LockOK DEF PayStep
<1>5. CASE SettleStep(t)
  BY <1>5, MoveReadOK, MoveCopyOK, MoveClearOK, SettleOK, RefuseOK, ReopenOK, RecordStrayOK,
     CloseSessionOK, FlagVoidedOK, CheckCounterOK, PayAtCounterOK DEF SettleStep
<1> QED
  BY <1>1, <1>2, <1>3, <1>4, <1>5

\* Every step of every handler, of the kitchen and of Razorpay keeps the invariant.
THEOREM StepInv == Inv /\ [Next]_vars => Inv'
<1> SUFFICES ASSUME Inv, [Next]_vars PROVE Inv'
  OBVIOUS
<1>1. CASE UNCHANGED vars
  BY <1>1, StutterOK
<1>2. ASSUME NEW r \in Rounds, Kitchen(r) PROVE Inv'
  BY <1>2, KitchenOK
<1>3. ASSUME NEW i \in Intents, GuestPays(i) PROVE Inv'
  BY <1>3, GuestPaysOK
<1>4. ASSUME NEW t \in Tasks,
             Arrive(t) \/ OrderStep(t) \/ BillStep(t) \/ PayStep(t) \/ SettleStep(t)
      PROVE  Inv'
  BY <1>4, HandlerStepOK
<1> QED
  BY <1>1, <1>2, <1>3, <1>4 DEF Next

LEMMA Invariance == Spec => []Inv
BY InitInv, StepInv, PTL DEF Spec

\* Every variable keeps its type.
THEOREM TypeCorrect == Spec => []TypeOK
<1>1. Inv => TypeOK
  BY DEF Inv
<1> QED
  BY <1>1, Invariance, PTL

\* The bill a guest holds after paying online is for the amount Razorpay took.
THEOREM PaidAsShown == Spec => []ReceiptIsPayment
<1>1. Inv => ReceiptIsPayment
  BY DEF Inv, Frozen, ReceiptIsPayment
<1> QED
  BY <1>1, Invariance, PTL

\* A captured payment that was answered for settled the bill or is recorded as owed back.

\* A round paid for online and cancelled is flagged for a refund, whichever came first, unless its
\* customer cancelled it after the kitchen had started.
THEOREM CancelledIsFlagged == Spec => []CancelledRoundIsFlagged
<1>1. Inv => CancelledRoundIsFlagged
  <2> SUFFICES ASSUME Inv, NEW r \in bill.rounds, r \notin forfeited, bill.channel = "online", round[r] = "cancelled",
                      \A t \in DOMAIN task : task[t].pc \notin {"close", "void", "flag"}
               PROVE  r \in flagged
    BY DEF CancelledRoundIsFlagged
  <2>1. DOMAIN task = Tasks
    BY DEF Inv, TypeOK
  <2> QED
    BY <2>1 DEF Inv, Pending, At
<1> QED
  BY <1>1, Invariance, PTL

-----------------------------------------------------------------------------
(* No payment is lost, one handler at a time or with one Razorpay order.   *)

Alone == \A t, u \in Tasks : t = u
OneIntent == \A i, j \in Intents : i = j

\* What the registers v know of the payment the bill has.
Room(v) ==
    /\ v.pc \in {"copy", "clear"} =>
          Alone /\ bill.status = "open" /\ bill.refund /\ bill.pid = v.saw.pid
    /\ v.pc = "settle" => (bill.status = "open" /\ bill.refund => bill.pid = v.i)

SlotOnRecord ==
    bill.pid # None => bill.refund \/ bill.channel = "online" \/ bill.pid \in strays
Copied(v) == v.pc = "clear" => v.saw.pid \in strays

Kept ==
    /\ SlotOnRecord
    /\ PaymentIsAccounted
    /\ \A t \in Tasks : Room(task[t]) /\ Copied(task[t])

\* A handler's step keeps it when what the others know of the bill stays true.
LEMMA KeptOK ==
    ASSUME Inv, Kept, NEW t \in Tasks, NEW v \in Task, Become(t, v), Room(v)', Copied(v)',
           \A u \in Tasks, w \in Task : u # t /\ w = task[u] => Room(w)',
           strays \subseteq strays', SlotOnRecord', PaymentIsAccounted'
    PROVE  Kept'
<1>1. /\ task' \in [Tasks -> Task] /\ task'[t] = v
      /\ \A u \in Tasks : u # t => task'[u] = task[u]
  BY BecomeOK DEF Inv, TypeOK
<1>2. ASSUME NEW u \in Tasks PROVE Room(task[u])' /\ Copied(task[u])'
  <2>1. PICK w \in Task : w = task'[u]
    BY <1>1
  <2>2. Room(w)' /\ Copied(w)'
    <3>1. CASE u = t
      BY <1>1, <2>1, <3>1
    <3>2. CASE u # t
      <4>1. w = task[u]
        BY <1>1, <2>1, <3>2
      <4> QED
        BY <3>2, <4>1 DEF Kept, Copied
    <3> QED
      BY <3>1, <3>2
  <2> QED
    BY <2>1, <2>2 DEF Room, Copied
<1> QED
  BY <1>2 DEF Kept

\* The payment on the bill, and which payments are on record, stay as they are.
SlotStays ==
    /\ bill'.status = bill.status /\ bill'.channel = bill.channel
    /\ bill'.pid = bill.pid /\ bill'.refund = bill.refund

LEMMA SlotStaysOK ==
    ASSUME Inv, Kept, SlotStays, NEW t \in Tasks, NEW v \in Task, Become(t, v), Room(v)', Copied(v)',
           strays \subseteq strays', PaymentIsAccounted'
    PROVE  Kept'
<1>1. \A u \in Tasks, w \in Task : u # t /\ w = task[u] => Room(w)'
  BY DEF Kept, Room, SlotStays
<1>2. SlotOnRecord'
  BY DEF Kept, SlotOnRecord, SlotStays
<1> QED
  BY <1>1, <1>2, KeptOK

\* The same, of a handler that has no payment to settle.
LEMMA RestOK ==
    ASSUME Inv, Inv', Kept, SlotStays, UNCHANGED <<strays, answered>>, NEW t \in Tasks,
           task'[t].pc \notin {"copy", "clear", "settle"}, \E w : Become(t, w)
    PROVE  Kept'
<1>1. PICK v \in Task : Become(t, v)
  BY DEF Become, Inv, TypeOK
<1>2. task'[t] = v
  BY <1>1, BecomeOK DEF Inv, TypeOK
<1>3. Room(v)' /\ Copied(v)'
  BY <1>2 DEF Room, Copied
<1>4. PaymentIsAccounted'
  BY DEF Kept, PaymentIsAccounted, SlotStays
<1> QED
  BY <1>1, <1>3, <1>4, SlotStaysOK

\* Steps that touch neither the payment on the bill nor what is on record.
LEMMA RestStepsOK ==
    ASSUME Inv, Inv', Kept, NEW t \in Tasks,
           \/ OrderStep(t) \/ BillStep(t) \/ PayStep(t)
           \/ Reopen(t) \/ CloseSession(t) \/ CheckCounter(t) \/ StartBackOut(t) \/ StartDiscount(t)
           \/ \E r \in Rounds : PlaceRound(t, r) \/ StartCancel(t, r)
           \/ \E path \in Paths : AskFinal(t, path) \/ Assemble(t, path)
    PROVE  Kept'
<1>1. /\ bill \in Bill /\ task \in [Tasks -> Task] /\ task' \in [Tasks -> Task] /\ task[t] \in Task
      /\ Idle \in Task
  BY IdleOK DEF Inv, TypeOK
<1>2. ASSUME NEW pc \in Pcs \ {"copy", "clear", "settle"}, NEW v, v.pc = pc, Become(t, v),
             SlotStays, UNCHANGED <<strays, answered>>
      PROVE  Kept'
  <2>1. task'[t] = v
    BY <1>1, <1>2 DEF Become
  <2> QED
    BY <1>2, <2>1, RestOK
<1>3. SlotStays /\ UNCHANGED <<strays, answered>>
  <2>1. CASE UNCHANGED bill
    BY <2>1 DEF SlotStays, moneyVars, OrderStep, BillStep, PayStep, CreateRound, PushRound, CancelRound,
        FlagCancelled, ReadBill, ReleaseAbandoned, WriteBill, ApplyDiscount, CheckLive, OpenRazorpay, Adopt,
        Lock, Reopen, CloseSession, CheckCounter, StartBackOut, StartDiscount, PlaceRound, StartCancel,
        AskFinal, Assemble
  <2>2. CASE WriteBill(t)
    BY <1>1, <2>2 DEF WriteBill, Priced, Bill, SlotStays, moneyVars
  <2>3. CASE ApplyDiscount(t)
    BY <1>1, <2>3 DEF ApplyDiscount, Bill, SlotStays, moneyVars
  <2>4. CASE Adopt(t)
    BY <1>1, <2>4 DEF Adopt, Bill, SlotStays, moneyVars
  <2> QED
    BY <2>1, <2>2, <2>3, <2>4 DEF OrderStep, BillStep, PayStep, CreateRound, PushRound, CancelRound,
        FlagCancelled, ReadBill, ReleaseAbandoned, CheckLive, OpenRazorpay,
        Lock, Reopen, CloseSession, CheckCounter, StartBackOut, StartDiscount, PlaceRound, StartCancel,
        AskFinal, Assemble
<1>4. ASSUME NEW pc \in Pcs \ {"copy", "clear", "settle"}, Goto(t, pc) PROVE Kept'
  <2>1. [task[t] EXCEPT !.pc = pc].pc = pc
    BY <1>1 DEF Task
  <2> QED
    BY <1>2, <1>3, <1>4, <2>1 DEF Goto
<1>5. CASE Finish(t)
  BY <1>2, <1>3, <1>5, IdleOK DEF Finish, Pcs
<1>6. ASSUME NEW b, Given(t, b) PROVE Kept'
  <2>1. PICK pc \in {"idle", "live", "counted"} : pc = After(task[t].path)
    BY DEF After
  <2>2. CASE pc = "idle"
    BY <1>5, <1>6, <2>1, <2>2 DEF Given, Finish
  <2>3. CASE pc # "idle"
    <3>1. Become(t, [Idle EXCEPT !.pc = pc, !.saw = b])
      BY <1>6, <2>1, <2>3 DEF Given
    <3>2. [Idle EXCEPT !.pc = pc, !.saw = b].pc = pc
      BY <1>1 DEF Task
    <3> QED
      BY <1>2, <1>3, <3>1, <3>2 DEF Pcs
  <2> QED
    BY <2>2, <2>3
<1>7. CASE OrderStep(t)
  BY <1>4, <1>5, <1>7 DEF OrderStep, CreateRound, PushRound, CancelRound, FlagCancelled, Pcs
<1>8. CASE ReadBill(t)
  <2>1. ASSUME NEW pc \in {"abandoned", "write"},
               Become(t, [task[t] EXCEPT !.pc = pc, !.saw.off = bill.off])
        PROVE  Kept'
    <3>1. [task[t] EXCEPT !.pc = pc, !.saw.off = bill.off].pc = pc
      BY <1>1 DEF Task
    <3> QED
      BY <1>2, <1>3, <2>1, <3>1 DEF Pcs
  <2> QED
    BY <1>6, <1>8, <2>1 DEF ReadBill
<1>9. CASE ReleaseAbandoned(t) \/ WriteBill(t) \/ ApplyDiscount(t)
  BY <1>4, <1>5, <1>6, <1>9 DEF ReleaseAbandoned, WriteBill, ApplyDiscount, Pcs
<1>10. CASE OpenRazorpay(t)
  <2>1. PICK pc \in {"lock", "adopt"}, i \in Intents \union {None} :
            Become(t, [Idle EXCEPT !.pc = pc, !.i = i])
    BY <1>1, <1>10 DEF OpenRazorpay, Task, Bill
  <2>2. [Idle EXCEPT !.pc = pc, !.i = i].pc = pc
    BY <1>1 DEF Task
  <2> QED
    BY <1>2, <1>3, <2>1, <2>2 DEF Pcs
<1>11. CASE CheckLive(t) \/ Adopt(t) \/ Lock(t)
  BY <1>4, <1>5, <1>11 DEF CheckLive, Adopt, Lock, Pcs
<1>12. CASE Reopen(t)
  <2> DEFINE v == [Idle EXCEPT !.pc = "bill", !.path = "release", !.was = session',
                               !.ate = BilledOrders(listed)]
  <2>1. v.pc = "bill"
    BY <1>1 DEF Task
  <2>2. Become(t, v) \/ Finish(t)
    BY <1>12 DEF Reopen, Finish
  <2> HIDE DEF v
  <2> QED
    BY <1>2, <1>3, <1>5, <2>1, <2>2 DEF Pcs
<1>13. CASE CloseSession(t) \/ StartBackOut(t)
  BY <1>4, <1>13 DEF CloseSession, StartBackOut, Pcs
<1>14. CASE CheckCounter(t)
  <2>1. [Idle EXCEPT !.pc = "counted", !.saw.channel = "counter"].pc = "counted"
    BY <1>1 DEF Task
  <2> QED
    BY <1>2, <1>3, <1>5, <1>14, <2>1 DEF CheckCounter, Pcs
<1>15. CASE StartDiscount(t)
  <2>1. [Idle EXCEPT !.pc = "discount", !.saw.off = bill.off, !.saw.rounds = bill.rounds].pc = "discount"
    BY <1>1 DEF Task
  <2> QED
    BY <1>2, <1>3, <1>15, <2>1 DEF StartDiscount, Pcs
<1>16. ASSUME NEW r \in Rounds, PlaceRound(t, r) \/ StartCancel(t, r) PROVE Kept'
  <2>1. /\ [Idle EXCEPT !.pc = "create", !.r = r].pc = "create"
        /\ [Idle EXCEPT !.pc = "cancel", !.r = r, !.was = round[r]].pc = "cancel"
    BY <1>1 DEF Task
  <2> QED
    BY <1>2, <1>3, <1>16, <2>1 DEF PlaceRound, StartCancel, Pcs
<1>17. ASSUME NEW path \in Paths, AskFinal(t, path) \/ Assemble(t, path) PROVE Kept'
  <2>1. /\ [Idle EXCEPT !.pc = "final", !.path = path].pc = "final"
        /\ [Idle EXCEPT !.pc = "bill", !.path = path, !.ate = BilledOrders(listed), !.was = session].pc
               = "bill"
    BY <1>1 DEF Task
  <2> QED
    BY <1>2, <1>3, <1>17, <2>1 DEF AskFinal, Assemble, Pcs
<1> QED
  BY <1>7, <1>8, <1>9, <1>10, <1>11, <1>12, <1>13, <1>14, <1>15, <1>16, <1>17 DEF BillStep, PayStep

\* A handler that is no longer moving or settling.
LEMMA RestsOK ==
    \A v : v.pc \notin {"copy", "clear", "settle"} => Room(v)' /\ Copied(v)'
BY DEF Room, Copied

\* An answered payment stays accounted for while the bill is, and one more payment is.
LEMMA AnswerOK ==
    ASSUME Inv, Kept, SlotStays, strays \subseteq strays', UNCHANGED rzp,
           NEW i \in Intents, rzp[i].state = "captured" => bill.pid = i \/ i \in strays',
           Answer(i) \/ UNCHANGED answered
    PROVE  PaymentIsAccounted'
<1>1. answered' \subseteq answered \union {i}
      /\ (i \in answered' => i \in answered \/ rzp[i].state = "captured")
  BY DEF Answer
<1>2. bill.pid = i => i \in strays \/ bill.refund \/ bill.channel = "online"
  BY IntentAssumption DEF Kept, SlotOnRecord
<1>3. ASSUME NEW j \in answered'
      PROVE  \/ bill.channel = "online" /\ bill.pid = j
             \/ bill.refund /\ bill.pid = j
             \/ j \in strays'
  <2>1. CASE j \in answered
    BY <2>1 DEF Kept, PaymentIsAccounted
  <2>2. CASE j \notin answered
    BY <1>1, <1>2, <2>2
  <2> QED
    BY <2>1, <2>2
<1> QED
  BY <1>3 DEF PaymentIsAccounted, SlotStays

LEMMA SlotUnchanged == UNCHANGED bill => SlotStays
BY DEF SlotStays

LEMMA StartSettleKeeps ==
    ASSUME Inv, Inv', Kept, NEW t \in Tasks, NEW i \in Intents, StartSettle(t, i) PROVE Kept'
<1>1. SlotStays /\ UNCHANGED strays
  BY SlotUnchanged DEF StartSettle
<1>2. PICK v \in Task : Become(t, v) /\ v.pc \in {"move", "idle", "refuse", "stray"}
  <2>1. ASSUME NEW pc \in {"move", "refuse", "stray"}, Become(t, [Idle EXCEPT !.i = i, !.pc = pc])
        PROVE  \E v \in Task : Become(t, v) /\ v.pc = pc
    <3> DEFINE v == [Idle EXCEPT !.i = i, !.pc = pc]
    <3>1. v \in Task /\ v.pc = pc
      BY IdleOK DEF Task, Pcs
    <3> HIDE DEF v
    <3> QED
      BY <2>1, <3>1 DEF v
  <2>2. \/ Become(t, Idle)
        \/ \E pc \in {"move", "refuse", "stray"} : Become(t, [Idle EXCEPT !.i = i, !.pc = pc])
    BY DEF StartSettle
  <2> QED
    BY <2>1, <2>2, IdleOK
<1>3. Room(v)' /\ Copied(v)'
  BY <1>2, RestsOK
<1>4. PaymentIsAccounted'
  <2>1. CASE UNCHANGED answered
    BY <1>1, <2>1 DEF Kept, PaymentIsAccounted, SlotStays
  <2>2. CASE answered' # answered
    <3>1. bill.pid = i /\ Answer(i) /\ UNCHANGED rzp
      BY <2>2 DEF StartSettle
    <3> QED
      BY <1>1, <3>1, AnswerOK
  <2> QED
    BY <2>1, <2>2
<1> QED
  BY <1>1, <1>2, <1>3, <1>4, SlotStaysOK

\* Finding another payment's refund on the bill takes two Razorpay orders, so it is alone.
LEMMA MoveReadKeeps ==
    ASSUME Alone \/ OneIntent, Inv, Inv', Kept, NEW t \in Tasks, MoveRead(t) PROVE Kept'
<1>1. /\ SlotStays /\ UNCHANGED <<strays, answered>> /\ task[t] \in Task /\ bill \in Bill
      /\ At(t, "move") /\ task[t].i \in Intents
  BY SlotUnchanged DEF MoveRead, moneyVars, Inv, TypeOK, Knows, At, PayPcs, MovePcs
<1>2. PaymentIsAccounted'
  BY <1>1 DEF Kept, PaymentIsAccounted, SlotStays
<1>3. PICK v \in Task : /\ Become(t, v) /\ v.pc \in {"copy", "settle"} /\ v.i = task[t].i
                        /\ v.pc = "copy" => ToMove(v.i) /\ v.saw.pid = bill.pid
                        /\ v.pc = "settle" => ~ToMove(v.i)
  <2>1. CASE ToMove(task[t].i)
    <3> DEFINE v == [task[t] EXCEPT !.pc = "copy", !.saw.pid = bill.pid]
    <3>1. v \in Task /\ v.pc = "copy" /\ v.i = task[t].i /\ v.saw.pid = bill.pid
      BY <1>1 DEF Task, Bill, Pcs
    <3>2. Become(t, v)
      BY <2>1 DEF MoveRead
    <3> HIDE DEF v
    <3> QED
      BY <2>1, <3>1, <3>2
  <2>2. CASE ~ToMove(task[t].i)
    <3> DEFINE v == [task[t] EXCEPT !.pc = "settle"]
    <3>1. v \in Task /\ v.pc = "settle" /\ v.i = task[t].i
      BY <1>1 DEF Task, Pcs
    <3>2. Become(t, v)
      BY <2>2 DEF MoveRead, Goto
    <3> HIDE DEF v
    <3> QED
      BY <2>2, <3>1, <3>2
  <2> QED
    BY <2>1, <2>2
<1>4. bill.refund => bill.pid \in Intents
  BY DEF Inv, Frozen
<1>5. Room(v)'
  BY <1>1, <1>3, <1>4 DEF Room, ToMove, SlotStays, OneIntent
<1>6. Copied(v)'
  BY <1>3 DEF Copied
<1> QED
  BY <1>1, <1>2, <1>3, <1>5, <1>6, SlotStaysOK

LEMMA MoveCopyKeeps ==
    ASSUME Inv, Inv', Kept, NEW t \in Tasks, MoveCopy(t) PROVE Kept'
<1>1. /\ SlotStays /\ UNCHANGED answered /\ task \in [Tasks -> Task] /\ At(t, "copy")
      /\ strays' = strays \union {task[t].saw.pid} /\ Goto(t, "clear") /\ "clear" \in Pcs
  BY SlotUnchanged DEF MoveCopy, Inv, TypeOK, Pcs
<1>2. PICK v \in Task : Become(t, v) /\ v.pc = "clear" /\ v.saw = task[t].saw /\ v.i = task[t].i
  <2>1. "clear" \in Pcs /\ task \in [Tasks -> Task] /\ Goto(t, "clear")
    BY <1>1
  <2> QED
    BY <2>1, GotoOK DEF Goto
<1>3. Room(v)' /\ Copied(v)'
  BY <1>1, <1>2 DEF Kept, Room, Copied, SlotStays, At
<1>4. PaymentIsAccounted'
  BY <1>1 DEF Kept, PaymentIsAccounted, SlotStays
<1> QED
  BY <1>1, <1>2, <1>3, <1>4, SlotStaysOK

\* The refund cleared has been copied, and nobody else acts.
LEMMA MoveClearKeeps ==
    ASSUME Inv, Inv', Kept, NEW t \in Tasks, MoveClear(t) PROVE Kept'
<1>1. /\ task \in [Tasks -> Task] /\ bill \in Bill /\ At(t, "clear")
      /\ UNCHANGED <<strays, answered>>
  BY DEF MoveClear, moneyVars, Inv, TypeOK
<1>2. Alone /\ bill.status = "open" /\ bill.refund /\ bill.pid = task[t].saw.pid /\ bill.pid \in strays
  BY <1>1 DEF Kept, Room, Copied, At
<1>3. bill' = [bill EXCEPT !.refund = FALSE] /\ Goto(t, "settle") /\ "settle" \in Pcs
  BY <1>2 DEF MoveClear, Pcs
<1>4. bill'.refund = FALSE /\ bill'.pid = bill.pid /\ bill'.channel = bill.channel
  BY <1>1, <1>3 DEF Bill
<1>5. PICK v \in Task : Become(t, v) /\ v.pc = "settle"
  <2>1. "settle" \in Pcs /\ task \in [Tasks -> Task] /\ Goto(t, "settle")
    BY <1>1, <1>3
  <2> QED
    BY <2>1, GotoOK DEF Goto
<1>6. Room(v)' /\ Copied(v)'
  BY <1>4, <1>5 DEF Room, Copied
<1>7. SlotOnRecord' /\ PaymentIsAccounted'
  BY <1>1, <1>2, <1>4 DEF Kept, SlotOnRecord, PaymentIsAccounted
<1>8. \A u \in Tasks : u = t
  BY <1>2 DEF Alone
<1> QED
  BY <1>1, <1>5, <1>6, <1>7, <1>8, KeptOK

\* The bill is settled: only the payment now counted, or one at the counter, could have its refund
\* on it.
LEMMA SettledKeeps ==
    ASSUME Inv, Inv', Kept, NEW t \in Tasks, bill.status = "open",
           NEW channel \in {"online", "counter"}, NEW i \in Intents \union {None},
           bill' = Settled(channel, i), Closing(t, channel), UNCHANGED <<strays, answered>>,
           channel = "online" => (bill.refund => bill.pid = i),
           channel = "counter" => i = bill.pid
    PROVE  Kept'
<1>1. /\ task' \in [Tasks -> Task] /\ task[t] \in Task /\ bill \in Bill /\ bill.channel = "none"
      /\ Idle \in Task
  BY IdleOK DEF Inv, TypeOK, Frozen
<1>2. /\ bill'.status = "paid" /\ bill'.channel = channel /\ bill'.pid = i /\ bill'.refund = bill.refund
  BY <1>1 DEF Settled, Bill
<1>3. PICK v \in Task : Become(t, v) /\ v.pc = "close"
  <2> DEFINE w == [Idle EXCEPT !.pc = "close", !.i = task[t].i, !.saw.channel = channel,
                               !.saw.rounds = bill.rounds]
  <2>1. Become(t, w) /\ w.pc = "close"
    BY <1>1 DEF Closing, Task
  <2> HIDE DEF w
  <2>2. task'[t] = w
    BY <2>1 DEF Become, Inv, TypeOK
  <2> QED
    BY <1>1, <2>1, <2>2
<1>4. Room(v)' /\ Copied(v)'
  BY <1>3, RestsOK
<1>5. ASSUME NEW u \in Tasks, NEW w \in Task, u # t, w = task[u] PROVE Room(w)'
  <2>1. w.pc \notin {"copy", "clear"}
    BY <1>5 DEF Kept, Room, Alone
  <2> QED
    BY <1>2, <2>1 DEF Room
<1>6. SlotOnRecord'
  BY <1>1, <1>2 DEF Kept, SlotOnRecord
<1>7. PaymentIsAccounted'
  BY <1>1, <1>2 DEF Kept, PaymentIsAccounted
<1> QED
  BY <1>3, <1>4, <1>5, <1>6, <1>7, KeptOK

LEMMA SettleKeeps ==
    ASSUME Inv, Inv', Kept, NEW t \in Tasks, Settle(t) PROVE Kept'
<1>1. /\ At(t, "settle") /\ task \in [Tasks -> Task] /\ UNCHANGED <<strays, answered>>
  BY DEF Settle, moneyVars, Inv, TypeOK
<1>2. PICK i \in Intents : i = task[t].i
  BY <1>1 DEF Inv, Knows, At, PayPcs, MovePcs
<1>3. bill.status = "open" /\ bill.refund => bill.pid = i
  BY <1>1, <1>2 DEF Kept, Room, At
<1>4. CASE bill.status = "open" /\ bill.total = rzp[i].amount
  <2>1. bill' = Settled("online", i) /\ Closing(t, "online")
    BY <1>2, <1>4 DEF Settle
  <2> QED
    BY <1>1, <1>3, <1>4, <2>1, SettledKeeps
<1>5. CASE ~(bill.status = "open" /\ bill.total = rzp[i].amount)
  <2>1. PICK pc \in {"refuse", "stray"} : Goto(t, pc) /\ UNCHANGED bill
    BY <1>2, <1>5 DEF Settle
  <2>2. pc \in Pcs
    BY DEF Pcs
  <2>3. PICK v \in Task : Become(t, v) /\ v.pc = pc
    BY <1>1, <2>1, <2>2, GotoOK DEF Goto
  <2>4. task'[t].pc \notin {"copy", "clear", "settle"}
    BY <2>3, BecomeOK DEF Inv, TypeOK
  <2> QED
    BY <1>1, <2>1, <2>3, <2>4, SlotUnchanged, RestOK
<1> QED
  BY <1>4, <1>5

LEMMA PayAtCounterKeeps ==
    ASSUME Inv, Inv', Kept, NEW t \in Tasks, PayAtCounter(t) PROVE Kept'
<1>1. UNCHANGED <<strays, answered>> /\ bill.pid \in Intents \union {None}
  BY DEF PayAtCounter, moneyVars, Inv, TypeOK, Bill
<1>2. CASE bill.status = "open"
  <2>1. PICK pid \in Intents \union {None} : pid = bill.pid
    BY <1>1
  <2>2. bill' = Settled("counter", pid) /\ Closing(t, "counter")
    BY <1>2, <2>1 DEF PayAtCounter
  <2> QED
    BY <1>1, <1>2, <2>1, <2>2, SettledKeeps
<1>3. CASE bill.status # "open"
  <2>1. UNCHANGED bill /\ Become(t, Idle)
    BY <1>3 DEF PayAtCounter, Finish
  <2>2. task'[t].pc = "idle"
    BY <2>1, IdleOK, BecomeOK DEF Inv, TypeOK
  <2> QED
    BY <1>1, <2>1, <2>2, SlotUnchanged, RestOK
<1> QED
  BY <1>2, <1>3

\* Where a handler goes that refuses or records a payment.
LEMMA LeavesOK ==
    ASSUME Inv, NEW t \in Tasks, Finish(t) \/ Goto(t, "reopen") \/ Goto(t, "refused")
    PROVE  \E v \in Task : Become(t, v) /\ v.pc \in {"idle", "reopen", "refused"}
<1>1. CASE Finish(t)
  BY <1>1, IdleOK DEF Finish
<1>2. ASSUME NEW pc \in {"reopen", "refused"}, Goto(t, pc)
      PROVE  \E v \in Task : Become(t, v) /\ v.pc \in {"idle", "reopen", "refused"}
  <2> DEFINE v == [task[t] EXCEPT !.pc = pc]
  <2>1. v \in Task /\ v.pc = pc
    BY DEF Inv, TypeOK, Task, Pcs
  <2>2. Become(t, v)
    BY <1>2 DEF Goto
  <2> HIDE DEF v
  <2> QED
    BY <2>1, <2>2
<1> QED
  BY <1>1, <1>2

\* Flagging a payment on the bill finds no refund there, so the one it replaces is a stray.
LEMMA RefuseKeeps ==
    ASSUME Alone \/ OneIntent, Inv, Inv', Kept, NEW t \in Tasks, Refuse(t) PROVE Kept'
<1>1. At(t, "refuse") /\ bill \in Bill /\ UNCHANGED <<rzp, strays>>
  BY DEF Refuse, Inv, TypeOK
<1>2. PICK i \in Intents : i = task[t].i
  BY <1>1 DEF Inv, Knows, At, PayPcs
<1>3. PICK v \in Task : Become(t, v) /\ v.pc \in {"idle", "reopen", "refused"}
  BY LeavesOK DEF Refuse
<1>4. Room(v)' /\ Copied(v)'
  BY <1>3, RestsOK
<1>5. CASE rzp[i].state = "captured" /\ bill.status = "open" /\ ~bill.refund
  <2>1. bill' = [bill EXCEPT !.pid = i, !.refund = TRUE] /\ (Answer(i) \/ UNCHANGED answered)
    BY <1>2, <1>5 DEF Refuse
  <2>2. bill'.pid = i /\ bill'.refund /\ bill'.status = "open"
    BY <1>1, <1>5, <2>1 DEF Bill
  <2>3. SlotOnRecord'
    BY <2>2 DEF SlotOnRecord
  <2>4. PaymentIsAccounted'
    <3>1. bill.channel = "none"
      BY <1>5 DEF Inv, Frozen
    <3> QED
      BY <1>1, <1>5, <2>1, <2>2, <3>1 DEF Kept, PaymentIsAccounted, Answer
  <2>5. ASSUME NEW u \in Tasks, NEW w \in Task, u # t, w = task[u] PROVE Room(w)'
    <3>1. w.pc \notin {"copy", "clear"} /\ ~Alone
      BY <2>5 DEF Kept, Room, Alone
    <3>2. w.pc = "settle" => w.i \in Intents
      BY <2>5 DEF Inv, Knows, PayPcs, MovePcs
    <3>3. w.pc = "settle" => w.i = i
      BY <3>1, <3>2 DEF OneIntent
    <3> QED
      BY <2>2, <3>1, <3>3 DEF Room
  <2> QED
    BY <1>1, <1>3, <1>4, <2>3, <2>4, <2>5, KeptOK
<1>6. CASE ~(rzp[i].state = "captured" /\ bill.status = "open" /\ ~bill.refund)
  <2>1. SlotStays
    BY <1>2, <1>6, SlotUnchanged DEF Refuse
  <2>2. \/ UNCHANGED answered
        \/ Answer(i) /\ (rzp[i].state = "captured" => bill.pid = i)
    BY <1>2, <1>6 DEF Refuse
  <2>3. PaymentIsAccounted'
    <3>1. CASE UNCHANGED answered
      BY <1>1, <2>1, <3>1 DEF Kept, PaymentIsAccounted, SlotStays
    <3>2. CASE Answer(i) /\ (rzp[i].state = "captured" => bill.pid = i)
      BY <1>1, <2>1, <3>2, AnswerOK
    <3> QED
      BY <2>2, <3>1, <3>2
  <2> QED
    BY <1>1, <1>3, <1>4, <2>1, <2>3, SlotStaysOK
<1> QED
  BY <1>5, <1>6

LEMMA RecordStrayKeeps ==
    ASSUME Inv, Inv', Kept, NEW t \in Tasks, RecordStray(t) PROVE Kept'
<1>1. task[t].pc \in {"stray", "refused"} /\ UNCHANGED rzp /\ SlotStays
  BY SlotUnchanged DEF RecordStray
<1>2. PICK i \in Intents : i = task[t].i
  BY <1>1 DEF Inv, Knows, PayPcs
<1>3. /\ strays \subseteq strays' /\ Answer(i)
      /\ rzp[i].state = "captured" => bill.pid = i \/ i \in strays'
  BY <1>2 DEF RecordStray
<1>4. PICK v \in Task : Become(t, v) /\ v.pc \in {"idle", "reopen", "refused"}
  BY LeavesOK DEF RecordStray
<1>5. Room(v)' /\ Copied(v)'
  BY <1>4, RestsOK
<1>6. PaymentIsAccounted'
  BY <1>1, <1>3, AnswerOK
<1> QED
  BY <1>1, <1>3, <1>4, <1>5, <1>6, SlotStaysOK

LEMMA FlagVoidedKeeps ==
    ASSUME Inv, Inv', Kept, NEW t \in Tasks, FlagVoided(t) PROVE Kept'
<1>1. At(t, "void") /\ UNCHANGED <<bill, strays>> /\ Become(t, Idle) /\ SlotStays
  BY SlotUnchanged DEF FlagVoided, Finish
<1>2. task[t].saw.channel = "online" => bill.channel = "online" /\ bill.pid = task[t].i
  BY <1>1 DEF Inv, Knows, At
<1>3. PaymentIsAccounted'
  BY <1>1, <1>2 DEF FlagVoided, Kept, PaymentIsAccounted
<1>4. Room(Idle)' /\ Copied(Idle)'
  BY IdleOK, RestsOK
<1> QED
  BY <1>1, <1>3, <1>4, IdleOK, SlotStaysOK

LEMMA InitKept == Init => Kept
<1> SUFFICES ASSUME Init PROVE Kept
  OBVIOUS
<1>1. \A t \in Tasks : task[t] = Idle
  BY DEF Init
<1>2. Room(Idle) /\ Copied(Idle)
  BY IdleOK DEF Room, Copied
<1>3. SlotOnRecord /\ PaymentIsAccounted
  BY DEF Init, FirstBill, SlotOnRecord, PaymentIsAccounted
<1> QED
  BY <1>1, <1>2, <1>3 DEF Kept, Room, Copied

\* The kitchen and Razorpay have no part in it.
LEMMA OthersKeep ==
    ASSUME Kept, UNCHANGED <<bill, strays, answered, task>> PROVE Kept'
BY DEF Kept, SlotOnRecord, PaymentIsAccounted, Room, Copied

LEMMA StepKept ==
    ASSUME Alone \/ OneIntent, Inv, Inv', Kept, [Next]_vars PROVE Kept'
<1>1. CASE UNCHANGED vars
  BY <1>1, OthersKeep DEF vars, moneyVars
<1>2. ASSUME NEW r \in Rounds, Kitchen(r) PROVE Kept'
  BY <1>2, OthersKeep DEF Kitchen, Accept, Prepare, Serve, Advance, moneyVars
<1>3. ASSUME NEW i \in Intents, GuestPays(i) PROVE Kept'
  BY <1>3, OthersKeep DEF GuestPays
<1>4. ASSUME NEW t \in Tasks, Arrive(t) PROVE Kept'
  BY <1>4, RestStepsOK, StartSettleKeeps DEF Arrive
<1>5. ASSUME NEW t \in Tasks, OrderStep(t) \/ BillStep(t) \/ PayStep(t) PROVE Kept'
  BY <1>5, RestStepsOK
<1>6. ASSUME NEW t \in Tasks, SettleStep(t) PROVE Kept'
  BY <1>6, RestStepsOK, MoveReadKeeps, MoveCopyKeeps, MoveClearKeeps, SettleKeeps, RefuseKeeps,
     RecordStrayKeeps, FlagVoidedKeeps, PayAtCounterKeeps DEF SettleStep
<1> QED
  BY <1>1, <1>2, <1>3, <1>4, <1>5, <1>6 DEF Next

\* A captured payment that was answered for settled the bill or is recorded as owed back, as long
\* as one handler runs at a time, or the sitting has a single Razorpay order: with two of each, a
\* payment flagged on the bill after another's move and before its markPaid is overwritten.
THEOREM NoPaymentLost ==
    ASSUME Alone \/ OneIntent PROVE Spec => []PaymentIsAccounted
<1>1. Inv /\ Inv' /\ Kept /\ [Next]_vars => Kept'
  BY StepKept
<1>2. Kept => PaymentIsAccounted
  BY DEF Kept
<1> QED
  BY <1>1, <1>2, InitKept, Invariance, PTL DEF Spec
=============================================================================
