------------------------- MODULE OrderPaymentProofs -------------------------
(***************************************************************************)
(* Proofs about OrderPayment, for any number of payments, handlers,        *)
(* Razorpay refunds and faults.                                            *)
(*                                                                         *)
(* Inv is the inductive invariant: the types, what each handler knows by   *)
(* where it stands (TasksOK), that a refund not yet created is "none" at   *)
(* Razorpay (Unsent), and that a settled order names its payment.  What a  *)
(* handler knows of a Razorpay refund stays true because no step undoes a  *)
(* processed one.  UnderWay adds what a cancelled order's refund needs.    *)
(*                                                                         *)
(* Kept is the inductive invariant of where the money of an order is:      *)
(* OneRecordPerPayment, RefundOfOwnPayment, LiveOrderKeepsItsMoney and the *)
(* refinement of MoneyBook, for any payments, refunds, crashes and lost    *)
(* answers, while handlers do not both interleave and refuse payments      *)
(* (Apart: the runs RefundMixup and StrayTwice are what happens when they  *)
(* do).  Money relates the documents: a refund on the order is of the      *)
(* payment the order names, and is due or of a refused payment; a stray is *)
(* of a payment the order does not count; what Razorpay refunded is on     *)
(* record.  Knows says what a handler may rely on.  Handlers that          *)
(* interleave handle exact payments only, and of those they know what no   *)
(* step undoes (Persists); a handler that refuses payments is alone, and   *)
(* the order stays as it read it.  Once is the invariant behind SendsOnce, *)
(* while every payment is exact and no handler fails.                      *)
(***************************************************************************)
EXTENDS OrderPayment, TLAPS

\* Where a handler holds the id of a Razorpay refund.
SentPcs == {"saveId", "processed", "refunded", "failedEvent"}

\* What a handler with the registers v knows when it is at pc.
FitsAt(v, pc) ==
    /\ pc \in SettlePcs \union RunnerPcs => v.p \in Payments
    /\ v.src = "webhook" => v.p \in Payments
    /\ v.src = "refundWebhook" \/ pc \in SentPcs => v.rid \in RefundIds
    /\ \/ pc \in {"processed", "refunded"}
       \/ pc = "saveId" /\ v.held.status = "processed"
       => gwRefund[v.rid] = "processed"
    /\ pc = "count" => v.doc = OrderDoc
    /\ pc \in {"moveCopy", "moveClear"} => v.doc # OrderDoc

Fits(v) == FitsAt(v, v.pc)

\* Every handler knows what it should, and only real events have been answered.
TasksOK ==
    /\ task \in [Tasks -> Task]
    /\ \A t \in Tasks : Fits(task[t])
    /\ acked \subseteq Payments
    /\ ackedRefund \subseteq RefundIds

\* Refund ids are given out in order.
Unsent == \A p \in Payments, n \in 1..MaxRefunds : n > sent[p] => gwRefund[<<p, n>>] = "none"

SettledHasPayment == ~Unsettled => pid \in Payments

Inv == TypeOK /\ TasksOK /\ Unsent /\ SettledHasPayment /\ RefundedMeansReturned

-----------------------------------------------------------------------------

\* The documents: the order and its stray payments, which differ.
LEMMA DocTypes ==
    /\ OrderDoc \in Docs
    /\ \A d \in Docs : d # OrderDoc => d \in Strays /\ d[1] \in Kinds /\ d[2] \in Payments
    /\ \A k \in Kinds, p \in Payments : <<k, p>> \in Docs /\ <<k, p>> # OrderDoc
<1>1. OrderDoc \in Docs
  BY DEF Docs
<1>2. \A d \in Docs : d # OrderDoc => d \in Strays /\ d[1] \in Kinds /\ d[2] \in Payments
  BY DEF Docs, Strays
<1>3. \A k \in Kinds, p \in Payments : <<k, p>> \in Docs /\ <<k, p>> # OrderDoc
  BY DEF Docs, Strays, Kinds, OrderDoc
<1> QED
  BY <1>1, <1>2, <1>3

\* The initial values have their types.
LEMMA EmptyTypes == EmptyRefund \in Refund /\ Idle \in Task
<1>1. EmptyRefund \in Refund
  BY BoundsAssumption DEF EmptyRefund, Refund, RefundStatus, MaybePayment, MaybeRefund
<1> QED
  BY <1>1, DocTypes, BoundsAssumption DEF Idle, Task, Pcs, Sources, MaybePayment, MaybeRefund

\* An idle handler's registers.
LEMMA IdleFields ==
    /\ Idle.pc = "idle" /\ Idle.src = "none" /\ Idle.p = NoPayment
    /\ Idle.doc = OrderDoc /\ Idle.held = EmptyRefund /\ Idle.rid = NoRefund
BY DEF Idle

\* refundSchema's fields, updated singly or together, leave a refund.
LEMMA SetRefund ==
    ASSUME NEW r \in Refund
    PROVE  /\ \A a \in MaybePayment : [r EXCEPT !.amt = a] \in Refund
           /\ \A s \in RefundStatus : [r EXCEPT !.status = s] \in Refund
           /\ \A i \in MaybeRefund : [r EXCEPT !.id = i] \in Refund
           /\ \A s \in RefundStatus, a \in MaybePayment :
                 [r EXCEPT !.status = s, !.amt = a] \in Refund
           /\ \A s \in RefundStatus, i \in MaybeRefund :
                 [r EXCEPT !.status = s, !.id = i] \in Refund
           /\ \A s \in RefundStatus, i \in MaybeRefund, n \in 0..MaxRefunds :
                 [r EXCEPT !.status = s, !.id = i, !.since = n] \in Refund
BY Zenon DEF Refund


\* A handler moves on: what it is now fits, so do the others.
LEMMA StepOK ==
    ASSUME Inv, NEW t \in Tasks, NEW v \in Task, Fits(v),
           task' = [task EXCEPT ![t] = v], UNCHANGED <<gwRefund, acked, ackedRefund>>
    PROVE  TasksOK'
BY DEF Inv, TasksOK, Fits, FitsAt

\* An idle handler knows nothing and need know nothing.
LEMMA IdleFits == Fits(Idle)
BY IdleFields DEF Fits, FitsAt, SettlePcs, RunnerPcs, SentPcs

\* A handler that returns leaves every handler as it should be.
LEMMA FinishOK ==
    ASSUME Inv, NEW t \in Tasks, Finish(t), UNCHANGED gwRefund
    PROVE  TasksOK'
<1>1. task' \in [Tasks -> Task] /\ \A u \in Tasks : Fits(task[u])'
  BY EmptyTypes, IdleFits DEF Inv, TasksOK, Fits, FitsAt, Finish
<1>2. acked' \subseteq Payments /\ ackedRefund' \subseteq RefundIds
  BY DEF Inv, TasksOK, Fits, FitsAt, Finish, Ack
<1> QED
  BY <1>1, <1>2 DEF TasksOK

\* So does one that throws.
LEMMA DropOK ==
    ASSUME Inv, NEW t \in Tasks, Drop(t), UNCHANGED gwRefund
    PROVE  TasksOK'
BY EmptyTypes, IdleFits DEF Inv, TasksOK, Fits, FitsAt, Drop, ackVars

\* A handler may go on wherever its registers fit.
LEMMA GotoOK ==
    ASSUME Inv, NEW t \in Tasks, NEW pc \in Pcs, Goto(t, pc), FitsAt(task[t], pc),
           UNCHANGED <<gwRefund, acked, ackedRefund>>
    PROVE  TasksOK'
<1> DEFINE v == [task[t] EXCEPT !.pc = pc]
<1>1. /\ v \in Task /\ v.pc = pc /\ v.p = task[t].p /\ v.src = task[t].src
      /\ v.doc = task[t].doc /\ v.held = task[t].held /\ v.rid = task[t].rid
  BY Zenon DEF Inv, TasksOK, Task
<1>2. task' = [task EXCEPT ![t] = v]
  BY Zenon DEF Goto
<1> HIDE DEF v
<1> QED
  BY <1>1, <1>2, StepOK DEF Fits, FitsAt

\* The same for a handler that goes on or returns.
LEMMA GotoIfOK ==
    ASSUME Inv, NEW t \in Tasks, NEW pc \in Pcs, NEW cond, GotoIf(t, cond, pc),
           cond => FitsAt(task[t], pc), UNCHANGED gwRefund
    PROVE  TasksOK'
BY GotoOK, FinishOK DEF GotoIf, ackVars

\* A step that leaves the money alone preserves the invariant if it keeps the types.
LEMMA QuietOK ==
    ASSUME Inv, TasksOK', UNCHANGED <<status, forfeited, pay, pid, gw, sent, gwRefund>>,
           refund' \in [Docs -> Refund], faults' \in 0..MaxFaults
    PROVE  Inv'
BY DEF Inv, TypeOK, TasksOK, Unsent, SettledHasPayment, RefundedMeansReturned, Unsettled, Returned

-----------------------------------------------------------------------------
\* One lemma per handler step: it preserves the invariant.

\* verifyOrderPayment and settleOrderFromWebhook, up to their first await.
LEMMA StartSettleOK ==
    ASSUME Inv, NEW t \in Tasks, NEW p \in Payments, NEW src \in {"verify", "webhook"},
           StartSettle(t, p, src)
    PROVE  Inv'
<1> DEFINE v(pc) == [Idle EXCEPT !.pc = pc, !.src = src, !.p = p]
<1>1. \A pc \in Pcs : /\ v(pc) \in Task
                      /\ v(pc).pc = pc /\ v(pc).src = src /\ v(pc).p = p /\ v(pc).doc = OrderDoc
  BY EmptyTypes, IdleFields, Zenon DEF Task, Sources, MaybePayment
<1>2. task' = task \/ task' = [task EXCEPT ![t] = v("confirm")] \/ task' = [task EXCEPT ![t] = v("duplicate")]
  BY Zenon DEF StartSettle, Begin
<1> HIDE DEF v
<1>3. Fits(v("confirm")) /\ Fits(v("duplicate"))
  BY <1>1 DEF Fits, FitsAt, Pcs, SettlePcs, SentPcs
<1>4. v("confirm") \in Task /\ v("duplicate") \in Task
  BY <1>1 DEF Pcs, SettlePcs
<1>5. TasksOK'
  <2>1. CASE task' = task
    BY <2>1 DEF Inv, TasksOK, Fits, FitsAt, StartSettle, Begin, gwVars
  <2>2. CASE task' # task
    <3>1. acked' = acked
      BY <2>2 DEF StartSettle
    <3> QED
      BY <1>2, <1>3, <1>4, <2>2, <3>1, StepOK DEF StartSettle, gwVars
  <2> QED
    BY <2>1, <2>2
<1> QED
  BY <1>5, QuietOK DEF StartSettle, orderVars, gwVars, Inv, TypeOK

\* recordUncountedPayment: a second payment of a settled order.
LEMMA DuplicateOK ==
    ASSUME Inv, NEW t \in Tasks, Duplicate(t)
    PROVE  Inv'
<1> DEFINE d == <<"duplicate_payment", task[t].p>>
           v == [task[t] EXCEPT !.pc = "strayCheck", !.doc = d]
<1>1. task[t] \in Task /\ Fits(task[t]) /\ task[t].p \in Payments
  BY DEF Inv, TasksOK, Fits, FitsAt, Duplicate, At, SettlePcs
<1>2. d \in Docs /\ "strayCheck" \in Pcs
  BY <1>1, DocTypes DEF Kinds, Pcs, SettlePcs
<1>3. v \in Task /\ v.pc = "strayCheck" /\ v.p = task[t].p /\ v.src = task[t].src /\ v.rid = task[t].rid
  BY <1>1, <1>2, Zenon DEF Task
<1>4. (task' = [task EXCEPT ![t] = v] /\ UNCHANGED ackVars) \/ Finish(t)
  BY Zenon DEF Duplicate
<1> HIDE DEF v, d
<1>5. Fits(v)
  BY <1>1, <1>3 DEF Fits, FitsAt, SentPcs
<1>6. TasksOK'
  BY <1>3, <1>4, <1>5, StepOK, FinishOK DEF Duplicate, gwVars, ackVars
<1> QED
  BY <1>6, QuietOK DEF Duplicate, orderVars, gwVars, Inv, TypeOK

\* rejectOrderPayment's first read.
LEMMA AlreadyFlaggedOK ==
    ASSUME Inv, NEW t \in Tasks, AlreadyFlagged(t)
    PROVE  Inv'
<1>1. FitsAt(task[t], "flag") /\ "flag" \in Pcs
  BY DEF Inv, TasksOK, Fits, FitsAt, AlreadyFlagged, At, Pcs, SettlePcs, SentPcs
<1>2. TasksOK'
  BY <1>1, GotoIfOK DEF AlreadyFlagged, gwVars
<1> QED
  BY <1>2, QuietOK DEF AlreadyFlagged, orderVars, gwVars, Inv, TypeOK

\* recordStrayPayment's read of the strays.
LEMMA StrayCheckOK ==
    ASSUME Inv, NEW t \in Tasks, StrayCheck(t)
    PROVE  Inv'
<1>1. FitsAt(task[t], "orderCheck") /\ "orderCheck" \in Pcs
  BY DEF Inv, TasksOK, Fits, FitsAt, StrayCheck, At, Pcs, SettlePcs, SentPcs
<1>2. TasksOK'
  BY <1>1, GotoIfOK DEF StrayCheck, gwVars
<1> QED
  BY <1>2, QuietOK DEF StrayCheck, orderVars, gwVars, Inv, TypeOK

\* recordStrayPayment's read of the order.
LEMMA OrderCheckOK ==
    ASSUME Inv, NEW t \in Tasks, OrderCheck(t)
    PROVE  Inv'
<1>1. FitsAt(task[t], "strayInsert") /\ "strayInsert" \in Pcs
  BY DEF Inv, TasksOK, Fits, FitsAt, OrderCheck, At, Pcs, SettlePcs, SentPcs
<1>2. TasksOK'
  BY <1>1, GotoIfOK DEF OrderCheck, gwVars
<1> QED
  BY <1>2, QuietOK DEF OrderCheck, orderVars, gwVars, Inv, TypeOK

\* recordStrayPayment's upsert.
LEMMA StrayInsertOK ==
    ASSUME Inv, NEW t \in Tasks, StrayInsert(t)
    PROVE  Inv'
<1> DEFINE r == [EmptyRefund EXCEPT !.status = "pending", !.amt = task[t].p]
<1>1. task[t].p \in MaybePayment
  BY DEF Inv, TasksOK, Fits, FitsAt, StrayInsert, At, SettlePcs, MaybePayment
<1>2. r \in Refund
  BY <1>1, EmptyTypes, Zenon DEF Refund, RefundStatus
<1>3. refund' = refund \/ refund' = [refund EXCEPT ![task[t].doc] = r]
  BY Zenon DEF StrayInsert
<1> HIDE DEF r
<1>4. refund' \in [Docs -> Refund]
  BY <1>2, <1>3 DEF Inv, TypeOK
<1>5. TasksOK'
  BY FinishOK DEF StrayInsert, gwVars
<1> QED
  BY <1>4, <1>5, QuietOK DEF StrayInsert, orderVars, gwVars, Inv, TypeOK

\* moveRefundToStray's read.
LEMMA MoveReadOK ==
    ASSUME Inv, NEW t \in Tasks, MoveRead(t)
    PROVE  Inv'
<1> DEFINE d == <<"refused_payment", pid>>
           m == task[t].moves + 1
           copies == [task[t] EXCEPT !.pc = "moveCopy", !.doc = d, !.held = refund[OrderDoc], !.moves = m]
           goesOn == [task[t] EXCEPT !.pc = "count", !.doc = OrderDoc, !.held = EmptyRefund, !.moves = 0]
<1>1. task[t] \in Task /\ Fits(task[t]) /\ task[t].p \in Payments
  BY DEF Inv, TasksOK, Fits, FitsAt, MoveRead, At, SettlePcs
<1>2. /\ goesOn \in Task /\ goesOn.pc = "count" /\ goesOn.p = task[t].p /\ goesOn.src = task[t].src
      /\ goesOn.doc = OrderDoc /\ goesOn.rid = task[t].rid
  <2>1. OrderDoc \in Docs /\ EmptyRefund \in Refund /\ 0 \in 0..MaxMoves /\ "count" \in Pcs
    BY DocTypes, EmptyTypes, BoundsAssumption DEF Pcs, SettlePcs
  <2> QED
    BY <1>1, <2>1, Zenon DEF Task
<1>3. CASE task' = [task EXCEPT ![t] = copies] /\ pid # NoPayment /\ task[t].moves < MaxMoves
  <2>1. d \in Docs /\ d # OrderDoc /\ refund[OrderDoc] \in Refund /\ m \in 0..MaxMoves /\ "moveCopy" \in Pcs
    BY <1>1, <1>3, DocTypes, BoundsAssumption DEF Inv, TypeOK, MaybePayment, Kinds, Task, Pcs, SettlePcs
  <2> HIDE DEF d, m
  <2>2. /\ copies \in Task /\ copies.pc = "moveCopy" /\ copies.p = task[t].p /\ copies.src = task[t].src
        /\ copies.doc = d /\ copies.rid = task[t].rid
    BY <1>1, <2>1, Zenon DEF Task
  <2>3. task' = [task EXCEPT ![t] = copies]
    BY <1>3
  <2> HIDE DEF copies
  <2>4. Fits(copies)
    BY <1>1, <2>1, <2>2 DEF Fits, FitsAt, SentPcs
  <2> QED
    BY <2>2, <2>3, <2>4, StepOK, QuietOK DEF MoveRead, orderVars, gwVars, ackVars, Inv, TypeOK
<1>4. CASE task' = [task EXCEPT ![t] = goesOn]
  <2> HIDE DEF goesOn
  <2>1. Fits(goesOn)
    BY <1>1, <1>2 DEF Fits, FitsAt, SentPcs
  <2> QED
    BY <1>2, <1>4, <2>1, StepOK, QuietOK DEF MoveRead, orderVars, gwVars, ackVars, Inv, TypeOK
<1> QED
  BY <1>3, <1>4, Zenon DEF MoveRead

\* moveRefundToStray's copy.
LEMMA MoveCopyOK ==
    ASSUME Inv, NEW t \in Tasks, MoveCopy(t)
    PROVE  Inv'
<1>1. FitsAt(task[t], "moveClear") /\ "moveClear" \in Pcs
  BY DEF Inv, TasksOK, Fits, FitsAt, MoveCopy, At, Pcs, SettlePcs, SentPcs
<1>2. TasksOK'
  BY <1>1, GotoOK DEF MoveCopy, gwVars, ackVars
<1>3. refund' \in [Docs -> Refund]
  BY DEF MoveCopy, Inv, TypeOK, TasksOK, Task
<1> QED
  BY <1>2, <1>3, QuietOK DEF MoveCopy, orderVars, gwVars, Inv, TypeOK

\* moveRefundToStray's clear.
LEMMA MoveClearOK ==
    ASSUME Inv, NEW t \in Tasks, MoveClear(t)
    PROVE  Inv'
<1> DEFINE v == [task[t] EXCEPT !.pc = "count", !.doc = OrderDoc, !.held = EmptyRefund, !.moves = 0]
<1>1. task[t] \in Task /\ Fits(task[t]) /\ task[t].p \in Payments
  BY DEF Inv, TasksOK, Fits, FitsAt, MoveClear, At, SettlePcs
<1>2. /\ v \in Task /\ v.pc = "count" /\ v.p = task[t].p /\ v.src = task[t].src
      /\ v.doc = OrderDoc /\ v.rid = task[t].rid
  <2>1. OrderDoc \in Docs /\ EmptyRefund \in Refund /\ 0 \in 0..MaxMoves /\ "count" \in Pcs
    BY DocTypes, EmptyTypes, BoundsAssumption DEF Pcs, SettlePcs
  <2> QED
    BY <1>1, <2>1, Zenon DEF Task
<1>3. task' = [task EXCEPT ![t] = v] \/ Goto(t, "moveRead")
  BY Zenon DEF MoveClear
<1> HIDE DEF v
<1>4. Fits(v)
  BY <1>1, <1>2 DEF Fits, FitsAt, SentPcs
<1>5. FitsAt(task[t], "moveRead") /\ "moveRead" \in Pcs
  BY <1>1 DEF Fits, FitsAt, MoveClear, At, Pcs, SettlePcs, SentPcs
<1>6. TasksOK'
  BY <1>2, <1>3, <1>4, <1>5, StepOK, GotoOK DEF MoveClear, gwVars, ackVars
<1>7. refund' \in [Docs -> Refund]
  <2>1. refund' = refund \/ refund' = [refund EXCEPT ![OrderDoc] = EmptyRefund]
    BY Zenon DEF MoveClear
  <2> QED
    BY <2>1, EmptyTypes DEF Inv, TypeOK
<1> QED
  BY <1>6, <1>7, QuietOK DEF MoveClear, orderVars, gwVars, Inv, TypeOK

\* confirmCapturedPayment.
LEMMA ConfirmOK ==
    ASSUME Inv, NEW t \in Tasks, Confirm(t)
    PROVE  Inv'
<1> DEFINE a == IF gw[task[t].p] = "captured" THEN task[t].p ELSE NoPayment
           h == [task[t].held EXCEPT !.amt = a]
           v == [task[t] EXCEPT !.pc = "alreadyFlagged", !.held = h]
<1>1. task[t] \in Task /\ Fits(task[t]) /\ task[t].p \in Payments /\ task[t].held \in Refund
  BY DEF Inv, TasksOK, Fits, FitsAt, Confirm, At, SettlePcs, Task
<1>2. a \in MaybePayment
  BY <1>1 DEF MaybePayment
<1> HIDE DEF a
<1>3. h \in Refund
  BY <1>1, <1>2, SetRefund
<1>4. task' = [task EXCEPT ![t] = v] \/ Goto(t, "moveRead")
  <2>1. task[t].p \in Exact => Goto(t, "moveRead")
    BY DEF Confirm
  <2>2. task[t].p \notin Exact => task' = [task EXCEPT ![t] = v]
    BY DEF Confirm, a
  <2> QED
    BY <2>1, <2>2
<1> HIDE DEF h
<1>5. /\ v \in Task /\ v.pc = "alreadyFlagged" /\ v.p = task[t].p /\ v.src = task[t].src
      /\ v.doc = task[t].doc /\ v.rid = task[t].rid
  <2>1. "alreadyFlagged" \in Pcs
    BY DEF Pcs, SettlePcs
  <2> QED
    BY <1>1, <1>3, <2>1, Zenon DEF Task
<1> HIDE DEF v
<1>6. Fits(v)
  BY <1>1, <1>5 DEF Fits, FitsAt, SentPcs
<1>7. FitsAt(task[t], "moveRead") /\ "moveRead" \in Pcs
  BY <1>1 DEF Fits, FitsAt, Confirm, At, Pcs, SettlePcs, SentPcs
<1>8. TasksOK'
  BY <1>4, <1>5, <1>6, <1>7, StepOK, GotoOK DEF Confirm, ackVars
<1>9. gw' \in [Payments -> {"none", "authorized", "captured"}]
  BY <1>1 DEF Confirm, Inv, TypeOK
<1> QED
  BY <1>8, <1>9
  DEF Confirm, orderVars, ackVars, Inv, TypeOK, TasksOK, Unsent, SettledHasPayment,
      RefundedMeansReturned, Unsettled, Returned

\* A step that changes what the order counts, and nothing at the gateway.
LEMMA CountingOK ==
    ASSUME Inv, TasksOK', UNCHANGED <<status, forfeited, gw, sent, gwRefund, faults>>,
           refund' \in [Docs -> Refund],
           \/ (pay' = pay /\ pid' = pid)
           \/ (pay' \in {"pending", "failed"} /\ pid' \in MaybePayment)
           \/ (pay' = "paid" /\ pid' \in Payments)
    PROVE  Inv'
<1>1. TypeOK'
  BY DEF Inv, TypeOK, TasksOK, MaybePayment, UNCOUNTABLE
<1>2. Unsent' /\ SettledHasPayment' /\ RefundedMeansReturned'
  BY DEF Inv, Unsent, SettledHasPayment, RefundedMeansReturned, Unsettled, Returned, UNCOUNTABLE
<1> QED
  BY <1>1, <1>2 DEF Inv

\* rejectOrderPayment's flag on the order.
LEMMA FlagOK ==
    ASSUME Inv, NEW t \in Tasks, Flag(t)
    PROVE  Inv'
<1> DEFINE r == [refund[OrderDoc] EXCEPT !.status = "pending", !.amt = task[t].p]
<1>1. FitsAt(task[t], "failOrder") /\ "failOrder" \in Pcs /\ task[t].p \in Payments
  BY DEF Inv, TasksOK, Fits, FitsAt, Flag, At, Pcs, SettlePcs, SentPcs
<1>2. r \in Refund
  BY <1>1, DocTypes, SetRefund DEF Inv, TypeOK, RefundStatus, MaybePayment
<1>3. TasksOK'
  BY <1>1, FinishOK, GotoOK DEF Flag, gwVars, ackVars
<1>4. refund' \in [Docs -> Refund]
  <2>1. refund' = refund \/ refund' = [refund EXCEPT ![OrderDoc] = r]
    BY Zenon DEF Flag
  <2> HIDE DEF r
  <2> QED
    BY <1>2, <2>1 DEF Inv, TypeOK
<1>5. (pay' = pay /\ pid' = pid) \/ (pay' = "failed" /\ pid' \in MaybePayment)
  BY <1>1 DEF Flag, Inv, TypeOK, MaybePayment
<1> QED
  BY <1>3, <1>4, <1>5, CountingOK DEF Flag, gwVars

\* rejectOrderPayment when the order cannot be flagged.
LEMMA FailOrderOK ==
    ASSUME Inv, NEW t \in Tasks, FailOrder(t)
    PROVE  Inv'
<1> DEFINE d == <<"refused_payment", task[t].p>>
           v == [task[t] EXCEPT !.pc = "strayCheck", !.doc = d, !.held = EmptyRefund]
<1>1. task[t] \in Task /\ Fits(task[t]) /\ task[t].p \in Payments
  BY DEF Inv, TasksOK, Fits, FitsAt, FailOrder, At, SettlePcs
<1>2. d \in Docs /\ "strayCheck" \in Pcs
  BY <1>1, DocTypes DEF Kinds, Pcs, SettlePcs
<1>3. v \in Task /\ v.pc = "strayCheck" /\ v.p = task[t].p /\ v.src = task[t].src /\ v.rid = task[t].rid
  BY <1>1, <1>2, EmptyTypes, Zenon DEF Task
<1>4. task' = [task EXCEPT ![t] = v]
  BY Zenon DEF FailOrder
<1> HIDE DEF v, d
<1>5. Fits(v)
  BY <1>1, <1>3 DEF Fits, FitsAt, SentPcs
<1>6. TasksOK'
  BY <1>3, <1>4, <1>5, StepOK DEF FailOrder, gwVars, ackVars
<1> QED
  BY <1>6, CountingOK DEF FailOrder, gwVars, Inv, TypeOK

\* recordCapturedPayment: the one write that makes an order paid.
LEMMA CountOK ==
    ASSUME Inv, NEW t \in Tasks, Count(t)
    PROVE  Inv'
<1> DEFINE d == <<"duplicate_payment", task[t].p>>
           v == [task[t] EXCEPT !.pc = "strayCheck", !.doc = d]
<1>1. task[t] \in Task /\ Fits(task[t]) /\ task[t].p \in Payments
  BY DEF Inv, TasksOK, Fits, FitsAt, Count, At, SettlePcs
<1>2. d \in Docs /\ "strayCheck" \in Pcs
  BY <1>1, DocTypes DEF Kinds, Pcs, SettlePcs
<1>3. v \in Task /\ v.pc = "strayCheck" /\ v.p = task[t].p /\ v.src = task[t].src /\ v.rid = task[t].rid
  BY <1>1, <1>2, Zenon DEF Task
<1>4. FitsAt(task[t], "settings") /\ "settings" \in Pcs
  BY <1>1 DEF Fits, FitsAt, Count, At, Pcs, SettlePcs, RunnerPcs, RefundPcs, SentPcs
<1>5. CASE Unsettled
  <2>1. TasksOK'
    BY <1>4, <1>5, GotoIfOK DEF Count, gwVars
  <2> QED
    BY <1>1, <1>5, <2>1, CountingOK DEF Count, gwVars, Inv, TypeOK
<1>6. CASE ~Unsettled
  <2>1. (task' = [task EXCEPT ![t] = v] /\ UNCHANGED ackVars) \/ Finish(t)
    BY <1>6, Zenon DEF Count
  <2> HIDE DEF v, d
  <2>2. Fits(v)
    BY <1>1, <1>3 DEF Fits, FitsAt, SentPcs
  <2>3. TasksOK'
    BY <1>3, <2>1, <2>2, StepOK, FinishOK DEF Count, gwVars, ackVars
  <2> QED
    BY <1>6, <2>3, CountingOK DEF Count, gwVars, Inv, TypeOK
<1> QED
  BY <1>5, <1>6

\* initiateFullRefund's read of the settings.
LEMMA SettingsOK ==
    ASSUME Inv, NEW t \in Tasks, Settings(t)
    PROVE  Inv'
<1>1. FitsAt(task[t], "claim") /\ "claim" \in Pcs
  BY DEF Inv, TasksOK, Fits, FitsAt, Settings, At, Pcs, SettlePcs, RunnerPcs, RefundPcs, SentPcs
<1>2. TasksOK'
  BY <1>1, GotoOK DEF Settings, gwVars, ackVars
<1> QED
  BY <1>2, QuietOK DEF Settings, orderVars, gwVars, Inv, TypeOK

\* runRefund's claim.
LEMMA ClaimOK ==
    ASSUME Inv, NEW t \in Tasks, Claim(t)
    PROVE  Inv'
<1> DEFINE d == task[t].doc
           p == PaymentOf(d)
           a == IF refund[d].amt # NoPayment THEN refund[d].amt ELSE p
           h == [task[t].held EXCEPT !.amt = a]
           v == [task[t] EXCEPT !.pc = "amount", !.p = p, !.held = h]
           r == [refund[d] EXCEPT !.status = "processing", !.id = NoRefund, !.since = sent[p]]
<1>1. task[t] \in Task /\ Fits(task[t]) /\ task[t].pc = "claim" /\ d \in Docs /\ task[t].held \in Refund
      /\ refund[d] \in Refund
  BY DEF Inv, TasksOK, TypeOK, Claim, At, Task
<1>2. CASE Claimable(d)
  <2>1. p \in Payments
    <3>1. p # NoPayment
      BY <1>2 DEF Claimable
    <3>2. d = OrderDoc => p \in MaybePayment
      BY DEF PaymentOf, Inv, TypeOK
    <3>3. d # OrderDoc => p \in Payments
      BY <1>1, DocTypes DEF PaymentOf
    <3> QED
      BY <3>1, <3>2, <3>3 DEF MaybePayment
  <2>2. a \in MaybePayment
    BY <1>1, <2>1 DEF Refund, MaybePayment
  <2>3. sent[p] \in 0..MaxRefunds
    BY <2>1 DEF Inv, TypeOK
  <2>4. task' = [task EXCEPT ![t] = v] /\ refund' = [refund EXCEPT ![d] = r] /\ UNCHANGED ackVars
    BY <1>2, Zenon DEF Claim
  <2> HIDE DEF a, p
  <2>5. h \in Refund
    BY <1>1, <2>2, SetRefund
  <2> HIDE DEF h
  <2>6. v \in Task /\ v.pc = "amount" /\ v.p = p /\ v.src = task[t].src /\ v.rid = task[t].rid
    <3>1. p \in MaybePayment /\ "amount" \in Pcs
      BY <2>1 DEF MaybePayment, Pcs, RefundPcs, RunnerPcs
    <3> QED
      BY <1>1, <2>5, <3>1, Zenon DEF Task
  <2>7. r \in Refund
    BY <1>1, <2>3, SetRefund DEF RefundStatus, MaybeRefund
  <2> HIDE DEF v, r
  <2>8. Fits(v)
    BY <1>1, <2>1, <2>6 DEF Fits, FitsAt, SentPcs
  <2>9. TasksOK'
    BY <2>4, <2>6, <2>8, StepOK DEF Claim, gwVars, ackVars
  <2>10. refund' \in [Docs -> Refund]
    BY <2>4, <2>7 DEF Inv, TypeOK
  <2> QED
    BY <2>9, <2>10, QuietOK DEF Claim, orderVars, gwVars, Inv, TypeOK
<1>3. CASE ~Claimable(d)
  BY <1>3, FinishOK, QuietOK DEF Claim, orderVars, gwVars, Inv, TypeOK
<1> QED
  BY <1>2, <1>3

\* runRefund's write of the amount.
LEMMA AmountOK ==
    ASSUME Inv, NEW t \in Tasks, Amount(t)
    PROVE  Inv'
<1> DEFINE d == task[t].doc
           r == [refund[d] EXCEPT !.amt = task[t].held.amt]
<1>1. refund[d] \in Refund /\ task[t].held.amt \in MaybePayment
  BY DEF Inv, TasksOK, TypeOK, Task, Refund
<1>2. r \in Refund
  BY <1>1, SetRefund
<1>3. refund' = [refund EXCEPT ![d] = r]
  BY Zenon DEF Amount
<1>4. FitsAt(task[t], "send") /\ "send" \in Pcs
  BY DEF Inv, TasksOK, Fits, FitsAt, Amount, At, Pcs, SettlePcs, RunnerPcs, RefundPcs, SentPcs
<1>5. TasksOK'
  BY <1>4, GotoOK DEF Amount, gwVars, ackVars
<1> HIDE DEF r
<1> QED
  BY <1>2, <1>3, <1>5, QuietOK DEF Amount, orderVars, gwVars, Inv, TypeOK

\* runRefund's write of the refund id: a handler told 'processed' goes on to record it.
LEMMA SaveIdOK ==
    ASSUME Inv, NEW t \in Tasks, SaveId(t)
    PROVE  Inv'
<1> DEFINE d == task[t].doc
           r == [refund[d] EXCEPT !.id = task[t].rid]
<1>1. refund[d] \in Refund /\ task[t].rid \in MaybeRefund
  BY DEF Inv, TasksOK, TypeOK, Task
<1>2. r \in Refund
  BY <1>1, SetRefund
<1>3. refund' = [refund EXCEPT ![d] = r]
  BY Zenon DEF SaveId
<1>4. "processed" \in Pcs /\ (task[t].held.status = "processed" => FitsAt(task[t], "processed"))
  BY DEF Inv, TasksOK, Fits, FitsAt, SaveId, At, Pcs, SettlePcs, RunnerPcs, RefundPcs, SentPcs
<1>5. TasksOK'
  BY <1>4, GotoIfOK DEF SaveId, gwVars
<1> HIDE DEF r
<1> QED
  BY <1>2, <1>3, <1>5, QuietOK DEF SaveId, orderVars, gwVars, Inv, TypeOK

\* markRefundFailed.
LEMMA SendFailedOK ==
    ASSUME Inv, NEW t \in Tasks, SendFailed(t)
    PROVE  Inv'
<1> DEFINE d == task[t].doc
           r == [refund[d] EXCEPT !.status = "failed"]
<1>1. refund[d] \in Refund
  BY DEF Inv, TasksOK, TypeOK, Task
<1>2. r \in Refund
  BY <1>1, SetRefund DEF RefundStatus
<1>3. refund' = refund \/ refund' = [refund EXCEPT ![d] = r]
  BY Zenon DEF SendFailed
<1> HIDE DEF r
<1>4. TasksOK'
  BY FinishOK DEF SendFailed, gwVars
<1> QED
  BY <1>2, <1>3, <1>4, QuietOK DEF SendFailed, orderVars, gwVars, Inv, TypeOK

\* markRefundProcessed's first write.
LEMMA ProcessedOK ==
    ASSUME Inv, NEW t \in Tasks, Processed(t)
    PROVE  Inv'
<1> DEFINE d == task[t].doc
           r == [refund[d] EXCEPT !.status = "processed", !.id = task[t].rid]
<1>1. refund[d] \in Refund /\ task[t].rid \in MaybeRefund
  BY DEF Inv, TasksOK, TypeOK, Task
<1>2. r \in Refund
  BY <1>1, SetRefund DEF RefundStatus
<1>3. refund' = refund \/ refund' = [refund EXCEPT ![d] = r]
  BY Zenon DEF Processed
<1>4. "refunded" \in Pcs /\ FitsAt(task[t], "refunded")
  BY DEF Inv, TasksOK, Fits, FitsAt, Processed, At, Pcs, SettlePcs, RunnerPcs, RefundPcs, SentPcs
<1>5. TasksOK'
  BY <1>4, GotoIfOK DEF Processed, gwVars
<1> HIDE DEF r
<1> QED
  BY <1>2, <1>3, <1>5, QuietOK DEF Processed, orderVars, gwVars, Inv, TypeOK

\* A refund.failed event.
LEMMA FailedEventOK ==
    ASSUME Inv, NEW t \in Tasks, FailedEvent(t)
    PROVE  Inv'
<1> DEFINE d == task[t].doc
           r == [refund[d] EXCEPT !.status = "failed", !.id = task[t].rid]
<1>1. refund[d] \in Refund /\ task[t].rid \in MaybeRefund
  BY DEF Inv, TasksOK, TypeOK, Task
<1>2. r \in Refund
  BY <1>1, SetRefund DEF RefundStatus
<1>3. refund' = refund \/ refund' = [refund EXCEPT ![d] = r]
  BY Zenon DEF FailedEvent
<1> HIDE DEF r
<1>4. TasksOK'
  BY FinishOK DEF FailedEvent, gwVars
<1> QED
  BY <1>2, <1>3, <1>4, QuietOK DEF FailedEvent, orderVars, gwVars, Inv, TypeOK

\* markRefundProcessed's second write: the handler knows the refund it holds was processed,
\* and only marks the order whose payment that refund is of.
LEMMA RefundedOK ==
    ASSUME Inv, NEW t \in Tasks, Refunded(t)
    PROVE  Inv'
<1>1. TasksOK'
  BY FinishOK DEF Refunded, gwVars
<1>2. CASE pay' = pay
  BY <1>1, <1>2, CountingOK DEF Refunded, gwVars, Inv, TypeOK
<1>3. CASE pay' # pay
  <2>1. pay = "paid" /\ pay' = "refunded" /\ pid = task[t].rid[1]
    BY <1>3 DEF Refunded
  <2>2. task[t].rid \in RefundIds /\ gwRefund[task[t].rid] = "processed"
    BY DEF Inv, TasksOK, Fits, FitsAt, Refunded, At, SentPcs
  <2>3. \E n \in 1..MaxRefunds : task[t].rid = <<pid, n>>
    BY <2>1, <2>2 DEF RefundIds
  <2>4. Returned(pid)
    BY <2>2, <2>3 DEF Returned
  <2>5. RefundedMeansReturned'
    BY <2>4 DEF RefundedMeansReturned, Returned, Refunded, gwVars
  <2>6. TypeOK'
    BY <1>1, <2>1 DEF Inv, TypeOK, TasksOK, Refunded, gwVars, UNCOUNTABLE
  <2> QED
    BY <1>1, <2>1, <2>5, <2>6 DEF Inv, Unsent, SettledHasPayment, Refunded, gwVars, Unsettled, UNCOUNTABLE
<1> QED
  BY <1>2, <1>3

\* A new refund takes an unused slot: what was processed stays processed.
LEMMA CreateOK ==
    ASSUME Inv, NEW p \in Payments, NEW s \in {"pending", "processed"},
           CanRefund(p), CreateRefund(p, s)
    PROVE  /\ <<p, sent[p] + 1>> \in RefundIds /\ gwRefund'[<<p, sent[p] + 1>>] = s
           /\ sent' \in [Payments -> 0..MaxRefunds]
           /\ gwRefund' \in [RefundIds -> {"none", "pending", "processed", "failed"}]
           /\ Unsent'
           /\ \A r \in RefundIds : gwRefund[r] = "processed" => gwRefund'[r] = "processed"
<1> DEFINE n == sent[p] + 1
<1>1. sent[p] \in 0..MaxRefunds /\ n \in 1..MaxRefunds
  BY BoundsAssumption DEF Inv, TypeOK, CanRefund
<1>2. <<p, n>> \in RefundIds
  BY <1>1 DEF RefundIds
<1>3. gwRefund[<<p, n>>] = "none"
  BY <1>1, BoundsAssumption DEF Inv, Unsent
<1>4. sent' = [sent EXCEPT ![p] = n] /\ gwRefund' = [gwRefund EXCEPT ![<<p, n>>] = s]
  BY DEF CreateRefund
<1>5. sent' \in [Payments -> 0..MaxRefunds]
  BY <1>1, <1>4 DEF Inv, TypeOK
<1>6. gwRefund' \in [RefundIds -> {"none", "pending", "processed", "failed"}]
  BY <1>2, <1>4 DEF Inv, TypeOK
<1>7. \A r \in RefundIds : r # <<p, n>> => gwRefund'[r] = gwRefund[r]
  BY <1>4 DEF Inv, TypeOK
<1>8. gwRefund'[<<p, n>>] = s
  BY <1>2, <1>4 DEF Inv, TypeOK
<1>9. Unsent'
  <2> SUFFICES ASSUME NEW q \in Payments, NEW m \in 1..MaxRefunds, m > sent'[q]
               PROVE  gwRefund'[<<q, m>>] = "none"
    BY DEF Unsent
  <2>1. m > sent[q] /\ <<q, m>> # <<p, n>>
    BY <1>1, <1>4, BoundsAssumption DEF Inv, TypeOK
  <2>2. gwRefund[<<q, m>>] = "none" /\ <<q, m>> \in RefundIds
    BY <2>1 DEF Inv, Unsent, RefundIds
  <2> QED
    BY <1>7, <2>1, <2>2
<1>10. \A r \in RefundIds : gwRefund[r] = "processed" => gwRefund'[r] = "processed"
  BY <1>3, <1>7
<1> QED
  BY <1>2, <1>5, <1>6, <1>8, <1>9, <1>10

\* A step at the gateway preserves the invariant if it keeps what was processed.
LEMMA GatewayOK ==
    ASSUME Inv, TasksOK', UNCHANGED <<status, forfeited, pay, pid, refund>>,
           gw' \in [Payments -> {"none", "authorized", "captured"}], faults' \in 0..MaxFaults,
           sent' \in [Payments -> 0..MaxRefunds],
           gwRefund' \in [RefundIds -> {"none", "pending", "processed", "failed"}],
           Unsent',
           \A r \in RefundIds : gwRefund[r] = "processed" => gwRefund'[r] = "processed"
    PROVE  Inv'
<1>1. TypeOK'
  BY DEF Inv, TypeOK, TasksOK
<1>2. SettledHasPayment'
  BY DEF Inv, SettledHasPayment, Unsettled
<1>3. RefundedMeansReturned'
  BY DEF Inv, RefundedMeansReturned, Returned, SettledHasPayment, Unsettled, UNCOUNTABLE, RefundIds
<1> QED
  BY <1>1, <1>2, <1>3 DEF Inv

\* Handlers keep what they know when nothing processed is undone; the one that moves has its
\* call's answer.
LEMMA AnswerOK ==
    ASSUME Inv, NEW t \in Tasks, NEW v \in Task, task' = [task EXCEPT ![t] = v], UNCHANGED ackVars,
           v.pc \in {"saveId", "sendFailed"}, v.p \in Payments,
           v.src = "refundWebhook" \/ v.pc = "saveId" => v.rid \in RefundIds,
           v.pc = "saveId" /\ v.held.status = "processed" => gwRefund'[v.rid] = "processed",
           \A r \in RefundIds : gwRefund[r] = "processed" => gwRefund'[r] = "processed"
    PROVE  TasksOK'
<1>1. task' \in [Tasks -> Task]
  BY DEF Inv, TasksOK
<1>2. ASSUME NEW u \in Tasks PROVE Fits(task[u])'
  <2>1. CASE u = t
    <3>1. task'[u] = v
      BY <2>1 DEF Inv, TasksOK
    <3> QED
      BY <3>1 DEF Fits, FitsAt, SentPcs
  <2>2. CASE u # t
    <3>1. task'[u] = task[u]
      BY <2>2 DEF Inv, TasksOK
    <3> QED
      BY <3>1 DEF Inv, TasksOK, Fits, FitsAt, SentPcs
  <2> QED
    BY <2>1, <2>2
<1> QED
  BY <1>1, <1>2 DEF Inv, TasksOK, ackVars

\* The refund call throws, whatever Razorpay did.
LEMMA LostAnswerOK ==
    ASSUME Inv, NEW t \in Tasks, At(t, "send"), Goto(t, "sendFailed"), UNCHANGED ackVars,
           \A r \in RefundIds : gwRefund[r] = "processed" => gwRefund'[r] = "processed"
    PROVE  TasksOK'
<1> DEFINE v == [task[t] EXCEPT !.pc = "sendFailed"]
<1>1. task[t] \in Task /\ Fits(task[t]) /\ task[t].p \in Payments /\ "sendFailed" \in Pcs
  BY DEF Inv, TasksOK, Fits, FitsAt, At, Pcs, RefundPcs, RunnerPcs
<1>2. v \in Task /\ v.pc = "sendFailed" /\ v.p = task[t].p /\ v.src = task[t].src /\ v.rid = task[t].rid
  BY <1>1, Zenon DEF Task
<1>3. task' = [task EXCEPT ![t] = v]
  BY Zenon DEF Goto
<1> HIDE DEF v
<1> QED
  BY <1>1, <1>2, <1>3, AnswerOK DEF Fits, FitsAt

\* The refund call: what it answers is what Razorpay did.
LEMMA SendOK ==
    ASSUME Inv, NEW t \in Tasks, Send(t)
    PROVE  Inv'
<1> DEFINE p == task[t].p
<1>1. task[t] \in Task /\ Fits(task[t]) /\ p \in Payments /\ task[t].held \in Refund
  BY DEF Inv, TasksOK, Fits, FitsAt, Send, At, RunnerPcs, Task
<1>2. CASE CanRefund(p)
  <2>1. PICK s \in {"pending", "processed"} :
           /\ CreateRefund(p, s)
           /\ task' = [task EXCEPT ![t].pc = "saveId", ![t].rid = <<p, sent[p] + 1>>,
                         ![t].held = [@ EXCEPT !.status = IF s = "processed" THEN s ELSE "processing"]]
    BY <1>2 DEF Send
  <2> DEFINE x == IF s = "processed" THEN s ELSE "processing"
             h == [task[t].held EXCEPT !.status = x]
             r == <<p, sent[p] + 1>>
             v == [task[t] EXCEPT !.pc = "saveId", !.rid = r, !.held = h]
  <2>2. task' = [task EXCEPT ![t] = v]
    BY <2>1, Zenon
  <2>3. x \in RefundStatus /\ (x = "processed" => s = "processed")
    BY DEF RefundStatus
  <2>4. /\ r \in RefundIds /\ gwRefund'[r] = s
        /\ sent' \in [Payments -> 0..MaxRefunds]
        /\ gwRefund' \in [RefundIds -> {"none", "pending", "processed", "failed"}]
        /\ Unsent'
        /\ \A q \in RefundIds : gwRefund[q] = "processed" => gwRefund'[q] = "processed"
    BY <1>1, <1>2, <2>1, CreateOK
  <2> HIDE DEF x, r, p
  <2>5. h \in Refund /\ h.status = x
    BY <1>1, <2>3, Zenon DEF Refund
  <2> HIDE DEF h
  <2>6. v \in Task /\ v.pc = "saveId" /\ v.p = task[t].p /\ v.src = task[t].src /\ v.rid = r /\ v.held = h
    <3>1. r \in MaybeRefund /\ "saveId" \in Pcs
      BY <2>4 DEF MaybeRefund, Pcs, RefundPcs, RunnerPcs
    <3> QED
      BY <1>1, <2>5, <3>1, Zenon DEF Task
  <2> HIDE DEF v
  <2>7. TasksOK'
    BY <1>1, <2>2, <2>3, <2>4, <2>5, <2>6, AnswerOK DEF Send, p
  <2> QED
    BY <2>4, <2>7, GatewayOK DEF Send, orderVars, Inv, TypeOK
<1>3. CASE ~CanRefund(p)
  <2>1. Goto(t, "sendFailed") /\ UNCHANGED <<orderVars, refund, gwVars, ackVars, faults>>
    BY <1>3 DEF Send, gwVars
  <2>2. TasksOK'
    BY <2>1, LostAnswerOK DEF Send, gwVars
  <2> QED
    BY <2>1, <2>2, QuietOK DEF orderVars, gwVars, Inv, TypeOK
<1> QED
  BY <1>2, <1>3

\* The refund call is lost.
LEMMA SendLostOK ==
    ASSUME Inv, NEW t \in Tasks, SendLost(t)
    PROVE  Inv'
<1>1. task[t].p \in Payments
  BY DEF Inv, TasksOK, Fits, FitsAt, SendLost, At, RunnerPcs
<1>2. faults' \in 0..MaxFaults
  BY BoundsAssumption DEF SendLost, Fault, Inv, TypeOK
<1>3. CASE UNCHANGED <<sent, gwRefund>>
  <2>1. TasksOK'
    BY <1>3, LostAnswerOK DEF SendLost
  <2> QED
    BY <1>2, <1>3, <2>1, QuietOK DEF SendLost, orderVars, Inv, TypeOK
<1>4. CASE CanRefund(task[t].p) /\ CreateRefund(task[t].p, "pending")
  <2>1. /\ sent' \in [Payments -> 0..MaxRefunds]
        /\ gwRefund' \in [RefundIds -> {"none", "pending", "processed", "failed"}]
        /\ Unsent'
        /\ \A q \in RefundIds : gwRefund[q] = "processed" => gwRefund'[q] = "processed"
    BY <1>1, <1>4, CreateOK
  <2>2. TasksOK'
    BY <2>1, LostAnswerOK DEF SendLost
  <2> QED
    BY <1>2, <2>1, <2>2, GatewayOK DEF SendLost, orderVars, Inv, TypeOK
<1> QED
  BY <1>3, <1>4 DEF SendLost

\* handleRefundWebhook, up to its write.
LEMMA RefundWebhookOK ==
    ASSUME Inv, NEW t \in Tasks, NEW r \in RefundIds, RefundWebhook(t, r)
    PROVE  Inv'
<1>1. PICK S \in RefundTargets(r) :
         IF S = {} THEN ackedRefund' = ackedRefund \union {r} /\ UNCHANGED task
         ELSE /\ \E d \in S : task' = [task EXCEPT ![t] = [Idle EXCEPT
                   !.pc = IF gwRefund[r] = "processed" THEN "processed" ELSE "failedEvent",
                   !.src = "refundWebhook", !.doc = d, !.rid = r]]
              /\ UNCHANGED ackedRefund
  BY DEF RefundWebhook
<1>2. S \subseteq Docs
  <2> DEFINE byId == {d \in Docs : refund[d].id = r /\ PaymentOf(d) \in {r[1], NoPayment}}
             inFlight(skew) == {d \in Docs : /\ PaymentOf(d) = r[1]
                                             /\ refund[d].status = "processing" /\ refund[d].id = NoRefund
                                             /\ skew \/ r[2] > refund[d].since}
             first(D) == IF OrderDoc \in D THEN {OrderDoc} ELSE D
  <2>1. byId \subseteq Docs /\ inFlight(TRUE) \subseteq Docs /\ inFlight(FALSE) \subseteq Docs
    OBVIOUS
  <2>2. S \in {first(byId), first(inFlight(TRUE)), first(inFlight(FALSE))}
    <3>1. S \in IF byId # {} THEN {first(byId)} ELSE {first(inFlight(TRUE)), first(inFlight(FALSE))}
      BY <1>1, Zenon DEF RefundTargets
    <3> HIDE DEF byId, inFlight, first
    <3> QED
      BY <3>1
  <2> HIDE DEF byId, inFlight
  <2> QED
    BY <2>1, <2>2, DocTypes
<1>3. CASE S = {}
  <2>1. TasksOK'
    BY <1>1, <1>3 DEF RefundWebhook, Inv, TasksOK, Fits, FitsAt, gwVars
  <2> QED
    BY <2>1, QuietOK DEF RefundWebhook, orderVars, gwVars, Inv, TypeOK
<1>4. CASE S # {}
  <2>1. PICK d \in S : task' = [task EXCEPT ![t] = [Idle EXCEPT
                   !.pc = IF gwRefund[r] = "processed" THEN "processed" ELSE "failedEvent",
                   !.src = "refundWebhook", !.doc = d, !.rid = r]]
    BY <1>1, <1>4
  <2> DEFINE pc == IF gwRefund[r] = "processed" THEN "processed" ELSE "failedEvent"
             v == [Idle EXCEPT !.pc = pc, !.src = "refundWebhook", !.doc = d, !.rid = r]
  <2>2. pc \in Pcs /\ pc \in {"processed", "failedEvent"} /\ (pc = "processed" => gwRefund[r] = "processed")
    BY DEF Pcs, RefundPcs
  <2>3. task' = [task EXCEPT ![t] = v]
    BY <2>1
  <2> HIDE DEF pc
  <2>4. v \in Task /\ v.pc = pc /\ v.p = NoPayment /\ v.src = "refundWebhook" /\ v.rid = r
    <3>1. d \in Docs /\ r \in MaybeRefund /\ "refundWebhook" \in Sources
      BY <1>2 DEF MaybeRefund, Sources
    <3> QED
      BY <2>2, <3>1, EmptyTypes, IdleFields, Zenon DEF Task
  <2> HIDE DEF v
  <2>5. Fits(v)
    BY <2>2, <2>4 DEF Fits, FitsAt, SettlePcs, RunnerPcs
  <2>6. TasksOK'
    BY <1>1, <1>4, <2>3, <2>4, <2>5, StepOK DEF RefundWebhook, gwVars
  <2> QED
    BY <2>6, QuietOK DEF RefundWebhook, orderVars, gwVars, Inv, TypeOK
<1> QED
  BY <1>3, <1>4

\* retryRefund, up to its claim.
LEMMA RetryRefundOK ==
    ASSUME Inv, NEW t \in Tasks, NEW d \in Docs, RetryRefund(t, d)
    PROVE  Inv'
<1> DEFINE pc == IF d = OrderDoc THEN "settings" ELSE "claim"
           v == [Idle EXCEPT !.pc = pc, !.src = "admin", !.doc = d]
<1>1. pc \in Pcs /\ pc \in {"settings", "claim"}
  BY DEF Pcs, RefundPcs
<1>2. task' = [task EXCEPT ![t] = v]
  BY Zenon DEF RetryRefund
<1> HIDE DEF pc
<1>3. v \in Task /\ v.pc = pc /\ v.src = "admin"
  BY <1>1, EmptyTypes, Zenon DEF Task, Sources
<1> HIDE DEF v
<1>4. Fits(v)
  BY <1>1, <1>3 DEF Fits, FitsAt, SettlePcs, RunnerPcs, SentPcs
<1>5. TasksOK'
  BY <1>2, <1>3, <1>4, StepOK DEF RetryRefund, gwVars, ackVars
<1> QED
  BY <1>5, QuietOK DEF RetryRefund, orderVars, gwVars, Inv, TypeOK

\* The process dies.
LEMMA CrashOK ==
    ASSUME Inv, Crash
    PROVE  Inv'
<1>1. TasksOK'
  BY EmptyTypes, IdleFits DEF Crash, Inv, TasksOK, Fits, FitsAt, gwVars, ackVars
<1>2. faults' \in 0..MaxFaults
  BY BoundsAssumption DEF Crash, Fault, Inv, TypeOK
<1> QED
  BY <1>1, <1>2, QuietOK DEF Crash, orderVars, gwVars, Inv, TypeOK

\* A handler throws.
LEMMA HandlerErrorOK ==
    ASSUME Inv, NEW t \in Tasks, HandlerError(t)
    PROVE  Inv'
<1>1. TasksOK'
  BY DropOK DEF HandlerError, gwVars
<1>2. faults' \in 0..MaxFaults
  BY BoundsAssumption DEF HandlerError, Fault, Inv, TypeOK
<1> QED
  BY <1>1, <1>2, QuietOK DEF HandlerError, orderVars, gwVars, Inv, TypeOK

\* The steps of customers, the kitchen and Razorpay that start no handler.
LEMMA TasksStay ==
    ASSUME Inv, UNCHANGED <<task, acked, ackedRefund>>,
           \A r \in RefundIds : gwRefund[r] = "processed" => gwRefund'[r] = "processed"
    PROVE  TasksOK'
BY DEF Inv, TasksOK, Fits, FitsAt, SentPcs

\* Razorpay's own steps.
LEMMA GatewayStepOK ==
    ASSUME Inv,
           \/ \E p \in Payments : Pay(p) \/ AutoCapture(p)
           \/ \E r \in RefundIds : GatewaySettles(r)
    PROVE  Inv'
<1>1. CASE \E p \in Payments : Pay(p) \/ AutoCapture(p)
  <2>1. TasksOK'
    BY <1>1, TasksStay DEF Pay, AutoCapture, ackVars
  <2>2. gw' \in [Payments -> {"none", "authorized", "captured"}]
    BY <1>1 DEF Pay, AutoCapture, Inv, TypeOK
  <2>3. UNCHANGED <<status, forfeited, pay, pid, refund, sent, gwRefund, faults>>
    BY <1>1 DEF Pay, AutoCapture, orderVars
  <2> QED
    BY <2>1, <2>2, <2>3, GatewayOK DEF Inv, TypeOK, Unsent
<1>2. ASSUME NEW r \in RefundIds, GatewaySettles(r) PROVE Inv'
  <2>1. \A q \in RefundIds : gwRefund[q] = "processed" => gwRefund'[q] = "processed"
    BY <1>2 DEF GatewaySettles, Inv, TypeOK
  <2>2. gwRefund' \in [RefundIds -> {"none", "pending", "processed", "failed"}]
    BY <1>2 DEF GatewaySettles, Inv, TypeOK
  <2>3. Unsent'
    BY <1>2 DEF GatewaySettles, Inv, TypeOK, Unsent, RefundIds
  <2>4. TasksOK'
    BY <1>2, <2>1, TasksStay DEF GatewaySettles, ackVars
  <2> QED
    BY <1>2, <2>1, <2>2, <2>3, <2>4, GatewayOK DEF GatewaySettles, orderVars, Inv, TypeOK
<1> QED
  BY <1>1, <1>2

\* The kitchen's steps.
LEMMA LifeOK ==
    ASSUME Inv, Accept \/ StartPreparing \/ Deliver
    PROVE  Inv'
<1>1. TasksOK'
  BY TasksStay DEF Accept, StartPreparing, Deliver, gwVars, ackVars
<1>2. TypeOK'
  BY <1>1 DEF Inv, TypeOK, TasksOK, Accept, StartPreparing, Deliver, gwVars
<1> QED
  BY <1>1, <1>2 DEF Inv, Accept, StartPreparing, Deliver, gwVars, Unsent, SettledHasPayment,
     RefundedMeansReturned, Unsettled, Returned

\* Payment statuses without money.
LEMMA PayStatusOK ==
    ASSUME Inv, PaymentFailedEvent \/ BadSignature \/ RetryPayment
    PROVE  Inv'
<1>1. TasksOK'
  BY TasksStay DEF PaymentFailedEvent, BadSignature, RetryPayment, gwVars, ackVars
<1> QED
  BY <1>1, CountingOK DEF PaymentFailedEvent, BadSignature, RetryPayment, gwVars, Inv, TypeOK

\* A cancellation.
LEMMA CancelOK ==
    ASSUME Inv, NEW byCustomer \in BOOLEAN, Cancel(byCustomer)
    PROVE  Inv'
<1> DEFINE v == [Idle EXCEPT !.pc = "settings", !.src = "cancel"]
<1>1. v \in Task /\ v.pc = "settings" /\ v.src = "cancel"
  BY EmptyTypes, Zenon DEF Task, Pcs, RefundPcs, Sources
<1>2. task' = task \/ \E t \in Tasks : task' = [task EXCEPT ![t] = v]
  BY Zenon DEF Cancel
<1> HIDE DEF v
<1>3. Fits(v)
  BY <1>1 DEF Fits, FitsAt, SettlePcs, RunnerPcs, SentPcs
<1>4. TasksOK'
  BY <1>1, <1>2, <1>3, StepOK, TasksStay DEF Cancel, gwVars, ackVars
<1>5. forfeited' \in BOOLEAN
  BY DEF Cancel
<1>6. TypeOK'
  BY <1>4, <1>5 DEF Inv, TypeOK, TasksOK, Cancel, gwVars
<1> QED
  BY <1>4, <1>6 DEF Inv, Cancel, gwVars, Unsent, SettledHasPayment, RefundedMeansReturned, Unsettled, Returned

-----------------------------------------------------------------------------

\* The invariant holds at first.
LEMMA InvInit == Init => Inv
<1> SUFFICES ASSUME Init PROVE Inv
  OBVIOUS
<1>1. TasksOK
  BY EmptyTypes, IdleFits DEF Init, TasksOK
<1>2. refund \in [Docs -> Refund]
  BY EmptyTypes DEF Init
<1>3. /\ gw \in [Payments -> {"none", "authorized", "captured"}]
      /\ sent \in [Payments -> 0..MaxRefunds]
      /\ gwRefund \in [RefundIds -> {"none", "pending", "processed", "failed"}]
  BY BoundsAssumption DEF Init
<1>4. TypeOK
  <2>1. /\ status \in {"placed", "confirmed", "preparing", "delivered", "cancelled"}
        /\ forfeited \in BOOLEAN
        /\ pay \in {"pending", "failed"} \union UNCOUNTABLE
        /\ pid \in MaybePayment
    BY DEF Init, MaybePayment
  <2>2. faults \in 0..MaxFaults
    BY BoundsAssumption DEF Init
  <2> QED
    BY <1>1, <1>2, <1>3, <2>1, <2>2 DEF TypeOK, TasksOK
<1>5. Unsent
  BY DEF Init, Unsent, RefundIds
<1> QED
  BY <1>1, <1>4, <1>5 DEF Init, Inv, SettledHasPayment, RefundedMeansReturned, Unsettled, UNCOUNTABLE

\* Every step preserves it.
LEMMA InvNext == Inv /\ [Next]_vars => Inv'
<1> SUFFICES ASSUME Inv, [Next]_vars PROVE Inv'
  OBVIOUS
<1>1. CASE \/ \E p \in Payments : Pay(p) \/ AutoCapture(p)
           \/ \E r \in RefundIds : GatewaySettles(r)
  BY <1>1, GatewayStepOK
<1>2. CASE Accept \/ StartPreparing \/ Deliver
  BY <1>2, LifeOK
<1>3. CASE PaymentFailedEvent \/ BadSignature \/ RetryPayment
  BY <1>3, PayStatusOK
<1>4. CASE \E byCustomer \in BOOLEAN : Cancel(byCustomer)
  BY <1>4, CancelOK
<1>5. CASE \E t \in Tasks, p \in Payments : Verify(t, p) \/ Webhook(t, p)
  BY <1>5, StartSettleOK DEF Verify, Webhook
<1>6. CASE \E t \in Tasks, r \in RefundIds : RefundWebhook(t, r)
  BY <1>6, RefundWebhookOK
<1>7. CASE \E t \in Tasks, d \in Docs : RetryRefund(t, d)
  BY <1>7, RetryRefundOK
<1>8. CASE \E t \in Tasks : SettleStep(t)
  BY <1>8, DuplicateOK, ConfirmOK, AlreadyFlaggedOK, FlagOK, FailOrderOK, StrayCheckOK, OrderCheckOK,
     StrayInsertOK, MoveReadOK, MoveCopyOK, MoveClearOK, CountOK DEF SettleStep
<1>9. CASE \E t \in Tasks : RefundStep(t)
  BY <1>9, SettingsOK, ClaimOK, AmountOK, SendOK, SaveIdOK, SendFailedOK, ProcessedOK, RefundedOK,
     FailedEventOK DEF RefundStep
<1>10. CASE \E t \in Tasks : SendLost(t) \/ HandlerError(t)
  BY <1>10, SendLostOK, HandlerErrorOK
<1>11. CASE Crash
  BY <1>11, CrashOK
<1>12. CASE UNCHANGED vars
  <2>1. TasksOK'
    BY <1>12, TasksStay DEF vars
  <2> QED
    BY <1>12, <2>1, QuietOK DEF vars, Inv, TypeOK
<1> QED
  BY <1>1, <1>2, <1>3, <1>4, <1>5, <1>6, <1>7, <1>8, <1>9, <1>10, <1>11, <1>12 DEF Next

\* So it always holds.
LEMMA Invariance == Spec => []Inv
BY InvInit, InvNext, PTL DEF Spec

\* Every document field, Razorpay state and handler register keeps its type: a refund status is
\* always one refundSchema lists, a handler always has the payment or refund it is working on.
THEOREM TypeCorrect == Spec => []TypeOK
<1>1. Inv => TypeOK
  BY DEF Inv
<1> QED
  BY <1>1, Invariance, PTL

\* For any number of handlers, retries, webhooks, crashes and lost answers: an order marked
\* 'refunded' had the very payment it counted returned by Razorpay.
THEOREM RefundedIsReturned == Spec => []RefundedMeansReturned
<1>1. Inv => RefundedMeansReturned
  BY DEF Inv
<1> QED
  BY <1>1, Invariance, PTL

-----------------------------------------------------------------------------

\* No handler takes an order out of 'paid'/'refunded' or changes the payment it counted: every
\* write of paymentStatus or razorpayPaymentId is conditional on an unsettled order.
THEOREM PaidStaysPaid == Spec => PaidIsFinal
<1>1. ASSUME Next, ~Unsettled PROVE pay' \in UNCOUNTABLE /\ pid' = pid
  <2>1. ASSUME NEW t \in Tasks, SettleStep(t) PROVE pay' \in UNCOUNTABLE /\ pid' = pid
    BY <1>1, <2>1 DEF SettleStep, Duplicate, Confirm, AlreadyFlagged, Flag, FailOrder, StrayCheck,
       OrderCheck, StrayInsert, MoveRead, MoveCopy, MoveClear, Count, orderVars, Unsettled
  <2>2. ASSUME NEW t \in Tasks, RefundStep(t) PROVE pay' \in UNCOUNTABLE /\ pid' = pid
    BY <1>1, <2>2 DEF RefundStep, Settings, Claim, Amount, Send, SaveId, SendFailed, Processed,
       Refunded, FailedEvent, orderVars, Unsettled, UNCOUNTABLE
  <2>3. ASSUME NEW t \in Tasks, SendLost(t) \/ HandlerError(t) PROVE pay' \in UNCOUNTABLE /\ pid' = pid
    BY <1>1, <2>3 DEF SendLost, HandlerError, orderVars, Unsettled
  <2>4. ASSUME NEW t \in Tasks, NEW p \in Payments, Verify(t, p) \/ Webhook(t, p)
        PROVE  pay' \in UNCOUNTABLE /\ pid' = pid
    BY <1>1, <2>4 DEF Verify, Webhook, StartSettle, orderVars, Unsettled
  <2>5. ASSUME NEW t \in Tasks, NEW r \in RefundIds, RefundWebhook(t, r)
        PROVE  pay' \in UNCOUNTABLE /\ pid' = pid
    BY <1>1, <2>5 DEF RefundWebhook, orderVars, Unsettled
  <2>6. ASSUME NEW t \in Tasks, NEW d \in Docs, RetryRefund(t, d)
        PROVE  pay' \in UNCOUNTABLE /\ pid' = pid
    BY <1>1, <2>6 DEF RetryRefund, orderVars, Unsettled
  <2>7. CASE \/ \E p \in Payments : Pay(p) \/ AutoCapture(p)
             \/ \E r \in RefundIds : GatewaySettles(r)
             \/ Crash
    BY <1>1, <2>7 DEF Pay, AutoCapture, GatewaySettles, Crash, orderVars, Unsettled
  <2>8. CASE \/ Accept \/ StartPreparing \/ Deliver
             \/ PaymentFailedEvent \/ BadSignature \/ RetryPayment
             \/ \E byCustomer \in BOOLEAN : Cancel(byCustomer)
    BY <1>1, <2>8 DEF Accept, StartPreparing, Deliver, PaymentFailedEvent, BadSignature, RetryPayment,
       Cancel, Unsettled
  <2> QED
    BY <1>1, <2>1, <2>2, <2>3, <2>4, <2>5, <2>6, <2>7, <2>8 DEF Next
<1>2. [Next]_vars => [~Unsettled => pay' \in UNCOUNTABLE /\ pid' = pid]_vars
  BY <1>1
<1> QED
  BY <1>2, PTL DEF Spec, PaidIsFinal

-----------------------------------------------------------------------------

\* A handler about to claim the order's own refund.
Refunding(t) == task[t].pc \in {"settings", "claim"} /\ task[t].doc = OrderDoc

\* A paid order cancelled with a refund due has one on record, or a handler about to claim it.
UnderWay ==
    status = "cancelled" /\ pay = "paid" /\ ~forfeited /\ refund[OrderDoc].status = "none"
        => \E t \in Tasks : Refunding(t)

\* A step that neither cancels nor counts nor ends a refund under way keeps UnderWay.
LEMMA StillUnderWay ==
    ASSUME UnderWay, UNCHANGED <<status, forfeited>>, pay' = "paid" => pay = "paid",
           pay = "paid" /\ refund'[OrderDoc].status = "none" => refund[OrderDoc].status = "none",
           \A u \in Tasks : Refunding(u) => Refunding(u)'
    PROVE  UnderWay'
BY DEF UnderWay

\* One handler moves, one that is not about to refund the order.
LEMMA OthersRefund ==
    ASSUME Inv, NEW t \in Tasks, ~Refunding(t), NEW v, task' = [task EXCEPT ![t] = v]
    PROVE  \A u \in Tasks : Refunding(u) => Refunding(u)'
BY DEF Inv, TasksOK, Refunding

\* A step of a settling handler: only Count makes an order paid, and it refunds a cancelled one;
\* only MoveClear empties a refund, and never that of a paid order.
LEMMA SettleUnderWay ==
    ASSUME Inv, UnderWay, NEW t \in Tasks, SettleStep(t)
    PROVE  UnderWay'
<1>1. task[t].pc \in SettlePcs /\ ~Refunding(t)
  BY DEF SettleStep, Duplicate, Confirm, AlreadyFlagged, Flag, FailOrder, StrayCheck, OrderCheck,
     StrayInsert, MoveRead, MoveCopy, MoveClear, Count, At, SettlePcs, Refunding
<1>2. \E v : task' = [task EXCEPT ![t] = v]
  BY Zenon DEF SettleStep, Duplicate, Confirm, AlreadyFlagged, Flag, FailOrder, StrayCheck, OrderCheck,
     StrayInsert, MoveRead, MoveCopy, MoveClear, Count, Goto, GotoIf, Finish
<1>3. \A u \in Tasks : Refunding(u) => Refunding(u)'
  BY <1>1, <1>2, OthersRefund
<1>4. CASE Count(t)
  <2>1. CASE Unsettled /\ status = "cancelled"
    <3>1. Refunding(t)'
      BY <1>4, <2>1 DEF Count, GotoIf, Goto, At, Inv, TasksOK, Task, Fits, FitsAt, Refunding
    <3> QED
      BY <3>1 DEF UnderWay
  <2>2. CASE ~(Unsettled /\ status = "cancelled")
    <3>1. status' = status /\ forfeited' = forfeited /\ refund' = refund
      BY <1>4 DEF Count
    <3>2. CASE Unsettled
      BY <2>2, <3>1, <3>2 DEF UnderWay
    <3>3. CASE ~Unsettled
      BY <1>3, <1>4, <3>1, <3>3, StillUnderWay DEF Count
    <3> QED
      BY <3>2, <3>3
  <2> QED
    BY <2>1, <2>2
<1>5. CASE MoveClear(t)
  <2>1. pay = "paid" => refund' = refund
    BY <1>5 DEF MoveClear, Unsettled, UNCOUNTABLE
  <2> QED
    BY <1>3, <1>5, <2>1, StillUnderWay DEF MoveClear, orderVars
<1>6. CASE MoveCopy(t)
  <2>1. task[t].doc # OrderDoc
    BY <1>6 DEF MoveCopy, At, Inv, TasksOK, Fits, FitsAt
  <2>2. refund'[OrderDoc] = refund[OrderDoc]
    BY <1>6, <2>1 DEF MoveCopy, Inv, TypeOK
  <2> QED
    BY <1>3, <1>6, <2>2, StillUnderWay DEF MoveCopy, orderVars
<1>7. CASE Flag(t)
  <2>1. pay = "paid" => refund' = refund
    BY <1>7 DEF Flag, Unsettled, UNCOUNTABLE
  <2>2. pay' = "paid" => pay = "paid"
    BY <1>7 DEF Flag
  <2> QED
    BY <1>3, <1>7, <2>1, <2>2, StillUnderWay DEF Flag
<1>8. CASE FailOrder(t)
  BY <1>3, <1>8, StillUnderWay DEF FailOrder
<1>9. CASE StrayInsert(t)
  <2> DEFINE r == [EmptyRefund EXCEPT !.status = "pending", !.amt = task[t].p]
  <2>1. refund' = refund \/ refund' = [refund EXCEPT ![task[t].doc] = r]
    BY <1>9, Zenon DEF StrayInsert
  <2>2. r.status = "pending"
    BY EmptyTypes, Zenon DEF Refund
  <2> HIDE DEF r
  <2>3. refund'[OrderDoc].status = "none" => refund[OrderDoc].status = "none"
    BY <2>1, <2>2, DocTypes DEF Inv, TypeOK
  <2> QED
    BY <1>3, <1>9, <2>3, StillUnderWay DEF StrayInsert, orderVars
<1>10. CASE Duplicate(t) \/ Confirm(t) \/ AlreadyFlagged(t) \/ StrayCheck(t) \/ OrderCheck(t) \/ MoveRead(t)
  BY <1>3, <1>10, StillUnderWay DEF Duplicate, Confirm, AlreadyFlagged, StrayCheck, OrderCheck, MoveRead, orderVars
<1> QED
  BY <1>4, <1>5, <1>6, <1>7, <1>8, <1>9, <1>10 DEF SettleStep

\* A claim refused on a paid order finds a refund on record.
LEMMA ClaimUnderWay ==
    ASSUME Inv, UnderWay, NEW t \in Tasks, Claim(t)
    PROVE  UnderWay'
<1> DEFINE d == task[t].doc
           r == [refund[d] EXCEPT !.status = "processing", !.id = NoRefund, !.since = sent[PaymentOf(d)]]
<1>1. d \in Docs /\ refund[d] \in Refund /\ task[t].pc = "claim"
  BY DEF Inv, TasksOK, TypeOK, Task, Claim, At
<1>2. CASE Claimable(d)
  <2>1. refund' = [refund EXCEPT ![d] = r]
    BY <1>2, Zenon DEF Claim
  <2>2. r.status = "processing"
    BY <1>1, Zenon DEF Refund
  <2> HIDE DEF r
  <2>3. CASE d = OrderDoc
    <3>1. refund'[OrderDoc].status = "processing"
      BY <1>1, <2>1, <2>2, <2>3 DEF Inv, TypeOK
    <3> QED
      BY <3>1 DEF UnderWay
  <2>4. CASE d # OrderDoc
    <3>1. refund'[OrderDoc] = refund[OrderDoc]
      BY <1>1, <2>1, <2>4, DocTypes DEF Inv, TypeOK
    <3>2. ~Refunding(t)
      BY <2>4 DEF Refunding
    <3>3. \E v : task' = [task EXCEPT ![t] = v]
      BY <1>2, Zenon DEF Claim
    <3> QED
      BY <3>1, <3>2, <3>3, OthersRefund, StillUnderWay DEF Claim, orderVars
  <2> QED
    BY <2>3, <2>4
<1>3. CASE ~Claimable(d)
  <2>1. refund' = refund /\ Finish(t)
    BY <1>3 DEF Claim
  <2>2. CASE d = OrderDoc
    <3>1. pay = "paid" => PaymentOf(d) # NoPayment
      BY <2>2, PaymentsAssumption DEF PaymentOf, Inv, SettledHasPayment, Unsettled, UNCOUNTABLE
    <3>2. pay = "paid" => refund[OrderDoc].status # "none"
      BY <1>3, <2>2, <3>1 DEF Claimable
    <3> QED
      BY <2>1, <3>2 DEF UnderWay, Claim, orderVars
  <2>3. CASE d # OrderDoc
    <3>1. ~Refunding(t)
      BY <2>3 DEF Refunding
    <3>2. \E v : task' = [task EXCEPT ![t] = v]
      BY <2>1 DEF Finish
    <3> QED
      BY <2>1, <3>1, <3>2, OthersRefund, StillUnderWay DEF Claim, orderVars
  <2> QED
    BY <2>2, <2>3
<1> QED
  BY <1>2, <1>3

\* A step of the refund engine.
LEMMA RefundUnderWay ==
    ASSUME Inv, UnderWay, NEW t \in Tasks, RefundStep(t)
    PROVE  UnderWay'
<1>1. CASE Claim(t)
  BY <1>1, ClaimUnderWay
<1>2. CASE Settings(t)
  <2>1. Refunding(t) => Refunding(t)'
    <3> DEFINE v == [task[t] EXCEPT !.pc = "claim"]
    <3>1. v.pc = "claim" /\ v.doc = task[t].doc
      BY Zenon DEF Inv, TasksOK, Task
    <3>2. task' = [task EXCEPT ![t] = v]
      BY <1>2, Zenon DEF Settings, Goto
    <3> HIDE DEF v
    <3> QED
      BY <3>1, <3>2 DEF Inv, TasksOK, Refunding
  <2>2. \A u \in Tasks \ {t} : Refunding(u) => Refunding(u)'
    BY <1>2 DEF Settings, Goto, Inv, TasksOK, Refunding
  <2> QED
    BY <1>2, <2>1, <2>2, StillUnderWay DEF Settings, orderVars
<1>3. CASE Amount(t) \/ SaveId(t) \/ SendFailed(t) \/ Processed(t) \/ FailedEvent(t)
  <2>1. ~Refunding(t)
    BY <1>3 DEF Amount, SaveId, SendFailed, Processed, FailedEvent, At, Refunding
  <2>2. \E v : task' = [task EXCEPT ![t] = v]
    BY <1>3, Zenon DEF Amount, SaveId, SendFailed, Processed, FailedEvent, Goto, GotoIf, Finish
  <2> DEFINE d == task[t].doc
             amount == [refund[d] EXCEPT !.amt = task[t].held.amt]
             id == [refund[d] EXCEPT !.id = task[t].rid]
             failed == [refund[d] EXCEPT !.status = "failed"]
             failedId == [refund[d] EXCEPT !.status = "failed", !.id = task[t].rid]
             processed == [refund[d] EXCEPT !.status = "processed", !.id = task[t].rid]
  <2>3. d \in Docs /\ refund[d] \in Refund
    BY DEF Inv, TasksOK, TypeOK, Task
  <2>4. /\ amount.status = refund[d].status /\ id.status = refund[d].status
        /\ failed.status = "failed" /\ failedId.status = "failed" /\ processed.status = "processed"
    BY <2>3, Zenon DEF Refund
  <2>5. refund' = refund \/ \E r \in {amount, id, failed, failedId, processed} : refund' = [refund EXCEPT ![d] = r]
    BY <1>3, Zenon DEF Amount, SaveId, SendFailed, Processed, FailedEvent
  <2> HIDE DEF amount, id, failed, failedId, processed
  <2>6. refund'[OrderDoc].status = "none" => refund[OrderDoc].status = "none"
    BY <2>3, <2>4, <2>5, DocTypes DEF Inv, TypeOK
  <2>7. UNCHANGED <<status, forfeited, pay>>
    BY <1>3 DEF Amount, SaveId, SendFailed, Processed, FailedEvent, orderVars
  <2> QED
    BY <2>1, <2>2, <2>6, <2>7, OthersRefund, StillUnderWay
<1>4. CASE Send(t) \/ Refunded(t)
  <2>1. ~Refunding(t)
    BY <1>4 DEF Send, Refunded, At, Refunding
  <2>2. \E v : task' = [task EXCEPT ![t] = v]
    BY <1>4, Zenon DEF Send, Refunded, Goto, Finish
  <2>3. UNCHANGED <<status, forfeited, refund>> /\ (pay' = "paid" => pay = "paid")
    BY <1>4 DEF Send, Refunded, orderVars
  <2> QED
    BY <2>1, <2>2, <2>3, OthersRefund, StillUnderWay
<1> QED
  BY <1>1, <1>2, <1>3, <1>4 DEF RefundStep

\* A cancellation of a paid order starts its refund.
LEMMA CancelUnderWay ==
    ASSUME Inv, NEW byCustomer \in BOOLEAN, Cancel(byCustomer)
    PROVE  UnderWay'
<1> SUFFICES ASSUME pay = "paid", ~forfeited' PROVE \E t \in Tasks : Refunding(t)'
  BY DEF UnderWay, Cancel
<1>1. PICK t \in Tasks : task' = [task EXCEPT ![t] = [Idle EXCEPT !.pc = "settings", !.src = "cancel"]]
  BY DEF Cancel
<1> DEFINE v == [Idle EXCEPT !.pc = "settings", !.src = "cancel"]
<1>2. v.pc = "settings" /\ v.doc = OrderDoc
  BY EmptyTypes, IdleFields, Zenon DEF Task
<1>3. task' = [task EXCEPT ![t] = v]
  BY <1>1
<1> HIDE DEF v
<1>4. Refunding(t)'
  BY <1>2, <1>3 DEF Inv, TasksOK, Refunding
<1> QED
  BY <1>4

\* Starting a handler takes none away.
LEMMA StartUnderWay ==
    ASSUME Inv, UnderWay, NEW t \in Tasks,
           \/ \E p \in Payments : Verify(t, p) \/ Webhook(t, p)
           \/ \E r \in RefundIds : RefundWebhook(t, r)
           \/ \E d \in Docs : RetryRefund(t, d)
    PROVE  UnderWay'
<1>1. ~Refunding(t)
  BY DEF Verify, Webhook, StartSettle, RefundWebhook, RetryRefund, At, Refunding
<1>2. task' = task \/ \E v : task' = [task EXCEPT ![t] = v]
  <2>1. CASE \E p \in Payments : Verify(t, p) \/ Webhook(t, p)
    BY <2>1, Zenon DEF Verify, Webhook, StartSettle, Begin
  <2>2. CASE \E r \in RefundIds : RefundWebhook(t, r)
    BY <2>2, Zenon DEF RefundWebhook
  <2>3. CASE \E d \in Docs : RetryRefund(t, d)
    BY <2>3, Zenon DEF RetryRefund
  <2> QED
    BY <2>1, <2>2, <2>3
<1>3. UNCHANGED <<status, forfeited, pay, refund>>
  BY DEF Verify, Webhook, StartSettle, RefundWebhook, RetryRefund, orderVars
<1>4. \A u \in Tasks : Refunding(u) => Refunding(u)'
  BY <1>1, <1>2, OthersRefund DEF Refunding
<1> QED
  BY <1>3, <1>4, StillUnderWay

\* Without faults no handler loses the refund it is about to make.
LEMMA UnderWayNext ==
    ASSUME MaxFaults = 0, Inv, UnderWay, [Next]_vars
    PROVE  UnderWay'
<1>1. ~Fault
  BY DEF Fault, Inv, TypeOK
<1>2. CASE \/ \E p \in Payments : Pay(p) \/ AutoCapture(p)
           \/ \E r \in RefundIds : GatewaySettles(r)
           \/ PaymentFailedEvent \/ BadSignature \/ RetryPayment
           \/ UNCHANGED vars
  <2>1. UNCHANGED <<status, forfeited, refund, task>> /\ (pay' = "paid" => pay = "paid")
    BY <1>2 DEF Pay, AutoCapture, GatewaySettles, PaymentFailedEvent, BadSignature, RetryPayment, vars, orderVars
  <2> QED
    BY <2>1, StillUnderWay DEF Refunding
<1>3. CASE Accept \/ StartPreparing \/ Deliver
  <2>1. status' # "cancelled"
    BY <1>3 DEF Accept, StartPreparing, Deliver
  <2> QED
    BY <2>1 DEF UnderWay
<1>4. CASE \E byCustomer \in BOOLEAN : Cancel(byCustomer)
  BY <1>4, CancelUnderWay
<1>5. CASE \E t \in Tasks : SettleStep(t) \/ RefundStep(t)
  BY <1>5, SettleUnderWay, RefundUnderWay
<1>6. CASE \/ \E t \in Tasks, p \in Payments : Verify(t, p) \/ Webhook(t, p)
           \/ \E t \in Tasks, r \in RefundIds : RefundWebhook(t, r)
           \/ \E t \in Tasks, d \in Docs : RetryRefund(t, d)
  BY <1>6, StartUnderWay
<1>7. CASE (\E t \in Tasks : SendLost(t) \/ HandlerError(t)) \/ Crash
  BY <1>1, <1>7 DEF SendLost, HandlerError, Crash
<1> QED
  BY <1>2, <1>3, <1>4, <1>5, <1>6, <1>7 DEF Next

\* The race of a cancellation with a payment: while no handler fails, however many of them
\* interleave, a paid order cancelled with a refund due has one on record once they are done.
THEOREM CancelledStaysRefundable ==
    ASSUME MaxFaults = 0
    PROVE  Spec => []CancelledMoneyIsRefundable
<1>1. Init => UnderWay
  BY DEF Init, UnderWay
<1>2. Inv /\ UnderWay /\ [Next]_vars => UnderWay'
  BY UnderWayNext
<1>3. Inv /\ UnderWay => CancelledMoneyIsRefundable
  BY DEF UnderWay, Refunding, CancelledMoneyIsRefundable, Quiet, At
<1> QED
  BY <1>1, <1>2, <1>3, Invariance, PTL DEF Spec

-----------------------------------------------------------------------------
(* Where the money of an order is.                                         *)

\* One handler at a time, or no payment to refuse.
Apart == (\A t, u \in Tasks : t = u) \/ Exact = Payments

Recorded(d) == refund[d].status # "none"

\* The order's counted payment is to go back.
Due == ~Unsettled /\ status = "cancelled" /\ ~forfeited

\* The order carries the refund of a payment it refused.
Flagged == Unsettled /\ Recorded(OrderDoc) /\ pid \in Payments \ Exact

\* What a settling handler with the registers v knows.
SettleKnows(v) ==
    /\ v.pc \in {"moveRead", "moveCopy", "moveClear", "count"} => v.p \in Exact
    /\ v.pc \in {"alreadyFlagged", "flag", "failOrder"} => v.p \notin Exact
    /\ v.pc \in {"confirm", "moveRead"} => v.moves = 0
    /\ v.pc = "duplicate" => ~Unsettled /\ pid # v.p
    /\ v.pc \in {"strayCheck", "orderCheck", "strayInsert"} =>
          \/ v.doc = <<"duplicate_payment", v.p>> /\ ~Unsettled /\ pid # v.p
          \/ v.doc = <<"refused_payment", v.p>> /\ v.p \notin Exact
    /\ v.pc \in {"orderCheck", "strayInsert"} /\ v.p \notin Exact => ~IsStray(v.p)
    /\ v.pc \in {"moveCopy", "moveClear"} =>
          Flagged /\ v.doc = <<"refused_payment", pid>> /\ v.held = refund[OrderDoc]
    /\ v.pc = "moveClear" => Recorded(v.doc)
    /\ v.pc = "count" /\ Unsettled => ~Recorded(OrderDoc)

\* What a handler of the refund engine knows.
EngineKnows(v) ==
    /\ v.pc = "settings" => v.doc = OrderDoc
    /\ v.pc \in {"settings", "claim"} =>
          \/ v.doc = OrderDoc /\ (Due \/ Flagged)
          \/ v.doc # OrderDoc /\ Recorded(v.doc)
    /\ v.pc \in RunnerPcs \union {"processed", "failedEvent"} => Recorded(v.doc)
    /\ v.pc \in RunnerPcs => v.p = PaymentOf(v.doc)
    /\ v.pc \in {"saveId", "processed", "failedEvent"} => v.rid[1] = PaymentOf(v.doc)
    /\ v.pc = "amount" => v.held.amt # NoPayment

Knows(v) == SettleKnows(v) /\ EngineKnows(v)

Unnamed == \A d \in Docs : ~Recorded(d) => refund[d].id = NoRefund

OrderRefund ==
    /\ Recorded(OrderDoc) => Due \/ (Flagged /\ refund[OrderDoc].amt # NoPayment)
    /\ refund[OrderDoc].id = NoRefund \/ refund[OrderDoc].id[1] = pid

StrayRefunds == \A p \in Payments :
    /\ Recorded(<<"refused_payment", p>>) => p \notin Exact
    /\ Recorded(<<"duplicate_payment", p>>) =>
          ~Unsettled /\ pid # p /\ ~Recorded(<<"refused_payment", p>>)

CountedOrder ==
    /\ Unsettled => status \in {"placed", "cancelled"} /\ ~forfeited
    /\ ~Unsettled => pid \in Exact

SentIsOwed == \A p \in Payments : sent[p] > 0 => IsStray(p) \/ (pid = p /\ (Due \/ Flagged))

Money == Unnamed /\ OrderRefund /\ StrayRefunds /\ CountedOrder /\ SentIsOwed

Kept == Money /\ \A t \in Tasks : Knows(task[t])

\* What no step undoes while no payment is refused.
Persists ==
    /\ ~Unsettled => ~Unsettled' /\ pid' = pid
    /\ Due => Due'
    /\ \A d \in Docs : Recorded(d) => Recorded(d)'

-----------------------------------------------------------------------------

\* A handler that goes on keeps its registers; the others stay where they are.
LEMMA GotoFields ==
    ASSUME Inv, NEW t \in Tasks, NEW pc \in Pcs, Goto(t, pc)
    PROVE  /\ task'[t].pc = pc /\ task'[t].p = task[t].p /\ task'[t].doc = task[t].doc
           /\ task'[t].held = task[t].held /\ task'[t].rid = task[t].rid /\ task'[t].moves = task[t].moves
           /\ \A u \in Tasks \ {t} : task'[u] = task[u]
<1> DEFINE v == [task[t] EXCEPT !.pc = pc]
<1>1. /\ v.pc = pc /\ v.p = task[t].p /\ v.doc = task[t].doc
      /\ v.held = task[t].held /\ v.rid = task[t].rid /\ v.moves = task[t].moves
  BY Zenon DEF Inv, TasksOK, Task
<1>2. task' = [task EXCEPT ![t] = v]
  BY Zenon DEF Goto
<1> HIDE DEF v
<1> QED
  BY <1>1, <1>2 DEF Inv, TasksOK

\* The same money, the same facts about it.
LEMMA SameMoney ==
    ASSUME UNCHANGED <<status, forfeited, pay, pid, refund, sent>>
    PROVE  /\ Money => Money'
           /\ Persists
           /\ Unsettled' <=> Unsettled
           /\ Due' <=> Due
           /\ Flagged' <=> Flagged
           /\ \A d : Recorded(d)' <=> Recorded(d)
           /\ \A p : IsStray(p)' <=> IsStray(p)
           /\ \A d : PaymentOf(d)' = PaymentOf(d)
<1>1. /\ Unsettled' <=> Unsettled
      /\ Due' <=> Due
      /\ Flagged' <=> Flagged
      /\ \A d : Recorded(d)' <=> Recorded(d)
      /\ \A p : IsStray(p)' <=> IsStray(p)
      /\ \A d : PaymentOf(d)' = PaymentOf(d)
  BY DEF Unsettled, Due, Flagged, Recorded, IsStray, PaymentOf
<1>2. Money => Money'
  BY <1>1 DEF Money, Unnamed, OrderRefund, StrayRefunds, CountedOrder, SentIsOwed
<1>3. Persists
  BY <1>1 DEF Persists
<1> QED
  BY <1>1, <1>2, <1>3

\* A handler whose registers are v knows what they say.
LEMMA KnowsOf ==
    ASSUME NEW u \in Tasks, NEW v, task'[u] = v, Knows(v)'
    PROVE  Knows(task[u])'
BY DEF Knows, SettleKnows, EngineKnows, Recorded, Flagged, Due, Unsettled, IsStray, PaymentOf

\* What a handler knows persists where no payment is refused.
LEMMA StillKnows ==
    ASSUME Kept, OrderRefund', Exact = Payments, Persists, NEW v \in Task, Fits(v), Knows(v)
    PROVE  Knows(v)'
<1>1. ~Flagged /\ ~Flagged'
  BY DEF Flagged
<1>2. v.pc \in SettlePcs => v.p \in Exact
  BY DEF Fits, FitsAt
<1>3. Unsettled' => ~Recorded(OrderDoc)'
  BY <1>1 DEF OrderRefund, Due
<1>4. SettleKnows(v)'
  BY <1>1, <1>2, <1>3 DEF Knows, SettleKnows, Persists, SettlePcs
<1>5. v.doc \in Docs
  BY DEF Task
<1>6. Recorded(v.doc) => Recorded(v.doc)'
  BY <1>5 DEF Persists
<1>7. Recorded(v.doc) => PaymentOf(v.doc)' = PaymentOf(v.doc)
  BY <1>1 DEF Persists, PaymentOf, Kept, Money, OrderRefund, Due
<1>8. EngineKnows(v)'
  BY <1>1, <1>6, <1>7 DEF Knows, EngineKnows, Persists, RunnerPcs
<1> QED
  BY <1>4, <1>8 DEF Knows

\* One handler moves: the others are not there, or rely only on what persists.
LEMMA StepKept ==
    ASSUME Apart, Inv, Kept, NEW t \in Tasks, \A u \in Tasks \ {t} : task'[u] = task[u],
           Knows(task[t])', Money', Exact = Payments => Persists
    PROVE  Kept'
<1>1. ASSUME NEW u \in Tasks PROVE Knows(task[u])'
  <2>1. CASE u = t
    BY <2>1
  <2>2. CASE u # t
    <3>1. Exact = Payments /\ Persists
      BY <2>2 DEF Apart
    <3>2. task[u] \in Task /\ Fits(task[u]) /\ Knows(task[u]) /\ task'[u] = task[u]
      BY <2>2 DEF Inv, TasksOK, Kept
    <3>3. ASSUME NEW v, v = task[u] PROVE Knows(v)'
      BY <3>1, <3>2, <3>3, StillKnows DEF Money
    <3> QED
      BY <3>2, <3>3, KnowsOf
  <2> QED
    BY <2>1, <2>2
<1> QED
  BY <1>1 DEF Kept

\* A handler that ends.
LEMMA EndKept ==
    ASSUME Apart, Inv, Kept, NEW t \in Tasks, task' = [task EXCEPT ![t] = Idle],
           Money', Exact = Payments => Persists
    PROVE  Kept'
<1>1. task'[t] = Idle /\ \A u \in Tasks \ {t} : task'[u] = task[u]
  BY DEF Inv, TasksOK
<1>2. Knows(task[t])'
  BY <1>1, IdleFields DEF Knows, SettleKnows, EngineKnows, RunnerPcs
<1> QED
  BY <1>1, <1>2, StepKept

\* A handler that ends without touching the money.
LEMMA QuietEnd ==
    ASSUME Apart, Inv, Kept, NEW t \in Tasks, task' = [task EXCEPT ![t] = Idle],
           UNCHANGED <<status, forfeited, pay, pid, refund, sent>>
    PROVE  Kept'
BY EndKept, SameMoney DEF Kept

\* A handler that goes on without touching the money.
LEMMA QuietStep ==
    ASSUME Apart, Inv, Kept, NEW t \in Tasks, \A u \in Tasks \ {t} : task'[u] = task[u],
           UNCHANGED <<status, forfeited, pay, pid, refund, sent>>,
           NEW v, task'[t] = v, Knows(v)
    PROVE  Kept'
<1>1. Knows(v)'
  BY SameMoney DEF Knows, SettleKnows, EngineKnows, RunnerPcs
<1>2. Knows(task[t])'
  BY <1>1, KnowsOf
<1> QED
  BY <1>2, SameMoney, StepKept DEF Kept

-----------------------------------------------------------------------------
\* Steps that leave the money where it is.

\* recordUncountedPayment.
LEMMA DuplicateKept ==
    ASSUME Apart, Inv, Kept, NEW t \in Tasks, Duplicate(t)
    PROVE  Kept'
<1> DEFINE d == <<"duplicate_payment", task[t].p>>
           v == [task[t] EXCEPT !.pc = "strayCheck", !.doc = d]
<1>1. task[t] \in Task /\ Knows(task[t]) /\ task[t].pc = "duplicate"
  BY DEF Inv, TasksOK, Kept, Duplicate, At
<1>2. v.pc = "strayCheck" /\ v.p = task[t].p /\ v.doc = d
  BY <1>1, Zenon DEF Task
<1>3. task' = [task EXCEPT ![t] = v] \/ Finish(t)
  BY Zenon DEF Duplicate
<1>4. UNCHANGED <<status, forfeited, pay, pid, refund, sent>>
  BY DEF Duplicate, orderVars, gwVars
<1> HIDE DEF v
<1>5. Knows(v)
  BY <1>1, <1>2 DEF Knows, SettleKnows, EngineKnows, RunnerPcs
<1>6. CASE task' = [task EXCEPT ![t] = v]
  BY <1>4, <1>5, <1>6, QuietStep DEF Inv, TasksOK
<1>7. CASE Finish(t)
  BY <1>4, <1>7, QuietEnd DEF Finish
<1> QED
  BY <1>3, <1>6, <1>7

\* A handler that goes on at pc or returns, leaving the money.
LEMMA GotoIfKept ==
    ASSUME Apart, Inv, Kept, NEW t \in Tasks, NEW pc \in Pcs, NEW cond, GotoIf(t, cond, pc),
           UNCHANGED <<status, forfeited, pay, pid, refund, sent>>,
           cond => \A v : /\ v.pc = pc /\ v.p = task[t].p /\ v.doc = task[t].doc
                          /\ v.held = task[t].held /\ v.rid = task[t].rid /\ v.moves = task[t].moves
                         => Knows(v)
    PROVE  Kept'
<1>1. CASE cond
  <2>1. Goto(t, pc)
    BY <1>1 DEF GotoIf
  <2> QED
    BY <1>1, <2>1, GotoFields, QuietStep
<1>2. CASE ~cond
  BY <1>2, QuietEnd DEF GotoIf, Finish
<1> QED
  BY <1>1, <1>2

\* The reads of rejectOrderPayment and recordStrayPayment, and the read of the settings.
LEMMA ReadKept ==
    ASSUME Apart, Inv, Kept, NEW t \in Tasks,
           AlreadyFlagged(t) \/ StrayCheck(t) \/ OrderCheck(t) \/ Settings(t)
    PROVE  Kept'
<1>1. Knows(task[t]) /\ {"flag", "orderCheck", "strayInsert", "claim"} \subseteq Pcs
  BY DEF Kept, Pcs, SettlePcs, RefundPcs
<1>2. UNCHANGED <<status, forfeited, pay, pid, refund, sent>>
  BY DEF AlreadyFlagged, StrayCheck, OrderCheck, Settings, orderVars, gwVars
<1>3. CASE AlreadyFlagged(t)
  BY <1>1, <1>2, <1>3, GotoIfKept DEF AlreadyFlagged, At, Knows, SettleKnows, EngineKnows, RunnerPcs
<1>4. CASE StrayCheck(t)
  BY <1>1, <1>2, <1>4, GotoIfKept DEF StrayCheck, At, Knows, SettleKnows, EngineKnows, RunnerPcs
<1>5. CASE OrderCheck(t)
  BY <1>1, <1>2, <1>5, GotoIfKept DEF OrderCheck, At, Knows, SettleKnows, EngineKnows, RunnerPcs
<1>6. CASE Settings(t)
  <2>1. Goto(t, "claim")
    BY <1>6 DEF Settings
  <2>2. ASSUME NEW v, v.pc = "claim", v.doc = task[t].doc PROVE Knows(v)
    BY <1>1, <1>6, <2>2 DEF Settings, At, Knows, SettleKnows, EngineKnows, RunnerPcs
  <2> QED
    BY <1>1, <1>2, <2>1, <2>2, GotoFields, QuietStep
<1> QED
  BY <1>3, <1>4, <1>5, <1>6

\* confirmCapturedPayment's answer from the gateway.
LEMMA ConfirmKept ==
    ASSUME Apart, Inv, Kept, NEW t \in Tasks, Confirm(t)
    PROVE  Kept'
<1> DEFINE a == IF gw[task[t].p] = "captured" THEN task[t].p ELSE NoPayment
           h == [task[t].held EXCEPT !.amt = a]
           v == [task[t] EXCEPT !.pc = "alreadyFlagged", !.held = h]
<1>1. task[t] \in Task /\ Knows(task[t]) /\ task[t].pc = "confirm" /\ "moveRead" \in Pcs
  BY DEF Inv, TasksOK, Kept, Confirm, At, Pcs, SettlePcs
<1>2. UNCHANGED <<status, forfeited, pay, pid, refund, sent>>
  BY DEF Confirm, orderVars
<1>3. CASE task[t].p \in Exact
  <2>1. Goto(t, "moveRead")
    BY <1>3 DEF Confirm
  <2>2. ASSUME NEW w, w.pc = "moveRead", w.p = task[t].p, w.moves = task[t].moves PROVE Knows(w)
    BY <1>1, <1>3, <2>2 DEF Knows, SettleKnows, EngineKnows, RunnerPcs
  <2> QED
    BY <1>1, <1>2, <2>1, <2>2, GotoFields, QuietStep
<1>4. CASE task[t].p \notin Exact
  <2>1. task' = [task EXCEPT ![t] = v]
    BY <1>4 DEF Confirm
  <2>2. v.pc = "alreadyFlagged" /\ v.p = task[t].p
    BY <1>1, Zenon DEF Task
  <2> HIDE DEF v
  <2>3. Knows(v)
    BY <1>4, <2>2 DEF Knows, SettleKnows, EngineKnows, RunnerPcs
  <2> QED
    BY <1>2, <2>1, <2>3, QuietStep DEF Inv, TasksOK
<1> QED
  BY <1>3, <1>4

\* moveRefundToStray's read: a handler that finds nothing to move may count its payment.
LEMMA MoveReadKept ==
    ASSUME Apart, Inv, Kept, NEW t \in Tasks, MoveRead(t)
    PROVE  Kept'
<1> DEFINE d == <<"refused_payment", pid>>
           m == task[t].moves + 1
           copies == [task[t] EXCEPT !.pc = "moveCopy", !.doc = d, !.held = refund[OrderDoc], !.moves = m]
           goesOn == [task[t] EXCEPT !.pc = "count", !.doc = OrderDoc, !.held = EmptyRefund, !.moves = 0]
           moves == /\ Unsettled /\ pid \notin {NoPayment, task[t].p}
                    /\ Recorded(OrderDoc) /\ refund[OrderDoc].amt # NoPayment
                    /\ task[t].moves < MaxMoves
<1>1. task[t] \in Task /\ Knows(task[t]) /\ task[t].pc = "moveRead" /\ Money
  BY DEF Inv, TasksOK, Kept, MoveRead, At
<1>2. UNCHANGED <<status, forfeited, pay, pid, refund, sent>>
  BY DEF MoveRead, orderVars, gwVars
<1>3. task[t].p \in Exact /\ task[t].moves < MaxMoves
  BY <1>1, BoundsAssumption DEF Knows, SettleKnows
<1>4. CASE moves
  <2>1. task' = [task EXCEPT ![t] = copies]
    BY <1>4, Zenon DEF MoveRead, Recorded
  <2>2. copies.pc = "moveCopy" /\ copies.p = task[t].p /\ copies.doc = d /\ copies.held = refund[OrderDoc]
    BY <1>1, Zenon DEF Task
  <2>3. Flagged
    BY <1>1, <1>4 DEF Money, OrderRefund, Due
  <2> HIDE DEF copies
  <2>4. Knows(copies)
    BY <1>3, <2>2, <2>3 DEF Knows, SettleKnows, EngineKnows, RunnerPcs
  <2> QED
    BY <1>2, <2>1, <2>4, QuietStep DEF Inv, TasksOK
<1>5. CASE ~moves
  <2>1. task' = [task EXCEPT ![t] = goesOn]
    BY <1>5, Zenon DEF MoveRead, Recorded
  <2>2. goesOn.pc = "count" /\ goesOn.p = task[t].p
    BY <1>1, Zenon DEF Task
  <2>3. Unsettled => ~Recorded(OrderDoc)
    BY <1>1, <1>3, <1>5, PaymentsAssumption DEF Money, OrderRefund, Due, Flagged
  <2> HIDE DEF goesOn, moves
  <2>4. Knows(goesOn)
    BY <1>3, <2>2, <2>3 DEF Knows, SettleKnows, EngineKnows, RunnerPcs
  <2> QED
    BY <1>2, <2>1, <2>4, QuietStep DEF Inv, TasksOK
<1> QED
  BY <1>4, <1>5

\* Verification and the payment webhook, up to their first await.
LEMMA StartSettleKept ==
    ASSUME Apart, Inv, Kept, NEW t \in Tasks, NEW p \in Payments, NEW src \in {"verify", "webhook"},
           StartSettle(t, p, src)
    PROVE  Kept'
<1> DEFINE v(pc) == [Idle EXCEPT !.pc = pc, !.src = src, !.p = p]
<1>1. \A pc \in Pcs : v(pc).pc = pc /\ v(pc).p = p /\ v(pc).moves = 0
  BY EmptyTypes, Zenon DEF Task, Idle
<1>2. \/ task' = task
      \/ task' = [task EXCEPT ![t] = v("confirm")]
      \/ task' = [task EXCEPT ![t] = v("duplicate")] /\ ~Unsettled /\ pid # p
  BY Zenon DEF StartSettle, Begin
<1>3. UNCHANGED <<status, forfeited, pay, pid, refund, sent>>
  BY DEF StartSettle, orderVars, gwVars
<1> HIDE DEF v
<1>4. "confirm" \in Pcs /\ "duplicate" \in Pcs
  BY DEF Pcs, SettlePcs
<1>5. Knows(v("confirm"))
  BY <1>1, <1>4 DEF Knows, SettleKnows, EngineKnows, RunnerPcs
<1>6. ~Unsettled /\ pid # p => Knows(v("duplicate"))
  BY <1>1, <1>4 DEF Knows, SettleKnows, EngineKnows, RunnerPcs
<1>7. CASE task' = task
  BY <1>3, <1>7, QuietStep DEF Kept, Inv, TasksOK
<1>8. CASE task' = [task EXCEPT ![t] = v("confirm")]
  BY <1>3, <1>5, <1>8, QuietStep DEF Inv, TasksOK
<1>9. CASE task' = [task EXCEPT ![t] = v("duplicate")] /\ ~Unsettled /\ pid # p
  BY <1>3, <1>6, <1>9, QuietStep DEF Inv, TasksOK
<1> QED
  BY <1>2, <1>7, <1>8, <1>9

\* A document with a refund is of a payment.
LEMMA RecordedPayment ==
    ASSUME Inv, Money, NEW d \in Docs, Recorded(d)
    PROVE  PaymentOf(d) \in Payments
BY DocTypes, PaymentsAssumption DEF PaymentOf, Money, OrderRefund, CountedOrder, Due, Flagged

\* findRefundTarget: what it finds carries a refund of the event's payment.
LEMMA TargetOfPayment ==
    ASSUME Inv, Money, NEW r \in RefundIds, NEW S \in RefundTargets(r), NEW d \in S
    PROVE  d \in Docs /\ Recorded(d) /\ r[1] = PaymentOf(d)
<1> DEFINE byId == {x \in Docs : refund[x].id = r /\ PaymentOf(x) \in {r[1], NoPayment}}
           inFlight(skew) == {x \in Docs : /\ PaymentOf(x) = r[1]
                                           /\ refund[x].status = "processing" /\ refund[x].id = NoRefund
                                           /\ skew \/ r[2] > refund[x].since}
           first(D) == IF OrderDoc \in D THEN {OrderDoc} ELSE D
<1>1. S \in {first(byId), first(inFlight(TRUE)), first(inFlight(FALSE))}
  <2>1. S \in IF byId # {} THEN {first(byId)} ELSE {first(inFlight(TRUE)), first(inFlight(FALSE))}
    BY Zenon DEF RefundTargets
  <2> HIDE DEF byId, inFlight, first
  <2> QED
    BY <2>1
<1>2. ASSUME d \in byId PROVE d \in Docs /\ Recorded(d) /\ r[1] = PaymentOf(d)
  <2>1. r # NoRefund
    BY PaymentsAssumption DEF RefundIds, NoRefund
  <2>2. d \in Docs /\ Recorded(d) /\ PaymentOf(d) \in {r[1], NoPayment}
    BY <1>2, <2>1 DEF Money, Unnamed
  <2> QED
    BY <2>2, RecordedPayment, PaymentsAssumption
<1>3. ASSUME d \in inFlight(TRUE) \/ d \in inFlight(FALSE)
      PROVE  d \in Docs /\ Recorded(d) /\ r[1] = PaymentOf(d)
  BY <1>3 DEF Recorded
<1> HIDE DEF byId, inFlight
<1> QED
  BY <1>1, <1>2, <1>3

\* handleRefundWebhook, up to its write.
LEMMA RefundWebhookKept ==
    ASSUME Apart, Inv, Kept, NEW t \in Tasks, NEW r \in RefundIds, RefundWebhook(t, r)
    PROVE  Kept'
<1>1. PICK S \in RefundTargets(r) :
         IF S = {} THEN ackedRefund' = ackedRefund \union {r} /\ UNCHANGED task
         ELSE /\ \E d \in S : task' = [task EXCEPT ![t] = [Idle EXCEPT
                   !.pc = IF gwRefund[r] = "processed" THEN "processed" ELSE "failedEvent",
                   !.src = "refundWebhook", !.doc = d, !.rid = r]]
              /\ UNCHANGED ackedRefund
  BY DEF RefundWebhook
<1>2. UNCHANGED <<status, forfeited, pay, pid, refund, sent>> /\ Money
  BY DEF RefundWebhook, orderVars, gwVars, Kept
<1>3. CASE S = {}
  <2>1. task' = task
    BY <1>1, <1>3
  <2> QED
    BY <1>2, <2>1, QuietStep DEF Kept, Inv, TasksOK
<1>4. CASE S # {}
  <2>1. PICK d \in S : task' = [task EXCEPT ![t] = [Idle EXCEPT
                   !.pc = IF gwRefund[r] = "processed" THEN "processed" ELSE "failedEvent",
                   !.src = "refundWebhook", !.doc = d, !.rid = r]]
    BY <1>1, <1>4
  <2> DEFINE pc == IF gwRefund[r] = "processed" THEN "processed" ELSE "failedEvent"
             v == [Idle EXCEPT !.pc = pc, !.src = "refundWebhook", !.doc = d, !.rid = r]
  <2>2. task' = [task EXCEPT ![t] = v] /\ pc \in {"processed", "failedEvent"}
    BY <2>1
  <2> HIDE DEF pc
  <2>3. v.pc = pc /\ v.doc = d /\ v.rid = r
    BY EmptyTypes, Zenon DEF Task
  <2> HIDE DEF v
  <2>4. Recorded(d) /\ r[1] = PaymentOf(d)
    BY <1>2, TargetOfPayment
  <2>5. Knows(v)
    BY <2>2, <2>3, <2>4 DEF Knows, SettleKnows, EngineKnows, RunnerPcs
  <2> QED
    BY <1>2, <2>2, <2>5, QuietStep DEF Inv, TasksOK
<1> QED
  BY <1>3, <1>4

\* retryRefund, up to its claim.
LEMMA RetryRefundKept ==
    ASSUME Apart, Inv, Kept, NEW t \in Tasks, NEW d \in Docs, RetryRefund(t, d)
    PROVE  Kept'
<1> DEFINE pc == IF d = OrderDoc THEN "settings" ELSE "claim"
           v == [Idle EXCEPT !.pc = pc, !.src = "admin", !.doc = d]
<1>1. task' = [task EXCEPT ![t] = v]
  BY Zenon DEF RetryRefund
<1>2. pc \in {"settings", "claim"} /\ (pc = "settings" <=> d = OrderDoc)
  OBVIOUS
<1> HIDE DEF pc
<1>3. v.pc = pc /\ v.doc = d
  BY EmptyTypes, Zenon DEF Task
<1> HIDE DEF v
<1>4. Recorded(d)
  BY DEF RetryRefund, Retryable, Stale, Recorded
<1>5. Knows(v)
  BY <1>2, <1>3, <1>4 DEF Knows, SettleKnows, EngineKnows, RunnerPcs, Kept, Money, OrderRefund
<1> QED
  BY <1>1, <1>5, QuietStep DEF RetryRefund, orderVars, gwVars, Inv, TasksOK

-----------------------------------------------------------------------------
\* Steps that change the order but not where its money is.

\* The order goes on, settled or not as before, and a refund that is due stays due.
LEMMA OrderGoesOn ==
    ASSUME Money, CountedOrder', Unsettled' <=> Unsettled, Due => Due', UNCHANGED <<pid, refund, sent>>
    PROVE  /\ Money' /\ Persists
           /\ \A v : Knows(v) => Knows(v)'
<1>1. /\ Flagged' <=> Flagged
      /\ \A d : Recorded(d)' <=> Recorded(d)
      /\ \A p : IsStray(p)' <=> IsStray(p)
      /\ \A d : PaymentOf(d)' = PaymentOf(d)
  BY DEF Flagged, Recorded, IsStray, PaymentOf
<1>2. Money'
  BY <1>1 DEF Money, Unnamed, OrderRefund, StrayRefunds, SentIsOwed
<1>3. Persists
  BY <1>1 DEF Persists
<1>4. ASSUME NEW v, Knows(v) PROVE Knows(v)'
  <2>1. SettleKnows(v)'
    BY <1>1, <1>4 DEF Knows, SettleKnows
  <2>2. EngineKnows(v)'
    BY <1>1, <1>4 DEF Knows, EngineKnows, RunnerPcs
  <2> QED
    BY <2>1, <2>2 DEF Knows
<1> QED
  BY <1>2, <1>3, <1>4

\* Razorpay, the kitchen and payment statuses without money: no handler moves.
LEMMA WorldKept ==
    ASSUME Kept, Inv,
           \/ \E p \in Payments : Pay(p) \/ AutoCapture(p)
           \/ \E r \in RefundIds : GatewaySettles(r)
           \/ Accept \/ StartPreparing \/ Deliver
           \/ PaymentFailedEvent \/ BadSignature \/ RetryPayment
           \/ UNCHANGED vars
    PROVE  Kept'
<1>1. Money
  BY DEF Kept
<1>2. UNCHANGED <<pid, refund, sent, task>>
  BY DEF Pay, AutoCapture, GatewaySettles, Accept, StartPreparing, Deliver,
         PaymentFailedEvent, BadSignature, RetryPayment, orderVars, gwVars, vars
<1>3. (Unsettled' <=> Unsettled) /\ CountedOrder' /\ (Due => Due')
  BY <1>1, <1>2 DEF Pay, AutoCapture, GatewaySettles, Accept, StartPreparing, Deliver,
         PaymentFailedEvent, BadSignature, RetryPayment, orderVars, gwVars, vars,
         Unsettled, UNCOUNTABLE, Money, CountedOrder, Due
<1>4. Money' /\ \A v : Knows(v) => Knows(v)'
  BY <1>1, <1>2, <1>3, OrderGoesOn
<1>5. ASSUME NEW u \in Tasks PROVE Knows(task[u])'
  BY <1>2, <1>4, KnowsOf DEF Kept
<1> QED
  BY <1>4, <1>5 DEF Kept

\* onOrderCancelled: the refund it starts is due.
LEMMA CancelKept ==
    ASSUME Apart, Inv, Kept, NEW byCustomer \in BOOLEAN, Cancel(byCustomer)
    PROVE  Kept'
<1> DEFINE v == [Idle EXCEPT !.pc = "settings", !.src = "cancel"]
<1>1. Money /\ UNCHANGED <<pay, pid, refund, sent>>
  BY DEF Kept, Cancel, gwVars
<1>2. (Unsettled' <=> Unsettled) /\ CountedOrder' /\ (Due => Due')
  BY <1>1 DEF Cancel, Unsettled, UNCOUNTABLE, Money, CountedOrder, Due
<1>3. Money' /\ Persists /\ \A w : Knows(w) => Knows(w)'
  BY <1>1, <1>2, OrderGoesOn
<1>4. CASE pay = "paid" /\ ~forfeited'
  <2>1. PICK t \in Tasks : task' = [task EXCEPT ![t] = v]
    BY <1>4 DEF Cancel
  <2>2. Due'
    BY <1>4 DEF Cancel, Due, Unsettled, UNCOUNTABLE
  <2>3. v.pc = "settings" /\ v.doc = OrderDoc
    BY EmptyTypes, IdleFields, Zenon DEF Task
  <2> HIDE DEF v
  <2>4. Knows(v)'
    BY <2>2, <2>3 DEF Knows, SettleKnows, EngineKnows, RunnerPcs
  <2>5. task'[t] = v /\ \A u \in Tasks \ {t} : task'[u] = task[u]
    BY <2>1 DEF Inv, TasksOK
  <2>6. Knows(task[t])'
    BY <2>4, <2>5, KnowsOf
  <2> QED
    BY <1>3, <2>5, <2>6, StepKept
<1>5. CASE ~(pay = "paid" /\ ~forfeited')
  <2>1. task' = task
    BY <1>5 DEF Cancel
  <2>2. ASSUME NEW u \in Tasks PROVE Knows(task[u])'
    BY <1>3, <2>1, KnowsOf DEF Kept
  <2> QED
    BY <1>3, <2>2 DEF Kept
<1> QED
  BY <1>4, <1>5

\* Handlers that die leave the money where it is.
LEMMA FaultKept ==
    ASSUME Apart, Inv, Kept, Crash \/ \E t \in Tasks : HandlerError(t)
    PROVE  Kept'
<1>1. UNCHANGED <<status, forfeited, pay, pid, refund, sent>>
  BY DEF Crash, HandlerError, orderVars, gwVars
<1>2. CASE Crash
  <2>1. Money'
    BY <1>1, SameMoney DEF Kept
  <2>2. ASSUME NEW u \in Tasks PROVE Knows(task[u])'
    <3>1. task'[u] = Idle
      BY <1>2 DEF Crash
    <3> QED
      BY <3>1, IdleFields DEF Knows, SettleKnows, EngineKnows, RunnerPcs
  <2> QED
    BY <2>1, <2>2 DEF Kept
<1>3. ASSUME NEW t \in Tasks, HandlerError(t) PROVE Kept'
  BY <1>1, <1>3, QuietEnd DEF HandlerError, Drop
<1> QED
  BY <1>2, <1>3

-----------------------------------------------------------------------------
\* Steps that write a refund.

\* A write of a refund that is on record, or that the order owes.
LEMMA WriteMoney ==
    ASSUME Inv, Money, NEW d \in Docs, NEW r \in Refund, r.status # "none",
           Recorded(d) \/ (d = OrderDoc /\ Due),
           d = OrderDoc => /\ r.id = NoRefund \/ r.id[1] = pid
                           /\ r.amt # NoPayment \/ refund[OrderDoc].amt = NoPayment \/ Due,
           refund' = [refund EXCEPT ![d] = r], UNCHANGED <<status, forfeited, pay, pid, sent>>
    PROVE  /\ Money' /\ Persists /\ Recorded(d)'
           /\ (Due => Due') /\ (Flagged => Flagged')
           /\ PaymentOf(d)' = PaymentOf(d)
<1>1. /\ refund'[d] = r
      /\ \A x \in Docs \ {d} : refund'[x] = refund[x]
      /\ OrderDoc \in Docs
      /\ \A k \in Kinds, p \in Payments : <<k, p>> \in Docs /\ <<k, p>> # OrderDoc
  BY DocTypes DEF Inv, TypeOK
<1>2. /\ Unsettled' <=> Unsettled
      /\ Due' <=> Due
      /\ PaymentOf(d)' = PaymentOf(d)
  BY DEF Unsettled, Due, PaymentOf
<1>3. \A x \in Docs : Recorded(x)' <=> Recorded(x) \/ x = d
  BY <1>1 DEF Recorded
<1>4. \A k \in Kinds, p \in Payments : Recorded(<<k, p>>)' <=> Recorded(<<k, p>>)
  BY <1>1, <1>3
<1>5. \A p \in Payments : IsStray(p)' <=> IsStray(p)
  BY <1>4 DEF IsStray, Recorded
<1>6. Flagged => Flagged'
  BY <1>1, <1>2, <1>3 DEF Flagged
<1>7. Unnamed' /\ CountedOrder'
  BY <1>1, <1>2, <1>3 DEF Money, Unnamed, CountedOrder
<1>8. OrderRefund'
  BY <1>1, <1>2, <1>3, <1>6 DEF Money, OrderRefund
<1>9. StrayRefunds'
  BY <1>2, <1>4 DEF Money, StrayRefunds, Kinds
<1>10. SentIsOwed'
  BY <1>2, <1>5, <1>6 DEF Money, SentIsOwed
<1>11. Persists
  BY <1>2, <1>3 DEF Persists
<1> QED
  BY <1>1, <1>2, <1>3, <1>6, <1>7, <1>8, <1>9, <1>10, <1>11 DEF Money

\* A handler of the refund engine that writes its refund goes on or returns.
LEMMA WriteKept ==
    ASSUME Apart, Inv, Kept, NEW t \in Tasks, NEW r \in Refund, r.status # "none", Recorded(task[t].doc),
           task[t].doc = OrderDoc => /\ r.id = NoRefund \/ r.id[1] = pid
                                     /\ r.amt # NoPayment \/ refund[OrderDoc].amt = NoPayment,
           refund' = [refund EXCEPT ![task[t].doc] = r], UNCHANGED <<status, forfeited, pay, pid, sent>>,
           \/ task' = [task EXCEPT ![t] = Idle]
           \/ task[t].pc = "amount" /\ Goto(t, "send")
           \/ task[t].pc = "saveId" /\ Goto(t, "processed")
           \/ Goto(t, "refunded")
    PROVE  Kept'
<1>1. Knows(task[t]) /\ Money /\ {"send", "processed", "refunded"} \subseteq Pcs
  BY DEF Kept, Pcs, RefundPcs, RunnerPcs
<1>2. PICK d \in Docs : d = task[t].doc
  BY DEF Inv, TasksOK, Task
<1>3. Money' /\ Persists /\ Recorded(d)' /\ PaymentOf(d)' = PaymentOf(d)
  BY <1>1, <1>2, WriteMoney
<1>4. CASE task' = [task EXCEPT ![t] = Idle]
  BY <1>3, <1>4, EndKept
<1>5. ASSUME NEW pc \in {"send", "processed", "refunded"}, Goto(t, pc),
             pc = "send" => task[t].pc = "amount", pc = "processed" => task[t].pc = "saveId"
      PROVE  Kept'
  <2>1. /\ task'[t].pc = pc /\ task'[t].p = task[t].p /\ task'[t].doc = d
        /\ task'[t].rid = task[t].rid
        /\ \A u \in Tasks \ {t} : task'[u] = task[u]
    BY <1>1, <1>2, <1>5, GotoFields
  <2>2. SettleKnows(task[t])'
    BY <2>1 DEF SettleKnows
  <2>3. /\ pc = "send" => task[t].p = PaymentOf(d)
        /\ pc = "processed" => task[t].rid[1] = PaymentOf(d)
    BY <1>1, <1>2, <1>5 DEF Knows, EngineKnows, RunnerPcs
  <2>4. EngineKnows(task[t])'
    BY <1>3, <2>1, <2>3 DEF EngineKnows, RunnerPcs, Recorded, PaymentOf
  <2> QED
    BY <1>3, <2>1, <2>2, <2>4, StepKept DEF Knows
<1> QED
  BY <1>4, <1>5

\* runRefund's writes after the claim, and those of the refund webhook.
LEMMA EngineKept ==
    ASSUME Apart, Inv, Kept, NEW t \in Tasks,
           Amount(t) \/ SaveId(t) \/ SendFailed(t) \/ Processed(t) \/ FailedEvent(t)
    PROVE  Kept'
<1> DEFINE d == task[t].doc
           amount == [refund[d] EXCEPT !.amt = task[t].held.amt]
           id == [refund[d] EXCEPT !.id = task[t].rid]
           failed == [refund[d] EXCEPT !.status = "failed"]
           failedId == [refund[d] EXCEPT !.status = "failed", !.id = task[t].rid]
           processed == [refund[d] EXCEPT !.status = "processed", !.id = task[t].rid]
<1>1. d \in Docs /\ refund[d] \in Refund /\ task[t] \in Task /\ Knows(task[t]) /\ Fits(task[t]) /\ Money
  BY DEF Inv, TasksOK, TypeOK, Task, Kept
<1>2. task[t].pc \in {"amount", "saveId", "sendFailed", "processed", "failedEvent"}
  BY DEF Amount, SaveId, SendFailed, Processed, FailedEvent, At
<1>3. /\ Recorded(d)
      /\ task[t].pc \in {"saveId", "processed", "failedEvent"} => task[t].rid[1] = PaymentOf(d)
      /\ task[t].pc = "amount" => task[t].held.amt # NoPayment
  BY <1>1, <1>2 DEF Knows, EngineKnows, RunnerPcs
<1>4. task[t].pc \in {"saveId", "processed", "failedEvent"} => task[t].rid \in MaybeRefund
  BY <1>1 DEF Fits, FitsAt, SentPcs, MaybeRefund
<1>5. task[t].held.amt \in MaybePayment
  BY <1>1 DEF Task, Refund
<1>6. /\ amount \in Refund /\ amount.status = refund[d].status /\ amount.id = refund[d].id
      /\ amount.amt = task[t].held.amt
      /\ failed \in Refund /\ failed.status = "failed" /\ failed.id = refund[d].id /\ failed.amt = refund[d].amt
  BY <1>1, <1>5, Zenon DEF Refund, RefundStatus
<1>7. task[t].rid \in MaybeRefund =>
      /\ id \in Refund /\ id.status = refund[d].status /\ id.id = task[t].rid /\ id.amt = refund[d].amt
      /\ failedId \in Refund /\ failedId.status = "failed" /\ failedId.id = task[t].rid
      /\ failedId.amt = refund[d].amt
      /\ processed \in Refund /\ processed.status = "processed" /\ processed.id = task[t].rid
      /\ processed.amt = refund[d].amt
  BY <1>1, Zenon DEF Refund, RefundStatus
<1>8. UNCHANGED <<status, forfeited, pay, pid, sent>>
  BY DEF Amount, SaveId, SendFailed, Processed, FailedEvent, orderVars, gwVars
<1>9. d = OrderDoc => PaymentOf(d) = pid /\ (refund[d].id = NoRefund \/ refund[d].id[1] = pid)
  BY <1>1 DEF PaymentOf, Money, OrderRefund
<1>10. refund[d].status # "none"
  BY <1>3 DEF Recorded
<1>11. CASE Amount(t)
  <2>1. refund' = [refund EXCEPT ![d] = amount] /\ Goto(t, "send") /\ task[t].pc = "amount"
    BY <1>11, Zenon DEF Amount, At
  <2> HIDE DEF amount
  <2> QED
    BY <1>3, <1>6, <1>8, <1>9, <1>10, <2>1, WriteKept
<1>12. CASE SaveId(t)
  <2>1. refund' = [refund EXCEPT ![d] = id] /\ (Finish(t) \/ Goto(t, "processed")) /\ task[t].pc = "saveId"
    BY <1>12, Zenon DEF SaveId, At, GotoIf
  <2> HIDE DEF id
  <2> QED
    BY <1>3, <1>4, <1>7, <1>8, <1>9, <1>10, <2>1, WriteKept DEF Finish
<1>13. CASE SendFailed(t)
  <2>1. refund' = refund \/ refund' = [refund EXCEPT ![d] = failed]
    BY <1>13, Zenon DEF SendFailed
  <2> HIDE DEF failed
  <2>2. task' = [task EXCEPT ![t] = Idle]
    BY <1>13 DEF SendFailed, Finish
  <2> QED
    BY <1>3, <1>6, <1>8, <1>9, <2>1, <2>2, WriteKept, QuietEnd
<1>14. CASE Processed(t)
  <2>1. refund' = refund \/ refund' = [refund EXCEPT ![d] = processed]
    BY <1>14, Zenon DEF Processed
  <2>2. task[t].pc = "processed" /\ GotoIf(t, d = OrderDoc, "refunded") /\ "refunded" \in Pcs
    BY <1>14 DEF Processed, At, Pcs, RefundPcs
  <2> HIDE DEF processed
  <2>3. task' = [task EXCEPT ![t] = Idle] \/ Goto(t, "refunded")
    BY <2>2 DEF GotoIf, Finish
  <2>4. CASE refund' = [refund EXCEPT ![d] = processed]
    BY <1>3, <1>4, <1>7, <1>8, <1>9, <2>2, <2>3, <2>4, WriteKept
  <2>5. CASE refund' = refund
    <3>1. \A v : v.pc = "refunded" => Knows(v)
      BY DEF Knows, SettleKnows, EngineKnows, RunnerPcs
    <3> QED
      BY <1>8, <2>2, <2>5, <3>1, GotoIfKept
  <2> QED
    BY <2>1, <2>4, <2>5
<1>15. CASE FailedEvent(t)
  <2>1. refund' = refund \/ refund' = [refund EXCEPT ![d] = failedId]
    BY <1>15, Zenon DEF FailedEvent
  <2>2. task[t].pc = "failedEvent" /\ task' = [task EXCEPT ![t] = Idle]
    BY <1>15 DEF FailedEvent, At, Finish
  <2> HIDE DEF failedId
  <2> QED
    BY <1>3, <1>4, <1>7, <1>8, <1>9, <2>1, <2>2, WriteKept, QuietEnd
<1> QED
  BY <1>11, <1>12, <1>13, <1>14, <1>15

\* runRefund's claim: the refund is due, or of a payment owed back.
LEMMA ClaimKept ==
    ASSUME Apart, Inv, Kept, NEW t \in Tasks, Claim(t)
    PROVE  Kept'
<1>0. PICK d \in Docs : d = task[t].doc
  BY DEF Inv, TasksOK, Task
<1> DEFINE p == PaymentOf(d)
           amount == IF refund[d].amt # NoPayment THEN refund[d].amt ELSE p
           h == [task[t].held EXCEPT !.amt = amount]
           v == [task[t] EXCEPT !.pc = "amount", !.p = p, !.held = h]
           r == [refund[d] EXCEPT !.status = "processing", !.id = NoRefund, !.since = sent[p]]
<1>1. refund[d] \in Refund /\ task[t] \in Task /\ Knows(task[t]) /\ Money /\ task[t].pc = "claim"
  BY DEF Inv, TasksOK, TypeOK, Task, Kept, Claim, At
<1>2. UNCHANGED <<status, forfeited, pay, pid, sent>>
  BY DEF Claim, orderVars, gwVars
<1>3. CASE ~Claimable(d)
  BY <1>0, <1>2, <1>3, QuietEnd DEF Claim, Finish
<1>4. CASE Claimable(d)
  <2>1. refund' = [refund EXCEPT ![d] = r] /\ task' = [task EXCEPT ![t] = v]
    BY <1>0, <1>4, Zenon DEF Claim
  <2>2. p # NoPayment
    BY <1>4 DEF Claimable
  <2>3. sent[p] \in 0..MaxRefunds
    <3>1. p \in MaybePayment
      BY <1>1, DocTypes DEF PaymentOf, Inv, TypeOK, MaybePayment
    <3> QED
      BY <2>2, <3>1 DEF Inv, TypeOK, MaybePayment
  <2>4. NoRefund \in MaybeRefund /\ "processing" \in RefundStatus
    BY DEF MaybeRefund, RefundStatus
  <2>5. r \in Refund /\ r.status = "processing" /\ r.id = NoRefund /\ r.amt = refund[d].amt
    BY <1>1, <2>3, <2>4, Zenon DEF Refund
  <2>6. h.amt = amount
    BY <1>1, Zenon DEF Task, Refund
  <2>7. amount # NoPayment
    BY <2>2
  <2> HIDE DEF r, h, amount
  <2>8. v.pc = "amount" /\ v.p = p /\ v.doc = d /\ v.held = h
    BY <1>0, <1>1, Zenon DEF Task
  <2> HIDE DEF v
  <2>9. Recorded(d) \/ (d = OrderDoc /\ Due)
    BY <1>0, <1>1 DEF Knows, EngineKnows, Flagged
  <2>10. d = OrderDoc => r.amt # NoPayment \/ refund[OrderDoc].amt = NoPayment \/ Due
    BY <2>5
  <2>11. Money' /\ Persists /\ Recorded(d)' /\ PaymentOf(d)' = PaymentOf(d)
    BY <1>1, <1>2, <2>1, <2>5, <2>9, <2>10, WriteMoney
  <2>12. task'[t] = v /\ \A u \in Tasks \ {t} : task'[u] = task[u]
    BY <2>1 DEF Inv, TasksOK
  <2>13. SettleKnows(task[t])'
    BY <2>8, <2>12 DEF SettleKnows
  <2>14. EngineKnows(task[t])'
    BY <2>6, <2>7, <2>8, <2>11, <2>12 DEF EngineKnows, RunnerPcs, Recorded, PaymentOf
  <2> QED
    BY <2>11, <2>12, <2>13, <2>14, StepKept DEF Knows
<1> QED
  BY <1>3, <1>4

\* A refund asked of Razorpay is of a payment on record.
LEMMA SentMoney ==
    ASSUME Inv, Money, NEW d \in Docs, Recorded(d), NEW p, p = PaymentOf(d),
           UNCHANGED <<status, forfeited, pay, pid, refund>>,
           \A q \in Payments \ {p} : sent'[q] = sent[q]
    PROVE  Money' /\ Persists /\ Recorded(d)' /\ PaymentOf(d)' = PaymentOf(d)
<1>1. /\ Unsettled' <=> Unsettled
      /\ Due' <=> Due
      /\ Flagged' <=> Flagged
      /\ \A x : Recorded(x)' <=> Recorded(x)
      /\ \A q : IsStray(q)' <=> IsStray(q)
      /\ PaymentOf(d)' = PaymentOf(d)
  BY DEF Unsettled, Due, Flagged, Recorded, IsStray, PaymentOf
<1>2. IsStray(p) \/ (pid = p /\ (Due \/ Flagged))
  <2>1. CASE d = OrderDoc
    BY <2>1 DEF PaymentOf, Money, OrderRefund
  <2>2. CASE d # OrderDoc
    <3>1. PICK k \in Kinds, q \in Payments : d = <<k, q>>
      BY <2>2 DEF Docs, Strays
    <3>2. PaymentOf(d) = q
      BY <2>2, <3>1 DEF PaymentOf
    <3> QED
      BY <3>1, <3>2 DEF IsStray, Recorded
  <2> QED
    BY <2>1, <2>2
<1>3. SentIsOwed'
  BY <1>1, <1>2 DEF Money, SentIsOwed
<1>4. Unnamed' /\ OrderRefund' /\ StrayRefunds' /\ CountedOrder'
  BY <1>1 DEF Money, Unnamed, OrderRefund, StrayRefunds, CountedOrder
<1> QED
  BY <1>1, <1>3, <1>4 DEF Money, Persists

\* runRefund's call of Razorpay, answered or lost.
LEMMA SendKept ==
    ASSUME Apart, Inv, Kept, NEW t \in Tasks, Send(t) \/ SendLost(t)
    PROVE  Kept'
<1>0. PICK d \in Docs : d = task[t].doc
  BY DEF Inv, TasksOK, Task
<1> DEFINE p == task[t].p
           h(s) == [task[t].held EXCEPT !.status = IF s = "processed" THEN s ELSE "processing"]
           saves(s) == [task[t] EXCEPT !.pc = "saveId", !.rid = <<p, sent[p] + 1>>, !.held = h(s)]
           fails == [task[t] EXCEPT !.pc = "sendFailed"]
<1>1. task[t] \in Task /\ Knows(task[t]) /\ Money /\ task[t].pc = "send"
  BY DEF Inv, TasksOK, Kept, Send, SendLost, At
<1>2. Recorded(d) /\ p = PaymentOf(d)
  BY <1>0, <1>1 DEF Knows, EngineKnows, RunnerPcs
<1>3. UNCHANGED <<status, forfeited, pay, pid, refund>>
  BY DEF Send, SendLost, orderVars
<1>4. \A q \in Payments \ {p} : sent'[q] = sent[q]
  <2>1. sent' = sent \/ sent' = [sent EXCEPT ![p] = @ + 1]
    BY DEF Send, SendLost, CreateRefund
  <2> QED
    BY <2>1 DEF Inv, TypeOK
<1>5. (\E s \in {"pending", "processed"} : task' = [task EXCEPT ![t] = saves(s)])
      \/ task' = [task EXCEPT ![t] = fails]
  BY Zenon DEF Send, SendLost, Goto
<1>6. \A s \in {"pending", "processed"} : saves(s).pc = "saveId" /\ saves(s).p = p /\ saves(s).doc = d
                                            /\ saves(s).rid = <<p, sent[p] + 1>>
  BY <1>0, <1>1, Zenon DEF Task
<1>7. fails.pc = "sendFailed" /\ fails.p = p /\ fails.doc = d
  BY <1>0, <1>1, Zenon DEF Task
<1> HIDE DEF h, saves, fails
<1>8. PICK v : /\ task' = [task EXCEPT ![t] = v]
               /\ v.p = p /\ v.doc = d
               /\ v.pc = "sendFailed" \/ (v.pc = "saveId" /\ v.rid = <<p, sent[p] + 1>>)
  BY <1>5, <1>6, <1>7, Zenon
<1>9. Money' /\ Persists /\ Recorded(d)' /\ PaymentOf(d)' = PaymentOf(d)
  <2>1. PICK q : q = p
    OBVIOUS
  <2> QED
    BY <1>1, <1>2, <1>3, <1>4, <2>1, SentMoney
<1>10. task'[t] = v /\ \A u \in Tasks \ {t} : task'[u] = task[u]
  BY <1>8 DEF Inv, TasksOK
<1>11. SettleKnows(task[t])'
  BY <1>8, <1>10 DEF SettleKnows
<1>12. EngineKnows(task[t])'
  BY <1>2, <1>8, <1>9, <1>10 DEF EngineKnows, RunnerPcs, Recorded, PaymentOf
<1> QED
  BY <1>9, <1>10, <1>11, <1>12, StepKept DEF Knows

\* markRefundProcessed's second write: a settled order stays settled.
LEMMA RefundedKept ==
    ASSUME Apart, Inv, Kept, NEW t \in Tasks, Refunded(t)
    PROVE  Kept'
<1>1. Money /\ UNCHANGED <<status, forfeited, pid, refund, sent>>
  BY DEF Kept, Refunded, gwVars
<1>2. (Unsettled' <=> Unsettled) /\ CountedOrder' /\ (Due => Due')
  BY <1>1 DEF Refunded, Unsettled, UNCOUNTABLE, Money, CountedOrder, Due
<1>3. Money' /\ Persists
  BY <1>1, <1>2, OrderGoesOn
<1> QED
  BY <1>3, EndKept DEF Refunded, Finish

-----------------------------------------------------------------------------
\* Steps that move a payment: it is refused, owed back, moved to a stray or counted.

\* rejectOrderPayment flags an unsettled order that carries no refund.
LEMMA FlagMoney ==
    ASSUME Inv, Money, NEW p \in Payments \ Exact, Unsettled, ~Recorded(OrderDoc),
           pay' = "failed", pid' = p, NEW r \in Refund, r.status = "pending", r.amt = p,
           r.id = refund[OrderDoc].id, refund' = [refund EXCEPT ![OrderDoc] = r],
           UNCHANGED <<status, forfeited, sent>>
    PROVE  Money'
<1>1. /\ Unsettled' /\ ~Due /\ ~Due' /\ ~Flagged
      /\ refund'[OrderDoc] = r
      /\ \A x \in Docs \ {OrderDoc} : refund'[x] = refund[x]
  BY DocTypes DEF Inv, TypeOK, Unsettled, UNCOUNTABLE, Due, Flagged
<1>2. r.id = NoRefund
  BY DocTypes DEF Money, Unnamed
<1>3. Recorded(OrderDoc)' /\ Flagged'
  BY <1>1 DEF Recorded, Flagged
<1>4. \A k \in Kinds, q \in Payments : Recorded(<<k, q>>)' <=> Recorded(<<k, q>>)
  BY <1>1, DocTypes DEF Recorded
<1>5. \A q \in Payments : IsStray(q)' <=> IsStray(q)
  BY <1>4 DEF IsStray, Recorded
<1>6. Unnamed'
  BY <1>1, <1>3 DEF Money, Unnamed, Recorded
<1>7. OrderRefund'
  BY <1>1, <1>2, <1>3, PaymentsAssumption DEF OrderRefund
<1>8. StrayRefunds'
  BY <1>1, <1>4 DEF Money, StrayRefunds, Kinds
<1>9. CountedOrder'
  BY <1>1 DEF Money, CountedOrder
<1>10. SentIsOwed'
  BY <1>1, <1>5 DEF Money, SentIsOwed
<1> QED
  BY <1>6, <1>7, <1>8, <1>9, <1>10 DEF Money

\* rejectOrderPayment's write of the order.
LEMMA FlagKept ==
    ASSUME Apart, Inv, Kept, NEW t \in Tasks, Flag(t)
    PROVE  Kept'
<1> DEFINE p == task[t].p
           r == [refund[OrderDoc] EXCEPT !.status = "pending", !.amt = p]
<1>1. Knows(task[t]) /\ Fits(task[t]) /\ Money /\ task[t].pc = "flag" /\ refund[OrderDoc] \in Refund
  BY DocTypes DEF Inv, TasksOK, TypeOK, Kept, Flag, At
<1>2. p \in Payments /\ p \notin Exact
  BY <1>1 DEF Knows, SettleKnows, Fits, FitsAt, SettlePcs
<1>3. r \in Refund /\ r.status = "pending" /\ r.amt = p /\ r.id = refund[OrderDoc].id
  <2>1. p \in MaybePayment
    BY <1>2 DEF MaybePayment
  <2> QED
    BY <1>1, <2>1, Zenon DEF Refund, RefundStatus
<1>4. CASE task[t].held.amt = NoPayment
  <2>1. UNCHANGED <<status, forfeited, pid, refund, sent>> /\ (Unsettled' <=> Unsettled)
    BY <1>4 DEF Flag, Unsettled, UNCOUNTABLE, gwVars
  <2>2. Money' /\ Persists
    BY <1>1, <2>1, OrderGoesOn DEF CountedOrder, Due, Money
  <2> QED
    BY <1>4, <2>2, EndKept DEF Flag, Finish
<1>5. CASE task[t].held.amt # NoPayment /\ Unsettled /\ refund[OrderDoc].status = "none"
  <2>1. pay' = "failed" /\ pid' = p /\ refund' = [refund EXCEPT ![OrderDoc] = r] /\ Finish(t)
    BY <1>5, Zenon DEF Flag
  <2>2. UNCHANGED <<status, forfeited, sent>> /\ ~Recorded(OrderDoc)
    BY <1>5 DEF Flag, gwVars, Recorded
  <2> HIDE DEF r
  <2>3. Money'
    <3>1. PICK q \in Payments \ Exact : q = p
      BY <1>2
    <3> HIDE DEF p
    <3> QED
      BY <1>1, <1>3, <1>5, <2>1, <2>2, <3>1, FlagMoney
  <2>4. Exact # Payments
    BY <1>2
  <2> QED
    BY <2>1, <2>3, <2>4, EndKept DEF Finish
<1>6. CASE task[t].held.amt # NoPayment /\ ~(Unsettled /\ refund[OrderDoc].status = "none")
  <2>1. UNCHANGED <<status, forfeited, pay, pid, refund, sent>> /\ Goto(t, "failOrder") /\ "failOrder" \in Pcs
    BY <1>6 DEF Flag, gwVars, Pcs, SettlePcs
  <2>2. ASSUME NEW v, v.pc = "failOrder", v.p = p PROVE Knows(v)
    BY <1>2, <2>2 DEF Knows, SettleKnows, EngineKnows, RunnerPcs
  <2> QED
    BY <2>1, <2>2, GotoFields, QuietStep
<1> QED
  BY <1>4, <1>5, <1>6

\* rejectOrderPayment, when the order cannot carry the refund.
LEMMA FailOrderKept ==
    ASSUME Apart, Inv, Kept, NEW t \in Tasks, FailOrder(t)
    PROVE  Kept'
<1> DEFINE d == <<"refused_payment", task[t].p>>
           v == [task[t] EXCEPT !.pc = "strayCheck", !.doc = d, !.held = EmptyRefund]
<1>1. task[t] \in Task /\ Knows(task[t]) /\ Money /\ task[t].pc = "failOrder"
  BY DEF Inv, TasksOK, Kept, FailOrder, At
<1>2. task' = [task EXCEPT ![t] = v]
  BY Zenon DEF FailOrder
<1>3. v.pc = "strayCheck" /\ v.p = task[t].p /\ v.doc = d
  BY <1>1, Zenon DEF Task
<1> HIDE DEF v
<1>4. UNCHANGED <<status, forfeited, pid, refund, sent>> /\ (Unsettled' <=> Unsettled)
  BY DEF FailOrder, Unsettled, UNCOUNTABLE, gwVars
<1>5. Money' /\ Persists /\ \A w : Knows(w) => Knows(w)'
  BY <1>1, <1>4, OrderGoesOn DEF CountedOrder, Due, Money
<1>6. PICK w : w = v
  OBVIOUS
<1>7. Knows(w)
  BY <1>1, <1>3, <1>6 DEF Knows, SettleKnows, EngineKnows, RunnerPcs
<1>8. task'[t] = w /\ \A u \in Tasks \ {t} : task'[u] = task[u]
  BY <1>2, <1>6 DEF Inv, TasksOK
<1>9. Knows(task[t])'
  BY <1>5, <1>7, <1>8, KnowsOf
<1> QED
  BY <1>5, <1>8, <1>9, StepKept

\* A stray appears for a payment the order does not count.
LEMMA StrayMoney ==
    ASSUME Inv, Money, NEW p \in Payments, NEW k \in Kinds, NEW r \in Refund, r.status # "none",
           k = "refused_payment" => p \notin Exact /\ ~Recorded(<<"duplicate_payment", p>>),
           k = "duplicate_payment" => ~Unsettled /\ pid # p /\ ~Recorded(<<"refused_payment", p>>),
           refund' = [refund EXCEPT ![<<k, p>>] = r], UNCHANGED <<status, forfeited, pay, pid, sent>>
    PROVE  Money' /\ Persists /\ Recorded(<<k, p>>)'
<1>1. /\ <<k, p>> \in Docs /\ <<k, p>> # OrderDoc
      /\ refund'[<<k, p>>] = r
      /\ \A x \in Docs \ {<<k, p>>} : refund'[x] = refund[x]
  BY DocTypes DEF Inv, TypeOK
<1>2. (Unsettled' <=> Unsettled) /\ (Due' <=> Due)
  BY DEF Unsettled, Due
<1>3. \A x \in Docs : Recorded(x)' <=> Recorded(x) \/ x = <<k, p>>
  BY <1>1 DEF Recorded
<1>4. Flagged' <=> Flagged
  BY <1>1, <1>2, <1>3, DocTypes DEF Flagged
<1>5. \A q \in Payments : IsStray(q) => IsStray(q)'
  <2> SUFFICES ASSUME NEW q \in Payments, NEW j \in Kinds, refund[<<j, q>>].status # "none"
               PROVE  refund'[<<j, q>>].status # "none"
    BY DEF IsStray
  <2> QED
    BY <1>3, DocTypes DEF Recorded
<1>6. Unnamed' /\ CountedOrder'
  BY <1>1, <1>2, <1>3 DEF Money, Unnamed, CountedOrder
<1>7. OrderRefund'
  BY <1>1, <1>2, <1>3, <1>4, DocTypes DEF Money, OrderRefund
<1>8. StrayRefunds'
  <2> SUFFICES ASSUME NEW q \in Payments
               PROVE  /\ Recorded(<<"refused_payment", q>>)' => q \notin Exact
                      /\ Recorded(<<"duplicate_payment", q>>)' =>
                            ~Unsettled' /\ pid' # q /\ ~Recorded(<<"refused_payment", q>>)'
    BY DEF StrayRefunds
  <2>1. /\ Recorded(<<"refused_payment", q>>)' <=>
             Recorded(<<"refused_payment", q>>) \/ (k = "refused_payment" /\ p = q)
        /\ Recorded(<<"duplicate_payment", q>>)' <=>
             Recorded(<<"duplicate_payment", q>>) \/ (k = "duplicate_payment" /\ p = q)
    BY <1>3, DocTypes DEF Kinds
  <2> QED
    BY <1>2, <2>1 DEF Money, StrayRefunds
<1>9. SentIsOwed'
  BY <1>2, <1>4, <1>5 DEF Money, SentIsOwed
<1>10. Persists
  BY <1>2, <1>3 DEF Persists
<1> QED
  BY <1>1, <1>3, <1>6, <1>7, <1>8, <1>9, <1>10 DEF Money

\* recordStrayPayment's upsert.
LEMMA StrayInsertKept ==
    ASSUME Apart, Inv, Kept, NEW t \in Tasks, StrayInsert(t)
    PROVE  Kept'
<1> DEFINE r == [EmptyRefund EXCEPT !.status = "pending", !.amt = task[t].p]
<1>1. Knows(task[t]) /\ Fits(task[t]) /\ Money /\ task[t].pc = "strayInsert"
  BY DEF Inv, TasksOK, Kept, StrayInsert, At
<1>2. PICK p \in Payments : p = task[t].p
  BY <1>1 DEF Fits, FitsAt, SettlePcs
<1>3. PICK k \in Kinds :
        /\ task[t].doc = <<k, p>>
        /\ k = "refused_payment" => p \notin Exact /\ ~Recorded(<<"duplicate_payment", p>>)
        /\ k = "duplicate_payment" => ~Unsettled /\ pid # p /\ ~Recorded(<<"refused_payment", p>>)
  <2>1. p \notin Exact => ~Recorded(<<"refused_payment", p>>) /\ ~Recorded(<<"duplicate_payment", p>>)
    BY <1>1, <1>2 DEF Knows, SettleKnows, IsStray, Recorded, Kinds
  <2>2. p \in Exact => ~Recorded(<<"refused_payment", p>>)
    BY <1>1 DEF Money, StrayRefunds
  <2>3. CASE task[t].doc = <<"duplicate_payment", p>> /\ ~Unsettled /\ pid # p
    BY <2>1, <2>2, <2>3 DEF Kinds
  <2>4. CASE task[t].doc = <<"refused_payment", p>> /\ p \notin Exact
    BY <2>1, <2>4 DEF Kinds
  <2> QED
    BY <1>1, <1>2, <2>3, <2>4 DEF Knows, SettleKnows
<1>4. r \in Refund /\ r.status = "pending"
  <2>1. p \in MaybePayment
    BY DEF MaybePayment
  <2> QED
    BY <1>2, <2>1, EmptyTypes, Zenon DEF Refund, RefundStatus
<1>5. refund' = refund \/ refund' = [refund EXCEPT ![<<k, p>>] = r]
  BY <1>3, Zenon DEF StrayInsert
<1> HIDE DEF r
<1>6. UNCHANGED <<status, forfeited, pay, pid, sent>> /\ task' = [task EXCEPT ![t] = Idle]
  BY DEF StrayInsert, orderVars, gwVars, Finish
<1>7. CASE refund' = refund
  BY <1>6, <1>7, QuietEnd
<1>8. CASE refund' = [refund EXCEPT ![<<k, p>>] = r]
  <2>1. Money' /\ Persists
    BY <1>1, <1>3, <1>4, <1>6, <1>8, StrayMoney
  <2> QED
    BY <1>6, <2>1, EndKept
<1> QED
  BY <1>5, <1>7, <1>8

\* moveRefundToStray's copy: the refused payment is owed back by a stray too.
LEMMA MoveCopyKept ==
    ASSUME Apart, Inv, Kept, NEW t \in Tasks, MoveCopy(t)
    PROVE  Kept'
<1>1. /\ task[t] \in Task /\ Knows(task[t]) /\ Fits(task[t]) /\ Money /\ task[t].pc = "moveCopy"
      /\ "moveClear" \in Pcs
  BY DEF Inv, TasksOK, Kept, MoveCopy, At, Pcs, SettlePcs
<1>2. /\ Flagged /\ task[t].doc = <<"refused_payment", pid>> /\ task[t].held = refund[OrderDoc]
      /\ task[t].p \in Exact
  BY <1>1 DEF Knows, SettleKnows
<1>3. PICK p \in Payments \ Exact : p = pid
  BY <1>2 DEF Flagged
<1>4. refund' = [refund EXCEPT ![<<"refused_payment", p>>] = refund[OrderDoc]]
  BY <1>2, <1>3 DEF MoveCopy
<1>5. refund[OrderDoc] \in Refund /\ refund[OrderDoc].status # "none"
  BY <1>2, DocTypes DEF Inv, TypeOK, Flagged, Recorded
<1>6. ~Recorded(<<"duplicate_payment", p>>) /\ "refused_payment" \in Kinds
  BY <1>1, <1>2 DEF Money, StrayRefunds, Flagged, Kinds
<1>7. UNCHANGED <<status, forfeited, pay, pid, sent>> /\ Goto(t, "moveClear")
  BY DEF MoveCopy, orderVars, gwVars
<1>8. Money' /\ Persists /\ Recorded(<<"refused_payment", p>>)'
  <2>1. ASSUME NEW k \in Kinds, k = "refused_payment"
        PROVE  Money' /\ Persists /\ Recorded(<<k, p>>)'
    BY <1>1, <1>3, <1>4, <1>5, <1>6, <1>7, <2>1, StrayMoney
  <2> QED
    BY <1>6, <2>1
<1>9. /\ task'[t].pc = "moveClear" /\ task'[t].p = task[t].p /\ task'[t].doc = task[t].doc
      /\ task'[t].held = task[t].held
      /\ \A u \in Tasks \ {t} : task'[u] = task[u]
  BY <1>1, <1>7, GotoFields
<1>10. refund'[OrderDoc] = refund[OrderDoc] /\ Flagged'
  BY <1>2, <1>4, <1>6, <1>7, DocTypes DEF Flagged, Recorded, Unsettled, Inv, TypeOK
<1>11. SettleKnows(task[t])'
  BY <1>2, <1>3, <1>7, <1>8, <1>9, <1>10 DEF SettleKnows, Recorded
<1>12. EngineKnows(task[t])'
  BY <1>9 DEF EngineKnows, RunnerPcs
<1> QED
  BY <1>8, <1>9, <1>11, <1>12, StepKept DEF Knows

\* moveRefundToStray's clear: nothing moved between, so the copy is exact.
LEMMA MoveClearKept ==
    ASSUME Apart, Inv, Kept, NEW t \in Tasks, MoveClear(t)
    PROVE  Kept'
<1> DEFINE v == [task[t] EXCEPT !.pc = "count", !.doc = OrderDoc, !.held = EmptyRefund, !.moves = 0]
<1>1. task[t] \in Task /\ Knows(task[t]) /\ Money /\ task[t].pc = "moveClear"
  BY DEF Inv, TasksOK, Kept, MoveClear, At
<1>2. /\ Flagged /\ task[t].doc = <<"refused_payment", pid>> /\ task[t].held = refund[OrderDoc]
      /\ task[t].p \in Exact /\ Recorded(task[t].doc)
  BY <1>1 DEF Knows, SettleKnows
<1>3. PICK p \in Payments \ Exact : p = pid
  BY <1>2 DEF Flagged
<1>4. refund' = [refund EXCEPT ![OrderDoc] = EmptyRefund] /\ task' = [task EXCEPT ![t] = v]
  <2>1. task[t].doc[2] = pid
    BY <1>2
  <2> QED
    BY <1>2, <2>1, Zenon DEF MoveClear, Flagged
<1>5. UNCHANGED <<status, forfeited, pay, pid, sent>>
  BY DEF MoveClear, orderVars, gwVars
<1>6. v.pc = "count" /\ v.p = task[t].p
  BY <1>1, Zenon DEF Task
<1> HIDE DEF v
<1>7. /\ refund'[OrderDoc] = EmptyRefund
      /\ \A x \in Docs \ {OrderDoc} : refund'[x] = refund[x]
  BY <1>4, DocTypes DEF Inv, TypeOK
<1>8. ~Recorded(OrderDoc)' /\ refund'[OrderDoc].id = NoRefund
  BY <1>7 DEF Recorded, EmptyRefund
<1>9. (Unsettled' <=> Unsettled) /\ Unsettled /\ ~Due /\ ~Due'
  BY <1>2, <1>5 DEF Unsettled, Due, Flagged
<1>10. \A k \in Kinds, q \in Payments : Recorded(<<k, q>>)' <=> Recorded(<<k, q>>)
  BY <1>7, DocTypes DEF Recorded
<1>11. \A q \in Payments : IsStray(q)' <=> IsStray(q)
  BY <1>10 DEF IsStray, Recorded
<1>12. Unnamed'
  BY <1>1, <1>7, <1>8 DEF Money, Unnamed, Recorded
<1>13. OrderRefund' /\ CountedOrder'
  BY <1>1, <1>5, <1>8, <1>9 DEF Money, OrderRefund, CountedOrder
<1>14. StrayRefunds'
  BY <1>1, <1>5, <1>9, <1>10 DEF Money, StrayRefunds, Kinds
<1>15. SentIsOwed'
  <2>1. IsStray(p)
    BY <1>2, <1>3 DEF IsStray, Recorded, Kinds
  <2> QED
    BY <1>1, <1>3, <1>5, <1>9, <1>11, <2>1 DEF Money, SentIsOwed
<1>16. Money' /\ Exact # Payments
  BY <1>3, <1>12, <1>13, <1>14, <1>15 DEF Money
<1>17. task'[t] = v /\ \A u \in Tasks \ {t} : task'[u] = task[u]
  BY <1>4 DEF Inv, TasksOK
<1>18. SettleKnows(task[t])' /\ EngineKnows(task[t])'
  BY <1>2, <1>6, <1>8, <1>17 DEF SettleKnows, EngineKnows, RunnerPcs
<1> QED
  BY <1>16, <1>17, <1>18, StepKept DEF Knows

\* recordCapturedPayment's write: the order carries no refund then.
LEMMA CountMoney ==
    ASSUME Inv, Money, NEW p \in Exact, Unsettled, ~Recorded(OrderDoc), pay' = "paid", pid' = p,
           UNCHANGED <<status, forfeited, refund, sent>>
    PROVE  Money' /\ Persists /\ (status = "cancelled" => Due')
<1>1. /\ ~Unsettled' /\ ~Due /\ ~Flagged /\ ~forfeited
      /\ \A d : Recorded(d)' <=> Recorded(d)
      /\ \A q : IsStray(q)' <=> IsStray(q)
  BY DEF Unsettled, UNCOUNTABLE, Due, Flagged, Recorded, IsStray, Money, CountedOrder
<1>2. Unnamed' /\ OrderRefund' /\ CountedOrder'
  BY <1>1, DocTypes DEF Money, Unnamed, OrderRefund, CountedOrder
<1>3. StrayRefunds'
  BY <1>1 DEF Money, StrayRefunds
<1>4. SentIsOwed'
  BY <1>1 DEF Money, SentIsOwed
<1>5. Persists
  BY <1>1 DEF Persists
<1> QED
  BY <1>1, <1>2, <1>3, <1>4, <1>5 DEF Money, Due

\* recordCapturedPayment.
LEMMA CountKept ==
    ASSUME Apart, Inv, Kept, NEW t \in Tasks, Count(t)
    PROVE  Kept'
<1> DEFINE d == <<"duplicate_payment", task[t].p>>
           v == [task[t] EXCEPT !.pc = "strayCheck", !.doc = d]
<1>1. /\ task[t] \in Task /\ Knows(task[t]) /\ Fits(task[t]) /\ Money /\ task[t].pc = "count"
      /\ "settings" \in Pcs
  BY DEF Inv, TasksOK, Kept, Count, At, Pcs, RefundPcs
<1>2. task[t].p \in Exact /\ task[t].doc = OrderDoc /\ (Unsettled => ~Recorded(OrderDoc))
  BY <1>1 DEF Knows, SettleKnows, Fits, FitsAt
<1>3. UNCHANGED <<status, forfeited, refund, sent>>
  BY DEF Count, gwVars
<1>4. CASE Unsettled
  <2>1. pay' = "paid" /\ pid' = task[t].p /\ GotoIf(t, status = "cancelled", "settings")
    BY <1>4 DEF Count
  <2>2. Money' /\ Persists /\ (status = "cancelled" => Due')
    <3>1. PICK p \in Exact : p = task[t].p
      BY <1>2
    <3> QED
      BY <1>1, <1>2, <1>3, <1>4, <2>1, <3>1, CountMoney
  <2>3. CASE status = "cancelled"
    <3>1. Goto(t, "settings")
      BY <2>1, <2>3 DEF GotoIf
    <3>2. task'[t].pc = "settings" /\ task'[t].doc = OrderDoc /\ \A u \in Tasks \ {t} : task'[u] = task[u]
      BY <1>1, <1>2, <3>1, GotoFields
    <3>3. SettleKnows(task[t])' /\ EngineKnows(task[t])'
      BY <2>2, <2>3, <3>2 DEF SettleKnows, EngineKnows, RunnerPcs
    <3> QED
      BY <2>2, <3>2, <3>3, StepKept DEF Knows
  <2>4. CASE status # "cancelled"
    BY <2>1, <2>2, <2>4, EndKept DEF GotoIf, Finish
  <2> QED
    BY <2>3, <2>4
<1>5. CASE ~Unsettled
  <2>1. UNCHANGED <<pay, pid>>
    BY <1>5 DEF Count
  <2>2. CASE pid # task[t].p
    <3>1. task' = [task EXCEPT ![t] = v]
      BY <1>5, <2>2, Zenon DEF Count
    <3>2. v.pc = "strayCheck" /\ v.p = task[t].p /\ v.doc = d
      BY <1>1, Zenon DEF Task
    <3> HIDE DEF v
    <3>3. Knows(v)
      BY <1>5, <2>2, <3>2 DEF Knows, SettleKnows, EngineKnows, RunnerPcs
    <3> QED
      BY <1>3, <2>1, <3>1, <3>3, QuietStep DEF Inv, TasksOK
  <2>3. CASE pid = task[t].p
    BY <1>3, <1>5, <2>1, <2>3, QuietEnd DEF Count, Finish
  <2> QED
    BY <2>2, <2>3
<1> QED
  BY <1>4, <1>5

-----------------------------------------------------------------------------
\* The invariant of the specification.

LEMMA KeptInit == Init => Kept
<1> SUFFICES ASSUME Init PROVE Kept
  OBVIOUS
<1>1. /\ Unsettled /\ status = "placed" /\ ~forfeited /\ ~Due
      /\ \A d \in Docs : ~Recorded(d) /\ refund[d].id = NoRefund
      /\ \A q \in Payments : sent[q] = 0
  BY DEF Init, Unsettled, UNCOUNTABLE, Due, Recorded, EmptyRefund
<1>2. Money
  BY <1>1, DocTypes DEF Money, Unnamed, OrderRefund, StrayRefunds, CountedOrder, SentIsOwed, Kinds
<1>3. ASSUME NEW u \in Tasks PROVE Knows(task[u])
  <2>1. task[u] = Idle
    BY DEF Init
  <2> QED
    BY <2>1, IdleFields DEF Knows, SettleKnows, EngineKnows, RunnerPcs
<1> QED
  BY <1>2, <1>3 DEF Kept

LEMMA KeptNext ==
    ASSUME Apart, Inv, Kept, [Next]_vars
    PROVE  Kept'
<1>1. CASE \/ \E p \in Payments : Pay(p) \/ AutoCapture(p)
           \/ \E r \in RefundIds : GatewaySettles(r)
           \/ Accept \/ StartPreparing \/ Deliver
           \/ PaymentFailedEvent \/ BadSignature \/ RetryPayment
           \/ UNCHANGED vars
  BY <1>1, WorldKept
<1>2. CASE \E byCustomer \in BOOLEAN : Cancel(byCustomer)
  BY <1>2, CancelKept
<1>3. CASE \E t \in Tasks, p \in Payments : Verify(t, p) \/ Webhook(t, p)
  BY <1>3, StartSettleKept DEF Verify, Webhook
<1>4. CASE \E t \in Tasks, r \in RefundIds : RefundWebhook(t, r)
  BY <1>4, RefundWebhookKept
<1>5. CASE \E t \in Tasks, d \in Docs : RetryRefund(t, d)
  BY <1>5, RetryRefundKept
<1>6. ASSUME NEW t \in Tasks, SettleStep(t) PROVE Kept'
  BY <1>6, DuplicateKept, ConfirmKept, ReadKept, FlagKept, FailOrderKept, StrayInsertKept,
     MoveReadKept, MoveCopyKept, MoveClearKept, CountKept DEF SettleStep
<1>7. ASSUME NEW t \in Tasks, RefundStep(t) PROVE Kept'
  BY <1>7, ReadKept, ClaimKept, EngineKept, SendKept, RefundedKept DEF RefundStep
<1>8. CASE (\E t \in Tasks : SendLost(t) \/ HandlerError(t)) \/ Crash
  BY <1>8, SendKept, FaultKept
<1> QED
  BY <1>1, <1>2, <1>3, <1>4, <1>5, <1>6, <1>7, <1>8 DEF Next

LEMMA KeptAlways ==
    ASSUME Apart
    PROVE  Spec => [](Inv /\ Kept)
<1>1. Inv /\ Kept /\ [Next]_vars => Kept'
  BY KeptNext
<1> QED
  BY <1>1, KeptInit, Invariance, PTL DEF Spec

\* recordStrayPayment's promise, whatever is paid, refused, retried or lost: one record of what
\* is owed back of a payment, and none of the payment the order counts.
THEOREM OneRecordOfAPayment ==
    ASSUME Apart
    PROVE  Spec => []OneRecordPerPayment
<1>1. Inv /\ Kept => OneRecordPerPayment
  BY DEF Kept, Money, StrayRefunds, CountedOrder, OneRecordPerPayment, Counted, IsStray, Recorded, Kinds
<1> QED
  BY <1>1, KeptAlways, PTL

\* moveRefundToStray's promise: a settled order carries no refund of a payment it superseded.
THEOREM RefundIsOfThePayment ==
    ASSUME Apart
    PROVE  Spec => []RefundOfOwnPayment
<1>1. Inv /\ Kept => RefundOfOwnPayment
  BY DEF Kept, Money, OrderRefund, RefundOfOwnPayment
<1> QED
  BY <1>1, KeptAlways, PTL

\* However cancellations, settlements, refunds, crashes and lost answers follow one another, the
\* payment of an order still open, or forfeited by its customer, is never sent back.
THEOREM LiveOrderPaymentStays ==
    ASSUME Apart
    PROVE  Spec => []LiveOrderKeepsItsMoney
<1>1. Inv /\ Kept => LiveOrderKeepsItsMoney
  <2> SUFFICES ASSUME Inv, Kept, ~Unsettled, status # "cancelled" \/ forfeited PROVE sent[pid] = 0
    BY DEF LiveOrderKeepsItsMoney
  <2>1. pid \in Exact /\ pid \in Payments
    BY PaymentsAssumption DEF Kept, Money, CountedOrder
  <2>2. ~IsStray(pid) /\ ~Due /\ ~Flagged
    BY <2>1 DEF Kept, Money, StrayRefunds, IsStray, Recorded, Kinds, Due, Flagged
  <2>3. sent[pid] \in Nat
    BY <2>1, BoundsAssumption DEF Inv, TypeOK
  <2> QED
    BY <2>1, <2>2, <2>3 DEF Kept, Money, SentIsOwed
<1> QED
  BY <1>1, KeptAlways, PTL

-----------------------------------------------------------------------------
\* The refinement of MoneyBook: every step counts a payment, owes one, returns one, closes the
\* order, or leaves the book as it is.

\* What the invariant says of a payment's fate.
LEMMA FateFacts ==
    ASSUME Inv, Kept, NEW p \in Payments
    PROVE  /\ ~(Counted(p) /\ Owed(p))
           /\ sent[p] > 0 => Owed(p) \/ (Counted(p) /\ Due)
           /\ Returned(p) => sent[p] > 0
<1>1. ~(Counted(p) /\ Owed(p))
  BY DEF Kept, Money, StrayRefunds, CountedOrder, Counted, Owed, IsStray, Recorded, Kinds
<1>2. sent[p] > 0 => Owed(p) \/ (Counted(p) /\ Due)
  BY DEF Kept, Money, SentIsOwed, Counted, Owed, Due, Flagged, Recorded
<1>3. Returned(p) => sent[p] > 0
  <2> SUFFICES ASSUME NEW n \in 1..MaxRefunds, gwRefund[<<p, n>>] = "processed" PROVE sent[p] > 0
    BY DEF Returned
  <2>1. ~(n > sent[p]) /\ sent[p] \in Nat
    BY BoundsAssumption DEF Inv, Unsent, TypeOK
  <2> QED
    BY <2>1, BoundsAssumption
<1> QED
  BY <1>1, <1>2, <1>3

\* The payments whose standing changes are those whose fate changes.
LEMMA SameFate ==
    ASSUME \A q \in Payments : /\ Counted(q)' <=> Counted(q)
                               /\ Owed(q)' <=> Owed(q)
                               /\ Returned(q)' <=> Returned(q)
    PROVE  fate' = fate
BY DEF fate

LEMMA OneFate ==
    ASSUME NEW p \in Payments, NEW f,
           \A q \in Payments \ {p} : /\ Counted(q)' <=> Counted(q)
                                     /\ Owed(q)' <=> Owed(q)
                                     /\ Returned(q)' <=> Returned(q),
           fate'[p] = f
    PROVE  fate' = [fate EXCEPT ![p] = f]
<1>1. /\ fate = [q \in Payments |-> fate[q]]
      /\ fate' = [q \in Payments |-> fate'[q]]
  BY DEF fate
<1>2. \A q \in Payments \ {p} : fate'[q] = fate[q]
  BY DEF fate
<1> QED
  BY <1>1, <1>2

\* The order's own state in the book.
LEMMA SameOrder == UNCHANGED <<status, forfeited>> => order' = order
BY DEF order

\* A step that leaves the records where they are leaves the book.
LEMMA SameBook ==
    ASSUME Unsettled' <=> Unsettled, UNCHANGED <<pid, gwRefund>>, order' = order,
           \A k \in Kinds, q \in Payments : Recorded(<<k, q>>)' <=> Recorded(<<k, q>>),
           Unsettled => (Recorded(OrderDoc)' <=> Recorded(OrderDoc))
    PROVE  UNCHANGED Book!bookVars
<1>1. ASSUME NEW q \in Payments
      PROVE  (Counted(q)' <=> Counted(q)) /\ (Owed(q)' <=> Owed(q)) /\ (Returned(q)' <=> Returned(q))
  <2>1. IsStray(q)' <=> IsStray(q)
    BY DEF IsStray, Recorded
  <2>2. (Counted(q)' <=> Counted(q)) /\ (Returned(q)' <=> Returned(q))
    BY DEF Counted, Returned
  <2>3. Owed(q)' <=> Owed(q)
    BY <2>1 DEF Owed, Recorded
  <2> QED
    BY <2>2, <2>3
<1> QED
  BY <1>1, SameFate DEF Book!bookVars

\* A refund is created or paid out for a payment that is to go back.
LEMMA ReturnBook ==
    ASSUME Inv, Kept, NEW p \in Payments, Owed(p) \/ (Counted(p) /\ Due),
           UNCHANGED <<status, forfeited, pay, pid, refund>>,
           \A q \in Payments \ {p} : Returned(q)' <=> Returned(q),
           Returned(p) => Returned(p)'
    PROVE  Book!BookNext \/ UNCHANGED Book!bookVars
<1>1. order' = order
  BY SameOrder
<1>2. \A q \in Payments : (Counted(q)' <=> Counted(q)) /\ (Owed(q)' <=> Owed(q))
  BY DEF Counted, Owed, IsStray, Unsettled
<1>3. CASE Returned(p)' <=> Returned(p)
  BY <1>1, <1>2, <1>3, SameFate DEF Book!bookVars
<1>4. CASE Returned(p)' /\ ~Returned(p)
  <2>1. CASE Counted(p) /\ Due
    <3>1. fate[p] = "counted" /\ fate'[p] = "refunded" /\ order = "cancelled"
      BY <1>2, <1>4, <2>1 DEF fate, order, Due
    <3>2. fate' = [fate EXCEPT ![p] = "refunded"]
      BY <1>2, <3>1, OneFate
    <3>3. Book!RefundCounted(p)
      BY <1>1, <3>1, <3>2 DEF Book!RefundCounted
    <3> QED
      BY <3>3 DEF Book!BookNext
  <2>2. CASE Owed(p)
    <3>1. ~Counted(p)
      BY <2>2, FateFacts
    <3>2. fate[p] = "owed" /\ fate'[p] = "returned"
      BY <1>2, <1>4, <2>2, <3>1 DEF fate
    <3>3. fate' = [fate EXCEPT ![p] = "returned"]
      BY <1>2, <3>2, OneFate
    <3>4. Book!ReturnOwed(p)
      BY <1>1, <3>2, <3>3 DEF Book!ReturnOwed
    <3> QED
      BY <3>4 DEF Book!BookNext
  <2> QED
    BY <2>1, <2>2
<1> QED
  BY <1>3, <1>4

\* A payment is counted, or owed back, that was neither.
LEMMA SettleBook ==
    ASSUME Inv, Kept, NEW p \in Payments, UNCHANGED <<status, forfeited, gwRefund>>,
           \A q \in Payments \ {p} : (Counted(q)' <=> Counted(q)) /\ (Owed(q)' <=> Owed(q)),
           \/ Counted(p)' /\ ~Owed(p) /\ Unsettled
           \/ Owed(p)' /\ ~Counted(p) /\ ~Counted(p)'
    PROVE  Book!BookNext \/ UNCHANGED Book!bookVars
<1>1. order' = order
  BY SameOrder
<1>2. \A q \in Payments : Returned(q)' <=> Returned(q)
  BY DEF Returned
<1>3. ASSUME ~Counted(p), ~Owed(p) PROVE ~Returned(p) /\ fate[p] = "unseen"
  BY <1>3, FateFacts DEF fate
<1>4. CASE Counted(p)' /\ ~Owed(p) /\ Unsettled
  <2>1. \A q \in Payments : ~Counted(q)
    BY <1>4 DEF Counted
  <2>2. \A q \in Payments : fate[q] \notin {"counted", "refunded"}
    BY <2>1 DEF fate
  <2>3. fate[p] = "unseen" /\ fate'[p] = "counted"
    BY <1>2, <1>3, <1>4, <2>1 DEF fate
  <2>4. fate' = [fate EXCEPT ![p] = "counted"]
    BY <1>2, <2>3, OneFate
  <2>5. Book!CountPayment(p)
    BY <1>1, <2>2, <2>3, <2>4 DEF Book!CountPayment
  <2> QED
    BY <2>5 DEF Book!BookNext
<1>5. CASE Owed(p)' /\ ~Counted(p) /\ ~Counted(p)' /\ ~Owed(p)
  <2>1. fate[p] = "unseen" /\ fate'[p] = "owed"
    BY <1>2, <1>3, <1>5 DEF fate
  <2>2. fate' = [fate EXCEPT ![p] = "owed"]
    BY <1>2, <2>1, OneFate
  <2>3. Book!OwePayment(p)
    BY <1>1, <2>1, <2>2 DEF Book!OwePayment
  <2> QED
    BY <2>3 DEF Book!BookNext
<1>6. CASE Owed(p)' /\ ~Counted(p) /\ ~Counted(p)' /\ Owed(p)
  BY <1>1, <1>2, <1>6, SameFate DEF Book!bookVars
<1> QED
  BY <1>4, <1>5, <1>6

\* The reads, the answers of the gateway, deaths of handlers and statuses without money.
LEMMA QuietBook ==
    ASSUME Inv, Unsettled' <=> Unsettled, UNCHANGED <<pid, refund, gwRefund>>, order' = order
    PROVE  UNCHANGED Book!bookVars
BY SameBook DEF Recorded

LEMMA WorldBook ==
    ASSUME Inv,
           \/ \E p \in Payments : Pay(p) \/ AutoCapture(p)
           \/ Accept \/ StartPreparing \/ Deliver
           \/ PaymentFailedEvent \/ BadSignature \/ RetryPayment
           \/ \E t \in Tasks, p \in Payments : Verify(t, p) \/ Webhook(t, p)
           \/ \E t \in Tasks, r \in RefundIds : RefundWebhook(t, r)
           \/ \E t \in Tasks, d \in Docs : RetryRefund(t, d)
           \/ \E t \in Tasks : HandlerError(t)
           \/ Crash
    PROVE  UNCHANGED Book!bookVars
<1>1. UNCHANGED <<pid, refund, gwRefund>> /\ (Unsettled' <=> Unsettled)
  BY DEF Pay, AutoCapture, Accept, StartPreparing, Deliver, PaymentFailedEvent, BadSignature, RetryPayment,
         Verify, Webhook, StartSettle, RefundWebhook, RetryRefund, HandlerError, Crash,
         orderVars, gwVars, Unsettled, UNCOUNTABLE
<1>2. \/ UNCHANGED <<status, forfeited>>
      \/ status # "cancelled" /\ status' # "cancelled"
  BY DEF Pay, AutoCapture, Accept, StartPreparing, Deliver, PaymentFailedEvent, BadSignature, RetryPayment,
         Verify, Webhook, StartSettle, RefundWebhook, RetryRefund, HandlerError, Crash, orderVars
<1>3. order' = order
  BY <1>2 DEF order
<1> QED
  BY <1>1, <1>3, QuietBook

LEMMA HandlerBook ==
    ASSUME Inv, NEW t \in Tasks,
           \/ Duplicate(t) \/ Confirm(t) \/ AlreadyFlagged(t) \/ FailOrder(t)
           \/ StrayCheck(t) \/ OrderCheck(t) \/ MoveRead(t) \/ Settings(t) \/ Refunded(t)
    PROVE  UNCHANGED Book!bookVars
<1>1. UNCHANGED <<status, forfeited, pid, refund, gwRefund>> /\ (Unsettled' <=> Unsettled)
  BY DEF Duplicate, Confirm, AlreadyFlagged, FailOrder, StrayCheck, OrderCheck, MoveRead, Settings, Refunded,
         orderVars, gwVars, Unsettled, UNCOUNTABLE
<1> QED
  BY <1>1, SameOrder, QuietBook

\* A cancellation closes the order.
LEMMA CancelBook ==
    ASSUME Inv, NEW byCustomer \in BOOLEAN, Cancel(byCustomer)
    PROVE  Book!BookNext
<1>1. UNCHANGED <<pay, pid, refund, gwRefund>> /\ status # "cancelled" /\ status' = "cancelled"
  BY DEF Cancel, gwVars
<1>2. fate' = fate
  BY <1>1, SameFate DEF Counted, Owed, IsStray, Unsettled, Returned
<1>3. Book!CloseOrder
  BY <1>1, <1>2 DEF Book!CloseOrder, order
<1> QED
  BY <1>3 DEF Book!BookNext

\* The refund engine writes only records that are there, or that a counted payment gets.
LEMMA EngineBook ==
    ASSUME Inv, Kept, NEW t \in Tasks,
           Claim(t) \/ Amount(t) \/ SaveId(t) \/ SendFailed(t) \/ Processed(t) \/ FailedEvent(t)
    PROVE  UNCHANGED Book!bookVars
<1>0. PICK d \in Docs : d = task[t].doc
  BY DEF Inv, TasksOK, Task
<1> DEFINE claimed == [refund[d] EXCEPT !.status = "processing", !.id = NoRefund, !.since = sent[PaymentOf(d)]]
           amount == [refund[d] EXCEPT !.amt = task[t].held.amt]
           id == [refund[d] EXCEPT !.id = task[t].rid]
           failed == [refund[d] EXCEPT !.status = "failed"]
           failedId == [refund[d] EXCEPT !.status = "failed", !.id = task[t].rid]
           processed == [refund[d] EXCEPT !.status = "processed", !.id = task[t].rid]
<1>1. refund[d] \in Refund /\ Knows(task[t])
  BY DEF Inv, TypeOK, Kept
<1>2. task[t].pc \in {"claim", "amount", "saveId", "sendFailed", "processed", "failedEvent"}
  BY DEF Claim, Amount, SaveId, SendFailed, Processed, FailedEvent, At
<1>3. Recorded(d) \/ (d = OrderDoc /\ ~Unsettled)
  BY <1>0, <1>1, <1>2 DEF Knows, EngineKnows, RunnerPcs, Due, Flagged
<1>4. CASE Claim(t)
  <2>1. refund' = refund \/ refund' = [refund EXCEPT ![d] = claimed]
    BY <1>0, <1>4, Zenon DEF Claim
  <2>2. claimed.status = "processing"
    BY <1>1, Zenon DEF Refund
  <2> HIDE DEF claimed
  <2>3. \A x \in Docs : Recorded(x)' <=> Recorded(x) \/ (x = OrderDoc /\ d = OrderDoc /\ Recorded(x)')
    BY <1>3, <2>1, <2>2 DEF Recorded, Inv, TypeOK
  <2>4. UNCHANGED <<status, forfeited, pid, gwRefund>> /\ (Unsettled' <=> Unsettled)
    BY <1>4 DEF Claim, orderVars, gwVars, Unsettled
  <2>5. Unsettled => (Recorded(OrderDoc)' <=> Recorded(OrderDoc))
    BY <1>3, <2>3, DocTypes
  <2>6. \A k \in Kinds, q \in Payments : Recorded(<<k, q>>)' <=> Recorded(<<k, q>>)
    BY <2>3, DocTypes
  <2> QED
    BY <2>4, <2>5, <2>6, SameBook, SameOrder
<1>5. CASE Amount(t) \/ SaveId(t) \/ SendFailed(t) \/ Processed(t) \/ FailedEvent(t)
  <2>1. refund[d].status # "none"
    <3>1. task[t].pc \in {"amount", "saveId", "sendFailed", "processed", "failedEvent"}
      BY <1>5 DEF Amount, SaveId, SendFailed, Processed, FailedEvent, At
    <3> QED
      BY <1>0, <1>1, <3>1 DEF Knows, EngineKnows, RunnerPcs, Recorded
  <2>2. \/ refund' = refund
        \/ refund' = [refund EXCEPT ![d] = amount]
        \/ refund' = [refund EXCEPT ![d] = id]
        \/ refund' = [refund EXCEPT ![d] = failed]
        \/ refund' = [refund EXCEPT ![d] = failedId]
        \/ refund' = [refund EXCEPT ![d] = processed]
    BY <1>0, <1>5, Zenon DEF Amount, SaveId, SendFailed, Processed, FailedEvent
  <2>3. /\ amount.status = refund[d].status /\ id.status = refund[d].status
        /\ failed.status = "failed" /\ failedId.status = "failed" /\ processed.status = "processed"
    BY <1>1, Zenon DEF Refund
  <2> HIDE DEF amount, id, failed, failedId, processed
  <2>4. \A x \in Docs : Recorded(x)' <=> Recorded(x)
    BY <2>1, <2>2, <2>3 DEF Recorded, Inv, TypeOK
  <2>5. UNCHANGED <<status, forfeited, pid, gwRefund>> /\ (Unsettled' <=> Unsettled)
    BY <1>5 DEF Amount, SaveId, SendFailed, Processed, FailedEvent, orderVars, gwVars, Unsettled
  <2> QED
    BY <2>4, <2>5, SameBook, SameOrder, DocTypes
<1> QED
  BY <1>4, <1>5

\* Razorpay pays a pending refund out, or fails it.
LEMMA GatewayBook ==
    ASSUME Inv, Kept, NEW r \in RefundIds, GatewaySettles(r)
    PROVE  Book!BookNext \/ UNCHANGED Book!bookVars
<1>1. PICK p \in Payments, n \in 1..MaxRefunds : r = <<p, n>>
  BY DEF RefundIds
<1>2. gwRefund[<<p, n>>] = "pending"
  BY <1>1 DEF GatewaySettles
<1>3. sent[p] > 0
  <2>1. sent[p] \in Nat /\ ~(n > sent[p])
    BY <1>2, BoundsAssumption DEF Inv, TypeOK, Unsent
  <2> QED
    BY <2>1, BoundsAssumption
<1>4. UNCHANGED <<status, forfeited, pay, pid, refund>>
  BY DEF GatewaySettles, orderVars
<1>5. \A x \in RefundIds : x # r => gwRefund'[x] = gwRefund[x]
  BY DEF GatewaySettles, Inv, TypeOK
<1>6. \A q \in Payments, m \in 1..MaxRefunds : <<q, m>> \in RefundIds
  BY DEF RefundIds
<1>7. \A q \in Payments \ {p} : Returned(q)' <=> Returned(q)
  BY <1>1, <1>5, <1>6 DEF Returned
<1>8. Returned(p) => Returned(p)'
  BY <1>1, <1>2, <1>5, <1>6 DEF Returned
<1> QED
  BY <1>3, <1>4, <1>7, <1>8, FateFacts, ReturnBook

\* Razorpay creates a refund, possibly paid out at once.
LEMMA SendBook ==
    ASSUME Inv, Kept, NEW t \in Tasks, Send(t) \/ SendLost(t)
    PROVE  Book!BookNext \/ UNCHANGED Book!bookVars
<1>1. PICK d \in Docs : d = task[t].doc
  BY DEF Inv, TasksOK, Task
<1>2. PICK p \in Payments : p = task[t].p
  BY DEF Inv, TasksOK, Fits, FitsAt, Send, SendLost, At, RunnerPcs
<1>3. Recorded(d) /\ p = PaymentOf(d)
  BY <1>1, <1>2 DEF Kept, Knows, EngineKnows, RunnerPcs, Send, SendLost, At
<1>4. UNCHANGED <<status, forfeited, pay, pid, refund>>
  BY DEF Send, SendLost, orderVars
<1>5. Owed(p) \/ (Counted(p) /\ Due)
  <2>1. CASE d = OrderDoc
    BY <1>3, <2>1 DEF PaymentOf, Kept, Money, OrderRefund, Owed, Counted, Due, Flagged, Recorded
  <2>2. CASE d # OrderDoc
    <3>1. d[1] \in Kinds /\ d = <<d[1], p>>
      BY <1>3, <2>2 DEF PaymentOf, Docs, Strays
    <3> QED
      BY <1>3, <3>1 DEF Owed, IsStray, Recorded
  <2> QED
    BY <2>1, <2>2
<1>6. CASE gwRefund' = gwRefund
  BY <1>4, <1>5, <1>6, ReturnBook DEF Returned
<1>7. CASE gwRefund' # gwRefund
  <2>1. PICK s \in {"pending", "processed"} : CanRefund(p) /\ CreateRefund(p, s)
    BY <1>2, <1>7 DEF Send, SendLost
  <2>2. \A x \in RefundIds : gwRefund[x] = "processed" => gwRefund'[x] = "processed"
    BY <2>1, CreateOK
  <2>3. \A q \in Payments, m \in 1..MaxRefunds : <<q, m>> \in RefundIds
    BY DEF RefundIds
  <2>4. \A x \in RefundIds : x[1] # p => gwRefund'[x] = gwRefund[x]
    BY <2>1 DEF CreateRefund, Inv, TypeOK
  <2>5. \A q \in Payments \ {p} : Returned(q)' <=> Returned(q)
    BY <2>3, <2>4 DEF Returned
  <2>6. Returned(p) => Returned(p)'
    BY <2>2, <2>3 DEF Returned
  <2> QED
    BY <1>4, <1>5, <2>5, <2>6, ReturnBook
<1> QED
  BY <1>6, <1>7

\* rejectOrderPayment's write of the order owes the refused payment.
LEMMA FlagBook ==
    ASSUME Inv, Kept, NEW t \in Tasks, Flag(t)
    PROVE  Book!BookNext \/ UNCHANGED Book!bookVars
<1> DEFINE r == [refund[OrderDoc] EXCEPT !.status = "pending", !.amt = task[t].p]
<1>1. PICK p \in Payments : p = task[t].p
  BY DEF Inv, TasksOK, Fits, FitsAt, Flag, At, SettlePcs
<1>2. UNCHANGED <<status, forfeited, gwRefund>>
  BY DEF Flag, gwVars
<1>3. CASE UNCHANGED <<pid, refund>> /\ (Unsettled' <=> Unsettled)
  BY <1>2, <1>3, SameOrder, QuietBook
<1>4. CASE ~(UNCHANGED <<pid, refund>> /\ (Unsettled' <=> Unsettled))
  <2>1. Unsettled /\ refund[OrderDoc].status = "none"
    BY <1>4 DEF Flag, Unsettled, UNCOUNTABLE
  <2>2. pay' = "failed" /\ pid' = p /\ refund' = [refund EXCEPT ![OrderDoc] = r]
    BY <1>1, <1>4, <2>1, Zenon DEF Flag, Unsettled, UNCOUNTABLE
  <2>3. r.status = "pending"
    BY DocTypes, Zenon DEF Inv, TypeOK, Refund
  <2> HIDE DEF r
  <2>4. Unsettled' /\ \A q \in Payments : ~Counted(q) /\ ~Counted(q)'
    BY <2>1, <2>2 DEF Counted, Unsettled, UNCOUNTABLE
  <2>5. /\ refund'[OrderDoc].status = "pending"
        /\ \A k \in Kinds, q \in Payments : refund'[<<k, q>>] = refund[<<k, q>>]
    BY <2>2, <2>3, DocTypes DEF Inv, TypeOK
  <2>6. \A q \in Payments : IsStray(q)' <=> IsStray(q)
    BY <2>5 DEF IsStray
  <2>7. Owed(p)' /\ \A q \in Payments \ {p} : Owed(q)' <=> Owed(q)
    BY <2>1, <2>2, <2>4, <2>5, <2>6 DEF Owed
  <2> QED
    BY <1>2, <2>4, <2>7, SettleBook
<1> QED
  BY <1>3, <1>4

\* recordStrayPayment's upsert owes a payment the order does not count.
LEMMA StrayInsertBook ==
    ASSUME Inv, Kept, NEW t \in Tasks, StrayInsert(t)
    PROVE  Book!BookNext \/ UNCHANGED Book!bookVars
<1> DEFINE r == [EmptyRefund EXCEPT !.status = "pending", !.amt = task[t].p]
<1>1. Knows(task[t]) /\ Fits(task[t]) /\ Money /\ task[t].pc = "strayInsert"
  BY DEF Inv, TasksOK, Kept, StrayInsert, At
<1>2. PICK p \in Payments : p = task[t].p
  BY <1>1 DEF Fits, FitsAt, SettlePcs
<1>3. PICK k \in Kinds : task[t].doc = <<k, p>> /\ ~Counted(p)
  BY <1>1, <1>2 DEF Knows, SettleKnows, Counted, Money, CountedOrder, Kinds
<1>4. UNCHANGED <<status, forfeited, pay, pid, gwRefund>>
  BY DEF StrayInsert, orderVars, gwVars
<1>5. refund' = refund \/ refund' = [refund EXCEPT ![<<k, p>>] = r]
  BY <1>3, Zenon DEF StrayInsert
<1>6. r.status = "pending"
  BY EmptyTypes, Zenon DEF Refund
<1> HIDE DEF r
<1>7. \A q \in Payments : Counted(q)' <=> Counted(q)
  BY <1>4 DEF Counted, Unsettled
<1>8. CASE refund' = refund
  BY <1>4, <1>8, SameOrder, QuietBook DEF Unsettled
<1>9. CASE refund' = [refund EXCEPT ![<<k, p>>] = r]
  <2>1. refund'[<<k, p>>].status = "pending" /\ refund'[OrderDoc] = refund[OrderDoc]
    BY <1>6, <1>9, DocTypes DEF Inv, TypeOK
  <2>2. \A j \in Kinds, q \in Payments \ {p} : refund'[<<j, q>>] = refund[<<j, q>>]
    BY <1>9, DocTypes DEF Inv, TypeOK
  <2>3. Owed(p)'
    BY <2>1 DEF Owed, IsStray
  <2>4. \A q \in Payments \ {p} : Owed(q)' <=> Owed(q)
    BY <1>4, <2>1, <2>2 DEF Owed, IsStray, Unsettled
  <2> QED
    BY <1>3, <1>4, <1>7, <2>3, <2>4, SettleBook
<1> QED
  BY <1>5, <1>8, <1>9

\* Moving a refund to a stray leaves its payment owed.
LEMMA MoveBook ==
    ASSUME Inv, Kept, NEW t \in Tasks, MoveCopy(t) \/ MoveClear(t)
    PROVE  UNCHANGED Book!bookVars
<1>1. /\ Knows(task[t]) /\ Money /\ task[t].pc \in {"moveCopy", "moveClear"}
      /\ UNCHANGED <<status, forfeited, pay, pid, gwRefund>>
  BY DEF Kept, MoveCopy, MoveClear, At, orderVars, gwVars
<1>2. /\ Flagged /\ task[t].doc = <<"refused_payment", pid>> /\ task[t].held = refund[OrderDoc]
      /\ task[t].pc = "moveClear" => Recorded(task[t].doc)
  BY <1>1 DEF Knows, SettleKnows
<1>3. PICK p \in Payments \ Exact : p = pid
  BY <1>2 DEF Flagged
<1>4. \A q \in Payments : (Counted(q)' <=> Counted(q)) /\ (Returned(q)' <=> Returned(q))
  BY <1>1 DEF Counted, Unsettled, Returned
<1>5. \A j \in Kinds, q \in Payments \ {p} : refund'[<<j, q>>] = refund[<<j, q>>]
  <2>1. \/ refund' = refund
        \/ refund' = [refund EXCEPT ![OrderDoc] = EmptyRefund]
        \/ refund' = [refund EXCEPT ![<<"refused_payment", p>>] = refund[OrderDoc]]
    BY <1>2, <1>3, Zenon DEF MoveCopy, MoveClear
  <2> QED
    BY <2>1, DocTypes DEF Inv, TypeOK
<1>6. refund'[<<"refused_payment", p>>].status # "none"
  <2>1. CASE MoveCopy(t)
    <3>1. refund' = [refund EXCEPT ![<<"refused_payment", p>>] = refund[OrderDoc]]
      BY <1>2, <1>3, <2>1 DEF MoveCopy
    <3> QED
      BY <1>2, <3>1, DocTypes DEF Inv, TypeOK, Kinds, Flagged, Recorded
  <2>2. CASE MoveClear(t)
    <3>1. refund' = refund \/ refund' = [refund EXCEPT ![OrderDoc] = EmptyRefund]
      BY <2>2, Zenon DEF MoveClear
    <3>2. Recorded(<<"refused_payment", p>>)
      BY <1>2, <1>3, <2>2 DEF MoveClear, At
    <3> QED
      BY <3>1, <3>2, DocTypes DEF Inv, TypeOK, Kinds, Recorded
  <2> QED
    BY <2>1, <2>2
<1>7. Owed(p) /\ Owed(p)'
  BY <1>2, <1>3, <1>6 DEF Owed, IsStray, Flagged, Recorded, Kinds
<1>8. \A q \in Payments \ {p} : Owed(q)' <=> Owed(q)
  BY <1>1, <1>3, <1>5 DEF Owed, IsStray
<1> QED
  BY <1>1, <1>4, <1>7, <1>8, SameFate, SameOrder DEF Book!bookVars

\* recordCapturedPayment counts a payment nobody owes back.
LEMMA CountBook ==
    ASSUME Inv, Kept, NEW t \in Tasks, Count(t)
    PROVE  Book!BookNext \/ UNCHANGED Book!bookVars
<1>1. Knows(task[t]) /\ Money /\ task[t].pc = "count" /\ UNCHANGED <<status, forfeited, refund, gwRefund>>
  BY DEF Kept, Count, At, gwVars
<1>2. CASE ~Unsettled
  <2>1. UNCHANGED <<pay, pid>>
    BY <1>2 DEF Count
  <2> QED
    BY <1>1, <2>1, SameOrder, QuietBook DEF Unsettled
<1>3. CASE Unsettled
  <2>1. PICK p \in Exact : p = task[t].p
    BY <1>1 DEF Knows, SettleKnows
  <2>2. p \in Payments /\ pay' = "paid" /\ pid' = p
    BY <1>3, <2>1, PaymentsAssumption DEF Count
  <2>3. ~Recorded(OrderDoc)
    BY <1>1, <1>3 DEF Knows, SettleKnows
  <2>4. \A q \in Payments : IsStray(q)' <=> IsStray(q)
    BY <1>1 DEF IsStray
  <2>5. \A q \in Payments : (Owed(q) <=> IsStray(q)) /\ (Owed(q)' <=> IsStray(q))
    BY <1>1, <2>2, <2>3, <2>4 DEF Owed, Recorded, Unsettled, UNCOUNTABLE
  <2>6. ~IsStray(p)
    BY <1>1, <1>3, <2>2 DEF Money, StrayRefunds, IsStray, Recorded, Kinds
  <2>7. Counted(p)' /\ \A q \in Payments \ {p} : Counted(q)' <=> Counted(q)
    BY <1>3, <2>2 DEF Counted, Unsettled, UNCOUNTABLE
  <2> QED
    BY <1>1, <1>3, <2>2, <2>5, <2>6, <2>7, SettleBook
<1> QED
  BY <1>2, <1>3

\* Every step of the program is a step of the book, or none.
LEMMA BookStep ==
    ASSUME Inv, Kept, [Next]_vars
    PROVE  Book!BookNext \/ UNCHANGED Book!bookVars
<1>1. CASE \/ \E p \in Payments : Pay(p) \/ AutoCapture(p)
           \/ Accept \/ StartPreparing \/ Deliver
           \/ PaymentFailedEvent \/ BadSignature \/ RetryPayment
           \/ \E t \in Tasks, p \in Payments : Verify(t, p) \/ Webhook(t, p)
           \/ \E t \in Tasks, r \in RefundIds : RefundWebhook(t, r)
           \/ \E t \in Tasks, d \in Docs : RetryRefund(t, d)
           \/ \E t \in Tasks : HandlerError(t)
           \/ Crash
  BY <1>1, WorldBook
<1>2. CASE UNCHANGED vars
  BY <1>2, SameOrder, QuietBook DEF vars, Unsettled
<1>3. CASE \E r \in RefundIds : GatewaySettles(r)
  BY <1>3, GatewayBook
<1>4. CASE \E byCustomer \in BOOLEAN : Cancel(byCustomer)
  BY <1>4, CancelBook
<1>5. ASSUME NEW t \in Tasks, SettleStep(t) PROVE Book!BookNext \/ UNCHANGED Book!bookVars
  BY <1>5, HandlerBook, FlagBook, StrayInsertBook, MoveBook, CountBook DEF SettleStep
<1>6. ASSUME NEW t \in Tasks, RefundStep(t) \/ SendLost(t) PROVE Book!BookNext \/ UNCHANGED Book!bookVars
  BY <1>6, HandlerBook, EngineBook, SendBook DEF RefundStep
<1> QED
  BY <1>1, <1>2, <1>3, <1>4, <1>5, <1>6 DEF Next

LEMMA BookStart == Init => Book!BookInit
<1> SUFFICES ASSUME Init PROVE Book!BookInit
  OBVIOUS
<1>1. \A q \in Payments : ~Counted(q) /\ ~Owed(q)
  BY DocTypes DEF Init, Counted, Owed, IsStray, Unsettled, UNCOUNTABLE, EmptyRefund
<1> QED
  BY <1>1 DEF Init, Book!BookInit, fate, order

\* payment.service.js and refund.service.js keep MoneyBook's promises: every payment is counted or
\* owed back and never both, at most one is ever counted, money goes back once, and a counted
\* payment only for an order cancelled with a refund due; whatever crashes and answers lost.
THEOREM OrderImplementsBook ==
    ASSUME Apart
    PROVE  Spec => ImplementsBook
<1>1. Inv /\ Kept /\ [Next]_vars => [Book!BookNext]_(Book!bookVars)
  BY BookStep
<1> QED
  BY <1>1, BookStart, KeptAlways, PTL DEF Spec, ImplementsBook, Book!BookSpec

-----------------------------------------------------------------------------
\* runRefund's claim.  Once is the invariant: while no refund of a payment has failed, the document
\* that carries its refund is sent for once, by the one handler that holds its claim.

\* A document that a refund may be claimed on.
Carries(d) == IF d = OrderDoc THEN ~Unsettled ELSE Recorded(d)

\* A refund not in flight has not been asked for; one in flight with no id is held by a handler.
DocOnce(d) ==
    Carries(d) /\ NeverFailed(PaymentOf(d)) =>
        /\ refund[d].status \in {"none", "pending", "failed"} => sent[PaymentOf(d)] = 0
        /\ refund[d].status = "processing" /\ refund[d].id = NoRefund =>
              \E u \in Tasks : task[u].pc \in RunnerPcs /\ task[u].doc = d

\* A handler that holds a claim with the registers v, and one told that a refund failed.
RunOnce(v) ==
    /\ v.pc \in RunnerPcs /\ NeverFailed(PaymentOf(v.doc)) =>
          /\ refund[v.doc].status \in {"processing", "processed"}
          /\ v.pc # "saveId" => /\ sent[PaymentOf(v.doc)] = 0
                                /\ refund[v.doc].status = "processing" /\ refund[v.doc].id = NoRefund
    /\ v.pc = "failedEvent" => gwRefund[v.rid] = "failed"

OneRunner ==
    \A t, u \in Tasks :
        /\ {task[t].pc, task[u].pc} \subseteq RunnerPcs
        /\ task[t].doc = task[u].doc /\ NeverFailed(PaymentOf(task[t].doc))
        => t = u

Once ==
    /\ \A d \in Docs : DocOnce(d)
    /\ \A t \in Tasks : RunOnce(task[t])
    /\ OneRunner

\* Razorpay does not take a failure back.
StaysFailed == \A r \in RefundIds : gwRefund[r] = "failed" => gwRefund'[r] = "failed"

LEMMA StillNeverFailed ==
    ASSUME StaysFailed, NEW p \in Payments, NeverFailed(p)'
    PROVE  NeverFailed(p)
BY DEF StaysFailed, NeverFailed, RefundIds

\* Of exact payments, each has one document that carries its refund.
LEMMA CarriesPayment ==
    ASSUME Inv, Kept, NEW d \in Docs, Carries(d)
    PROVE  PaymentOf(d) \in Payments
BY DocTypes DEF Carries, PaymentOf, Inv, SettledHasPayment

LEMMA CarriesOne ==
    ASSUME Inv, Kept, Exact = Payments, NEW d \in Docs, NEW e \in Docs, Carries(d), Carries(e),
           PaymentOf(d) = PaymentOf(e)
    PROVE  d = e
<1>1. ASSUME NEW x \in Docs, x # OrderDoc, Recorded(x)
      PROVE  x = <<"duplicate_payment", x[2]>> /\ pid # x[2]
  <2>1. PICK k \in Kinds, q \in Payments : x = <<k, q>>
    BY <1>1 DEF Docs, Strays
  <2>2. k = "duplicate_payment"
    BY <1>1, <2>1 DEF Kinds, Kept, Money, StrayRefunds
  <2> QED
    BY <1>1, <2>1, <2>2 DEF Kept, Money, StrayRefunds
<1> QED
  BY <1>1 DEF Carries, PaymentOf

LEMMA RunnerDoc ==
    ASSUME Inv, Kept, Exact = Payments, NEW u \in Tasks, task[u].pc \in RunnerPcs
    PROVE  /\ task[u].doc \in Docs /\ Carries(task[u].doc)
           /\ task[u].p = PaymentOf(task[u].doc) /\ task[u].p \in Payments
<1>1. task[u].doc \in Docs /\ Recorded(task[u].doc) /\ task[u].p = PaymentOf(task[u].doc)
  BY DEF Inv, TasksOK, Task, Kept, Knows, EngineKnows
<1>2. Carries(task[u].doc)
  BY <1>1 DEF Carries, Kept, Money, OrderRefund, Due, Flagged
<1> QED
  BY <1>1, <1>2, CarriesPayment

\* A step that neither writes a refund nor starts or ends a claim.
LEMMA QuietOnce ==
    ASSUME Inv, Kept, Exact = Payments, Once, StaysFailed, Unsettled' <=> Unsettled, UNCHANGED <<pid, refund, sent>>,
           \A u \in Tasks : task'[u] = task[u] \/
                /\ task[u].pc \notin RunnerPcs
                /\ task'[u].pc \notin RunnerPcs
                /\ task'[u].pc = "failedEvent" => gwRefund'[task'[u].rid] = "failed"
    PROVE  Once'
<1>1. \A d : (Carries(d)' <=> Carries(d)) /\ PaymentOf(d)' = PaymentOf(d)
  BY DEF Carries, Recorded, PaymentOf
<1>2. \A u \in Tasks : task'[u].pc \in RunnerPcs \/ task[u].pc \in RunnerPcs => task'[u] = task[u]
  OBVIOUS
<1>3. ASSUME NEW d \in Docs PROVE DocOnce(d)'
  <2> SUFFICES ASSUME Carries(d)', NeverFailed(PaymentOf(d))'
               PROVE  /\ refund[d].status \in {"none", "pending", "failed"} => sent[PaymentOf(d)] = 0
                      /\ refund[d].status = "processing" /\ refund[d].id = NoRefund =>
                            \E u \in Tasks : task'[u].pc \in RunnerPcs /\ task'[u].doc = d
    BY <1>1 DEF DocOnce
  <2>1. Carries(d) /\ PaymentOf(d) \in Payments
    BY <1>1, CarriesPayment
  <2>2. NeverFailed(PaymentOf(d))
    <3>1. PICK p \in Payments : p = PaymentOf(d)
      BY <2>1
    <3>2. NeverFailed(p)'
      BY <1>1, <3>1 DEF NeverFailed
    <3> QED
      BY <3>1, <3>2, StillNeverFailed
  <2> QED
    BY <1>2, <2>1, <2>2 DEF Once, DocOnce
<1>4. ASSUME NEW u \in Tasks, task'[u].pc \in RunnerPcs, NeverFailed(PaymentOf(task[u].doc))'
      PROVE  task'[u] = task[u] /\ NeverFailed(PaymentOf(task[u].doc))
  <2>1. task'[u] = task[u] /\ task[u].pc \in RunnerPcs
    BY <1>2, <1>4
  <2>2. PICK p \in Payments : p = PaymentOf(task[u].doc)
    BY <2>1, RunnerDoc
  <2>3. NeverFailed(p)'
    BY <1>1, <1>4, <2>1, <2>2 DEF NeverFailed, PaymentOf
  <2> QED
    BY <2>1, <2>2, <2>3, StillNeverFailed
<1>5. ASSUME NEW u \in Tasks PROVE RunOnce(task[u])'
  <2>1. task'[u].pc = "failedEvent" => gwRefund'[task'[u].rid] = "failed"
    BY DEF Once, RunOnce, StaysFailed, Inv, TasksOK, Fits, FitsAt, SentPcs
  <2>2. CASE task'[u].pc \in RunnerPcs /\ NeverFailed(PaymentOf(task[u].doc))'
    <3>1. task'[u] = task[u] /\ NeverFailed(PaymentOf(task[u].doc)) /\ PaymentOf(task[u].doc)' = PaymentOf(task[u].doc)
      BY <1>1, <1>4, <2>2 DEF PaymentOf
    <3> QED
      BY <2>1, <2>2, <3>1 DEF Once, RunOnce
  <2>3. CASE ~(task'[u].pc \in RunnerPcs /\ NeverFailed(PaymentOf(task[u].doc))')
    BY <2>1, <2>3 DEF RunOnce
  <2> QED
    BY <2>2, <2>3
<1>6. OneRunner'
  BY <1>2, <1>4 DEF OneRunner, Once
<1> QED
  BY <1>3, <1>5, <1>6 DEF Once

\* One handler moves and writes at most the document d, sending nothing: it is enough to look at
\* that handler, at d, and at the claims others hold on d.
LEMMA OnceMoves ==
    ASSUME Inv, Kept, Exact = Payments, Once, NEW t \in Tasks, NEW d \in Docs,
           StaysFailed, UNCHANGED <<pid, sent>>,
           \A e \in Docs \ {d} : refund'[e] = refund[e] /\ (Carries(e)' <=> Carries(e)),
           \A u \in Tasks \ {t} : task'[u] = task[u],
           task[t].pc \in RunnerPcs => task[t].doc = d,
           task'[t].pc \in RunnerPcs => task'[t].doc = d,
           DocOnce(d)', RunOnce(task[t])',
           NeverFailed(PaymentOf(d)) =>
              \A u \in Tasks \ {t} : task[u].pc \in RunnerPcs /\ task[u].doc = d =>
                 /\ task'[t].pc \notin RunnerPcs
                 /\ refund'[d].status \in {"processing", "processed"}
                 /\ task[u].pc # "saveId" => refund'[d].status = "processing" /\ refund'[d].id = NoRefund
    PROVE  Once'
<1>1. \A e \in Docs : PaymentOf(e)' = PaymentOf(e)
  BY DEF PaymentOf
<1>2. ASSUME NEW e \in Docs, PaymentOf(e) \in Payments, NeverFailed(PaymentOf(e))' PROVE NeverFailed(PaymentOf(e))
  <2>1. PICK p \in Payments : p = PaymentOf(e)
    BY <1>2
  <2>2. NeverFailed(p)'
    BY <1>1, <1>2, <2>1 DEF NeverFailed
  <2> QED
    BY <2>1, <2>2, StillNeverFailed
<1>3. ASSUME NEW e \in Docs PROVE DocOnce(e)'
  <2>1. CASE e = d
    BY <2>1
  <2>2. CASE e # d
    <3> SUFFICES ASSUME Carries(e)', NeverFailed(PaymentOf(e))'
                 PROVE  /\ refund'[e].status \in {"none", "pending", "failed"} => sent[PaymentOf(e)] = 0
                        /\ refund'[e].status = "processing" /\ refund'[e].id = NoRefund =>
                              \E u \in Tasks : task'[u].pc \in RunnerPcs /\ task'[u].doc = e
      BY <1>1 DEF DocOnce
    <3>1. Carries(e) /\ PaymentOf(e) \in Payments
      BY <2>2, CarriesPayment
    <3>2. NeverFailed(PaymentOf(e)) /\ refund'[e] = refund[e]
      BY <1>2, <2>2, <3>1
    <3> QED
      BY <2>2, <3>1, <3>2 DEF Once, DocOnce
  <2> QED
    BY <2>1, <2>2
<1>4. ASSUME NEW u \in Tasks \ {t}, task[u].pc \in RunnerPcs, NeverFailed(PaymentOf(task[u].doc))'
      PROVE  /\ task'[u] = task[u] /\ NeverFailed(PaymentOf(task[u].doc))
             /\ task[u].doc = d => task'[t].pc \notin RunnerPcs
             /\ RunOnce(task[u])'
  <2>1. PICK e \in Docs : e = task[u].doc /\ PaymentOf(e) \in Payments
    BY <1>4, RunnerDoc
  <2>2. task'[u] = task[u] /\ PaymentOf(task[u].doc)' = PaymentOf(e)
    BY <1>1, <2>1 DEF PaymentOf
  <2>3. NeverFailed(PaymentOf(e))'
    BY <1>1, <1>4, <2>1, <2>2 DEF NeverFailed
  <2>4. NeverFailed(PaymentOf(e))
    BY <1>2, <2>1, <2>3
  <2>5. RunOnce(task[u])
    BY DEF Once
  <2>6. task[u].pc # "failedEvent"
    BY <1>4 DEF RunnerPcs
  <2>7. CASE e # d
    BY <1>4, <2>1, <2>2, <2>4, <2>5, <2>6, <2>7 DEF RunOnce
  <2>8. CASE e = d
    BY <1>4, <2>1, <2>2, <2>4, <2>5, <2>6, <2>8 DEF RunOnce
  <2> QED
    BY <2>1, <2>2, <2>4, <2>7, <2>8
<1>5. ASSUME NEW u \in Tasks PROVE RunOnce(task[u])'
  <2>1. CASE u = t
    BY <2>1
  <2>2. CASE u # t /\ task[u].pc \in RunnerPcs /\ NeverFailed(PaymentOf(task[u].doc))'
    BY <1>4, <2>2
  <2>3. CASE u # t /\ ~(task[u].pc \in RunnerPcs /\ NeverFailed(PaymentOf(task[u].doc))')
    <3>1. task'[u] = task[u] /\ RunOnce(task[u])
      BY <2>3 DEF Once
    <3>2. task[u].pc = "failedEvent" => gwRefund'[task[u].rid] = "failed"
      BY <3>1 DEF RunOnce, StaysFailed, Inv, TasksOK, Fits, FitsAt, SentPcs
    <3> QED
      BY <2>3, <3>1, <3>2 DEF RunOnce
  <2> QED
    BY <2>1, <2>2, <2>3
<1>6. OneRunner'
  <2> SUFFICES ASSUME NEW u \in Tasks, NEW w \in Tasks, u # w,
                      task'[u].pc \in RunnerPcs, task'[w].pc \in RunnerPcs, task'[u].doc = task'[w].doc,
                      NeverFailed(PaymentOf(task[u].doc))'
               PROVE  FALSE
    BY DEF OneRunner
  <2>1. NeverFailed(PaymentOf(task[w].doc))'
    BY DEF NeverFailed, PaymentOf
  <2>2. CASE u # t /\ w # t
    <3>1. task'[u] = task[u] /\ task'[w] = task[w]
      BY <2>2
    <3>2. NeverFailed(PaymentOf(task[u].doc))
      BY <1>4, <2>2, <3>1
    <3> QED
      BY <3>1, <3>2 DEF Once, OneRunner
  <2>3. CASE u = t
    BY <1>4, <2>1, <2>3
  <2>4. CASE w = t
    BY <1>4, <2>4
  <2> QED
    BY <2>2, <2>3, <2>4
<1> QED
  BY <1>3, <1>5, <1>6 DEF Once

\* A handler that holds no claim takes a step that writes no refund.
LEMMA HandlerOnce ==
    ASSUME Inv, Kept, Exact = Payments, Once, NEW t \in Tasks, UNCHANGED <<pay, pid, refund, sent, gwRefund>>,
           task[t].pc \notin RunnerPcs, NEW v, v.pc \notin RunnerPcs, v.pc # "failedEvent",
           task' = [task EXCEPT ![t] = v]
    PROVE  Once'
<1>1. task'[t] = v /\ \A u \in Tasks \ {t} : task'[u] = task[u]
  BY DEF Inv, TasksOK
<1>2. StaysFailed /\ (Unsettled' <=> Unsettled)
  BY DEF StaysFailed, Unsettled
<1> QED
  BY <1>1, <1>2, QuietOnce

\* The world, and the start of handlers.
LEMMA WorldOnce ==
    ASSUME Inv, Kept, Exact = Payments, Once,
           \/ \E p \in Payments : Pay(p) \/ AutoCapture(p)
           \/ \E r \in RefundIds : GatewaySettles(r)
           \/ Accept \/ StartPreparing \/ Deliver
           \/ PaymentFailedEvent \/ BadSignature \/ RetryPayment
           \/ UNCHANGED vars
    PROVE  Once'
<1>1. UNCHANGED <<pid, refund, sent, task>>
  BY DEF Pay, AutoCapture, GatewaySettles, Accept, StartPreparing, Deliver,
         PaymentFailedEvent, BadSignature, RetryPayment, orderVars, gwVars, vars
<1>2. Unsettled' <=> Unsettled
  BY DEF Pay, AutoCapture, GatewaySettles, Accept, StartPreparing, Deliver,
         PaymentFailedEvent, BadSignature, RetryPayment, orderVars, vars, Unsettled, UNCOUNTABLE
<1>3. StaysFailed
  BY DEF Pay, AutoCapture, GatewaySettles, Accept, StartPreparing, Deliver,
         PaymentFailedEvent, BadSignature, RetryPayment, gwVars, vars, StaysFailed, Inv, TypeOK
<1> QED
  BY <1>1, <1>2, <1>3, QuietOnce

LEMMA StartOnce ==
    ASSUME Inv, Kept, Exact = Payments, Once,
           \/ \E byCustomer \in BOOLEAN : Cancel(byCustomer)
           \/ \E t \in Tasks, p \in Payments : Verify(t, p) \/ Webhook(t, p)
           \/ \E t \in Tasks, d \in Docs : RetryRefund(t, d)
    PROVE  Once'
<1>1. UNCHANGED <<pay, pid, refund, sent, gwRefund>>
  BY DEF Cancel, Verify, Webhook, StartSettle, RetryRefund, orderVars, gwVars
<1>2. CASE task' = task
  BY <1>1, <1>2, QuietOnce DEF StaysFailed, Unsettled
<1>3. ASSUME NEW t \in Tasks, At(t, "idle"), NEW v, task' = [task EXCEPT ![t] = v],
             v.pc \in {"settings", "confirm", "duplicate", "claim"}
      PROVE  Once'
  <2>1. task[t].pc \notin RunnerPcs /\ v.pc \notin RunnerPcs /\ v.pc # "failedEvent"
    BY <1>3 DEF At, RunnerPcs
  <2> QED
    BY <1>1, <1>3, <2>1, HandlerOnce
<1>4. CASE \E byCustomer \in BOOLEAN : Cancel(byCustomer)
  <2> DEFINE v == [Idle EXCEPT !.pc = "settings", !.src = "cancel"]
  <2>1. task' = task \/ \E t \in Tasks : At(t, "idle") /\ task' = [task EXCEPT ![t] = v]
    BY <1>4, Zenon DEF Cancel
  <2>2. v.pc = "settings"
    BY EmptyTypes, Zenon DEF Task
  <2> HIDE DEF v
  <2> QED
    BY <1>2, <1>3, <2>1, <2>2
<1>5. ASSUME NEW t \in Tasks, NEW p \in Payments, Verify(t, p) \/ Webhook(t, p) PROVE Once'
  <2>1. PICK src : StartSettle(t, p, src)
    BY <1>5 DEF Verify, Webhook
  <2> DEFINE v(pc) == [Idle EXCEPT !.pc = pc, !.src = src, !.p = p]
  <2>2. \/ task' = task
        \/ task' = [task EXCEPT ![t] = v("confirm")]
        \/ task' = [task EXCEPT ![t] = v("duplicate")]
    BY <2>1, Zenon DEF StartSettle, Begin
  <2>3. \A pc : v(pc).pc = pc
    BY EmptyTypes, Zenon DEF Task
  <2> HIDE DEF v
  <2>4. At(t, "idle")
    BY <2>1 DEF StartSettle
  <2> QED
    BY <1>2, <1>3, <2>2, <2>3, <2>4
<1>6. ASSUME NEW t \in Tasks, NEW d \in Docs, RetryRefund(t, d) PROVE Once'
  <2> DEFINE pc == IF d = OrderDoc THEN "settings" ELSE "claim"
             v == [Idle EXCEPT !.pc = pc, !.src = "admin", !.doc = d]
  <2>1. task' = [task EXCEPT ![t] = v] /\ At(t, "idle")
    BY <1>6, Zenon DEF RetryRefund
  <2>2. pc \in {"settings", "claim"}
    OBVIOUS
  <2> HIDE DEF pc
  <2>3. v.pc = pc
    BY EmptyTypes, Zenon DEF Task
  <2> HIDE DEF v
  <2> QED
    BY <1>3, <2>1, <2>2, <2>3
<1> QED
  BY <1>4, <1>5, <1>6

\* A refund event names a refund that failed, or one that was paid out.
LEMMA RefundWebhookOnce ==
    ASSUME Inv, Kept, Exact = Payments, Once, NEW t \in Tasks, NEW r \in RefundIds, RefundWebhook(t, r)
    PROVE  Once'
<1> DEFINE pc == IF gwRefund[r] = "processed" THEN "processed" ELSE "failedEvent"
           v(d) == [Idle EXCEPT !.pc = pc, !.src = "refundWebhook", !.doc = d, !.rid = r]
<1>1. task' = task \/ \E d : task' = [task EXCEPT ![t] = v(d)]
  BY Zenon DEF RefundWebhook
<1>2. UNCHANGED <<pay, pid, refund, sent, gwRefund>>
  BY DEF RefundWebhook, orderVars, gwVars
<1>3. pc = "processed" \/ (pc = "failedEvent" /\ gwRefund[r] = "failed")
  BY DEF RefundWebhook
<1> HIDE DEF pc
<1>4. \A d : v(d).pc = pc /\ v(d).rid = r
  BY EmptyTypes, Zenon DEF Task
<1> HIDE DEF v
<1>5. PICK w : task' = task \/ (task' = [task EXCEPT ![t] = w] /\ w.pc = pc /\ w.rid = r)
  BY <1>1, <1>4
<1>6. \A u \in Tasks : task'[u] = task[u] \/
         /\ task[u].pc \notin RunnerPcs
         /\ task'[u].pc \notin RunnerPcs
         /\ task'[u].pc = "failedEvent" => gwRefund'[task'[u].rid] = "failed"
  BY <1>2, <1>3, <1>5 DEF RefundWebhook, At, RunnerPcs, Inv, TasksOK
<1> QED
  BY <1>2, <1>6, QuietOnce DEF StaysFailed, Unsettled

\* The steps of settling that write no refund, the read of the settings, a handler's error.
LEMMA SettleOnce ==
    ASSUME Inv, Kept, Exact = Payments, Once, NEW t \in Tasks,
           \/ Duplicate(t) \/ Confirm(t) \/ StrayCheck(t) \/ OrderCheck(t) \/ MoveRead(t) \/ Settings(t)
           \/ HandlerError(t)
    PROVE  Once'
<1> DEFINE duplicate == [task[t] EXCEPT !.pc = "strayCheck", !.doc = <<"duplicate_payment", task[t].p>>]
           h == [task[t].held EXCEPT !.amt = IF gw[task[t].p] = "captured" THEN task[t].p ELSE NoPayment]
           refuse == [task[t] EXCEPT !.pc = "alreadyFlagged", !.held = h]
           copies == [task[t] EXCEPT !.pc = "moveCopy", !.doc = <<"refused_payment", pid>>,
                                     !.held = refund[OrderDoc], !.moves = task[t].moves + 1]
           goesOn == [task[t] EXCEPT !.pc = "count", !.doc = OrderDoc, !.held = EmptyRefund, !.moves = 0]
           to(pc) == [task[t] EXCEPT !.pc = pc]
           settle == {"strayCheck", "alreadyFlagged", "moveCopy", "count", "orderCheck", "strayInsert", "moveRead", "claim", "idle"}
<1>1. task[t] \in Task
  BY DEF Inv, TasksOK
<1>2. UNCHANGED <<pay, pid, refund, sent, gwRefund>>
  BY DEF Duplicate, Confirm, StrayCheck, OrderCheck, MoveRead, Settings, HandlerError, orderVars, gwVars
<1>3. task[t].pc \notin RunnerPcs
  BY DEF Duplicate, Confirm, StrayCheck, OrderCheck, MoveRead, Settings, HandlerError, At, RunnerPcs
<1>4. /\ duplicate.pc = "strayCheck" /\ refuse.pc = "alreadyFlagged" /\ copies.pc = "moveCopy" /\ goesOn.pc = "count"
      /\ \A pc : to(pc).pc = pc
  BY <1>1, Zenon DEF Task
<1>5. \/ task' = [task EXCEPT ![t] = duplicate]
      \/ task' = [task EXCEPT ![t] = refuse]
      \/ task' = [task EXCEPT ![t] = copies]
      \/ task' = [task EXCEPT ![t] = goesOn]
      \/ task' = [task EXCEPT ![t] = to("orderCheck")]
      \/ task' = [task EXCEPT ![t] = to("strayInsert")]
      \/ task' = [task EXCEPT ![t] = to("moveRead")]
      \/ task' = [task EXCEPT ![t] = to("claim")]
      \/ task' = [task EXCEPT ![t] = Idle]
  BY ZenonT(40) DEF Duplicate, Confirm, StrayCheck, OrderCheck, MoveRead, Settings, HandlerError, Finish, Drop, Goto, GotoIf
<1> HIDE DEF duplicate, refuse, copies, goesOn, to
<1>6. PICK v : task' = [task EXCEPT ![t] = v] /\ v.pc \in settle
  BY <1>4, <1>5, IdleFields
<1>7. v.pc \notin RunnerPcs /\ v.pc # "failedEvent"
  BY <1>6 DEF RunnerPcs
<1> QED
  BY <1>2, <1>3, <1>6, <1>7, HandlerOnce

\* The claim: nobody else holds one, and nothing was sent.
LEMMA ClaimOnce ==
    ASSUME Inv, Kept, Exact = Payments, Once, NEW t \in Tasks, Claim(t)
    PROVE  Once'
<1>1. PICK d \in Docs : d = task[t].doc
  BY DEF Inv, TasksOK, Task
<1> DEFINE p == PaymentOf(d)
           amount == IF refund[d].amt # NoPayment THEN refund[d].amt ELSE p
           h == [task[t].held EXCEPT !.amt = amount]
           v == [task[t] EXCEPT !.pc = "amount", !.p = p, !.held = h]
           r == [refund[d] EXCEPT !.status = "processing", !.id = NoRefund, !.since = sent[p]]
<1>2. UNCHANGED <<pay, pid, sent, gwRefund>> /\ task[t].pc \notin RunnerPcs
  BY DEF Claim, orderVars, gwVars, At, RunnerPcs
<1>3. CASE ~Claimable(d)
  <2>1. refund' = refund /\ task' = [task EXCEPT ![t] = Idle]
    BY <1>1, <1>3 DEF Claim, Finish
  <2>2. Idle.pc \notin RunnerPcs /\ Idle.pc # "failedEvent"
    BY IdleFields DEF RunnerPcs
  <2> QED
    BY <1>2, <2>1, <2>2, HandlerOnce
<1>4. CASE Claimable(d)
  <2>1. refund' = [refund EXCEPT ![d] = r] /\ task' = [task EXCEPT ![t] = v]
    BY <1>1, <1>4, Zenon DEF Claim
  <2>2. r.status = "processing" /\ r.id = NoRefund
    BY Zenon DEF Inv, TypeOK, Refund
  <2>3. v.pc = "amount" /\ v.doc = d
    BY <1>1, Zenon DEF Inv, TasksOK, Task
  <2> HIDE DEF r, v
  <2>4. Carries(d)
    BY <1>1 DEF Kept, Knows, EngineKnows, Carries, Due, Flagged, Claim, At
  <2>5. ASSUME NeverFailed(PaymentOf(d))
        PROVE  /\ sent[PaymentOf(d)] = 0
               /\ \A u \in Tasks : task[u].pc \in RunnerPcs => task[u].doc # d
    <3>1. DocOnce(d)
      BY DEF Once
    <3>2. ~Stale(d)
      <4> SUFFICES ASSUME refund[d].status = "processing", refund[d].id = NoRefund
                   PROVE  \E u \in Tasks : task[u].pc \in RunnerPcs /\ task[u].p = PaymentOf(d)
        BY DEF Stale
      <4>1. PICK u \in Tasks : task[u].pc \in RunnerPcs /\ task[u].doc = d
        BY <2>4, <2>5, <3>1 DEF DocOnce
      <4> QED
        BY <4>1, RunnerDoc
    <3>3. refund[d].status \in {"none", "pending", "failed"}
      BY <1>4, <3>2 DEF Claimable
    <3>4. \A u \in Tasks : task[u].pc \in RunnerPcs /\ task[u].doc = d => RunOnce(task[u])
      BY DEF Once
    <3> QED
      BY <2>4, <2>5, <3>1, <3>3, <3>4 DEF DocOnce, RunOnce
  <2>6. /\ refund'[d] = r /\ \A e \in Docs \ {d} : refund'[e] = refund[e]
        /\ task'[t] = v /\ \A u \in Tasks \ {t} : task'[u] = task[u]
    BY <2>1 DEF Inv, TypeOK, TasksOK
  <2>7. \A e \in Docs \ {d} : Carries(e)' <=> Carries(e)
    BY <1>2, <2>6 DEF Carries, Recorded, Unsettled
  <2>8. NeverFailed(PaymentOf(d))' => NeverFailed(PaymentOf(d))
    BY <1>2 DEF NeverFailed, PaymentOf
  <2>9. DocOnce(d)'
    BY <1>2, <2>2, <2>3, <2>6 DEF DocOnce, RunnerPcs
  <2>10. RunOnce(task[t])'
    BY <1>2, <2>2, <2>3, <2>5, <2>6 DEF RunOnce, RunnerPcs, NeverFailed, PaymentOf
  <2> QED
    BY <1>2, <2>3, <2>5, <2>6, <2>7, <2>9, <2>10, OnceMoves DEF StaysFailed
<1> QED
  BY <1>3, <1>4

\* The writes of the handler that holds the claim.
LEMMA RunnerOnce ==
    ASSUME Inv, Kept, Exact = Payments, Once, NEW t \in Tasks, Amount(t) \/ SaveId(t) \/ SendFailed(t)
    PROVE  Once'
<1>1. task[t].pc \in RunnerPcs
  BY DEF Amount, SaveId, SendFailed, At, RunnerPcs
<1>2. PICK d \in Docs : d = task[t].doc /\ Carries(d) /\ PaymentOf(d) \in Payments
  BY <1>1, RunnerDoc
<1> DEFINE amount == [refund[d] EXCEPT !.amt = task[t].held.amt]
           id == [refund[d] EXCEPT !.id = task[t].rid]
           failed == [refund[d] EXCEPT !.status = "failed"]
           to(pc) == [task[t] EXCEPT !.pc = pc]
<1>3. UNCHANGED <<pay, pid, sent, gwRefund>>
  BY DEF Amount, SaveId, SendFailed, orderVars, gwVars
<1>4. refund[d] \in Refund /\ task[t] \in Task /\ RunOnce(task[t])
  BY DEF Inv, TypeOK, TasksOK, Once
<1>5. /\ amount.status = refund[d].status /\ amount.id = refund[d].id
      /\ id.status = refund[d].status /\ id.id = task[t].rid
      /\ failed.status = "failed" /\ failed.id = refund[d].id
  BY <1>4, Zenon DEF Refund
<1>6. \A pc : to(pc).pc = pc /\ to(pc).doc = d
  BY <1>2, <1>4, Zenon DEF Task
<1>7. \/ task[t].pc = "amount" /\ refund' = [refund EXCEPT ![d] = amount] /\ task' = [task EXCEPT ![t] = to("send")]
      \/ task[t].pc = "saveId" /\ refund' = [refund EXCEPT ![d] = id] /\ task' = [task EXCEPT ![t] = to("processed")]
      \/ task[t].pc = "saveId" /\ refund' = [refund EXCEPT ![d] = id] /\ task' = [task EXCEPT ![t] = Idle]
      \/ task[t].pc = "sendFailed" /\ refund' = [refund EXCEPT ![d] = failed] /\ task' = [task EXCEPT ![t] = Idle]
      \/ task[t].pc = "sendFailed" /\ refund' = refund /\ refund[d].status = "processed" /\ task' = [task EXCEPT ![t] = Idle]
  BY <1>2, Zenon DEF Amount, SaveId, SendFailed, At, GotoIf, Goto, Finish
<1> HIDE DEF amount, id, failed, to
<1>8. task[t].pc = "saveId" => task[t].rid # NoRefund
  <2> SUFFICES ASSUME task[t].pc = "saveId" PROVE task[t].rid # NoRefund
    OBVIOUS
  <2>1. task[t].rid \in RefundIds
    BY DEF Inv, TasksOK, Fits, FitsAt, SentPcs
  <2> QED
    BY <2>1, PaymentsAssumption DEF RefundIds, NoRefund
<1>9. /\ \A e \in Docs \ {d} : refund'[e] = refund[e]
      /\ \A u \in Tasks \ {t} : task'[u] = task[u]
  BY <1>7 DEF Inv, TypeOK, TasksOK
<1>10. \A e \in Docs \ {d} : Carries(e)' <=> Carries(e)
  BY <1>3, <1>9 DEF Carries, Recorded, Unsettled
<1>11. ASSUME NeverFailed(PaymentOf(d))
       PROVE  \A u \in Tasks \ {t} : ~(task[u].pc \in RunnerPcs /\ task[u].doc = d)
  BY <1>1, <1>2, <1>11 DEF Once, OneRunner
<1>12. (NeverFailed(PaymentOf(d))' <=> NeverFailed(PaymentOf(d))) /\ PaymentOf(d)' = PaymentOf(d)
  BY <1>3 DEF NeverFailed, PaymentOf
<1>13. CASE task[t].pc = "amount"
  <2>1. refund'[d] = amount /\ task'[t] = to("send")
    BY <1>7, <1>13 DEF Inv, TypeOK, TasksOK
  <2>2. task'[t].pc = "send" /\ task'[t].doc = d /\ refund'[d].status = refund[d].status /\ refund'[d].id = refund[d].id
    BY <1>5, <1>6, <2>1
  <2>3. NeverFailed(PaymentOf(d)) => sent[PaymentOf(d)] = 0 /\ refund[d].status = "processing" /\ refund[d].id = NoRefund
    BY <1>1, <1>2, <1>4, <1>13 DEF RunOnce
  <2>4. DocOnce(d)'
    BY <1>3, <1>12, <2>2, <2>3 DEF DocOnce, RunnerPcs
  <2>5. RunOnce(task[t])'
    BY <1>3, <1>12, <2>2, <2>3 DEF RunOnce, PaymentOf, NeverFailed
  <2> QED
    BY <1>2, <1>3, <1>9, <1>10, <1>11, <2>2, <2>4, <2>5, OnceMoves DEF StaysFailed
<1>14. CASE task[t].pc \in {"saveId", "sendFailed"}
  <2>1. task'[t].pc \in {"processed", "idle"}
    BY <1>6, <1>7, <1>14, IdleFields DEF Inv, TasksOK
  <2>2. \/ task[t].pc = "saveId" /\ refund'[d].status = refund[d].status /\ refund'[d].id = task[t].rid
        \/ task[t].pc = "sendFailed" /\ refund'[d].status \in {"failed", "processed"}
    BY <1>5, <1>7, <1>14 DEF Inv, TypeOK
  <2>3. NeverFailed(PaymentOf(d)) =>
          /\ refund[d].status \in {"processing", "processed"}
          /\ task[t].pc = "sendFailed" => sent[PaymentOf(d)] = 0
    BY <1>1, <1>2, <1>4, <1>14 DEF RunOnce
  <2>4. DocOnce(d)'
    BY <1>3, <1>8, <1>12, <2>2, <2>3 DEF DocOnce
  <2>5. RunOnce(task[t])' /\ task'[t].pc \notin RunnerPcs
    BY <2>1 DEF RunOnce, RunnerPcs
  <2> QED
    BY <1>2, <1>3, <1>9, <1>10, <1>11, <2>4, <2>5, OnceMoves DEF StaysFailed
<1> QED
  BY <1>7, <1>13, <1>14

\* The writes that answer a refund event, or Razorpay's answer.
LEMMA EventOnce ==
    ASSUME Inv, Kept, Exact = Payments, Once, NEW t \in Tasks, Processed(t) \/ FailedEvent(t) \/ Refunded(t)
    PROVE  Once'
<1>1. PICK d \in Docs : d = task[t].doc
  BY DEF Inv, TasksOK, Task
<1> DEFINE processed == [refund[d] EXCEPT !.status = "processed", !.id = task[t].rid]
           failedId == [refund[d] EXCEPT !.status = "failed", !.id = task[t].rid]
           to(pc) == [task[t] EXCEPT !.pc = pc]
<1>2. UNCHANGED <<pid, sent, gwRefund>> /\ (Unsettled' <=> Unsettled)
  BY DEF Processed, FailedEvent, Refunded, orderVars, gwVars, Unsettled, UNCOUNTABLE
<1>3. refund[d] \in Refund /\ task[t] \in Task /\ Knows(task[t]) /\ Fits(task[t]) /\ RunOnce(task[t])
  BY DEF Inv, TypeOK, TasksOK, Kept, Once
<1>4. processed.status = "processed" /\ failedId.status = "failed"
  BY <1>3, Zenon DEF Refund
<1>5. to("refunded").pc = "refunded"
  BY <1>3, Zenon DEF Task
<1>6. task' = [task EXCEPT ![t] = to("refunded")] \/ task' = [task EXCEPT ![t] = Idle]
  BY Zenon DEF Processed, FailedEvent, Refunded, GotoIf, Goto, Finish
<1>7. \/ refund' = refund
      \/ task[t].pc = "processed" /\ refund' = [refund EXCEPT ![d] = processed]
      \/ task[t].pc = "failedEvent" /\ refund' = [refund EXCEPT ![d] = failedId]
  BY <1>1, Zenon DEF Processed, FailedEvent, Refunded, At
<1>8. task[t].pc \in {"processed", "failedEvent", "refunded"} /\ task[t].pc \notin RunnerPcs
  BY DEF Processed, FailedEvent, Refunded, At, RunnerPcs
<1> HIDE DEF processed, failedId, to
<1>9. task'[t].pc \in {"refunded", "idle"} /\ \A u \in Tasks \ {t} : task'[u] = task[u]
  BY <1>5, <1>6, IdleFields DEF Inv, TasksOK
<1>10. RunOnce(task[t])' /\ task'[t].pc \notin RunnerPcs /\ task'[t].pc # "failedEvent"
  BY <1>9 DEF RunOnce, RunnerPcs
<1>11. CASE refund' = refund
  BY <1>2, <1>8, <1>9, <1>10, <1>11, QuietOnce DEF StaysFailed
<1>12. CASE refund' # refund
  <2>1. task[t].pc \in {"processed", "failedEvent"}
    BY <1>7, <1>12
  <2>2. PICK q \in Payments, n \in 1..MaxRefunds : task[t].rid = <<q, n>>
    BY <1>3, <2>1 DEF Fits, FitsAt, SentPcs, RefundIds
  <2>3. q = PaymentOf(d) /\ Recorded(d)
    BY <1>1, <1>3, <2>1, <2>2 DEF Knows, EngineKnows
  <2>4. gwRefund[<<q, n>>] = IF task[t].pc = "processed" THEN "processed" ELSE "failed"
    BY <1>3, <2>1, <2>2 DEF Fits, FitsAt, RunOnce
  <2>5. task[t].pc = "failedEvent" => ~NeverFailed(q)
    BY <2>4 DEF NeverFailed
  <2>6. sent[q] # 0
    <3>1. ~(n > sent[q])
      BY <2>4 DEF Inv, Unsent
    <3> QED
      BY <3>1, BoundsAssumption
  <2>7. /\ \A e \in Docs \ {d} : refund'[e] = refund[e]
        /\ refund'[d].status = IF task[t].pc = "processed" THEN "processed" ELSE "failed"
    BY <1>4, <1>7, <1>12 DEF Inv, TypeOK
  <2>8. \A e \in Docs \ {d} : Carries(e)' <=> Carries(e)
    BY <1>2, <2>7 DEF Carries, Recorded
  <2>9. NeverFailed(PaymentOf(d))' => NeverFailed(PaymentOf(d))
    BY <1>2 DEF NeverFailed, PaymentOf
  <2>10. DocOnce(d)'
    BY <2>1, <2>3, <2>5, <2>7, <2>9 DEF DocOnce
  <2>11. ASSUME NeverFailed(PaymentOf(d)), NEW u \in Tasks \ {t}, task[u].pc \in RunnerPcs, task[u].doc = d
         PROVE  refund'[d].status = "processed" /\ task[u].pc = "saveId"
    <3>1. RunOnce(task[u])
      BY DEF Once
    <3> QED
      BY <2>1, <2>3, <2>5, <2>6, <2>7, <2>11, <3>1 DEF RunOnce
  <2> QED
    BY <1>2, <1>8, <1>9, <1>10, <2>7, <2>8, <2>10, <2>11, OnceMoves DEF StaysFailed
<1> QED
  BY <1>11, <1>12

\* The call of Razorpay: it is the first for that payment, so Razorpay refuses it only if the
\* payment was not captured.
LEMMA SendOnce ==
    ASSUME Inv, Kept, Exact = Payments, Once, NEW t \in Tasks, Send(t)
    PROVE  Once'
<1>1. task[t].pc = "send" /\ task[t].pc \in RunnerPcs
  BY DEF Send, At, RunnerPcs
<1>2. PICK d \in Docs : d = task[t].doc /\ Carries(d) /\ task[t].p = PaymentOf(d)
  BY <1>1, RunnerDoc
<1>3. PICK p \in Payments : p = PaymentOf(d)
  BY <1>2, CarriesPayment
<1> DEFINE h(s) == [task[t].held EXCEPT !.status = IF s = "processed" THEN s ELSE "processing"]
           saves(s) == [task[t] EXCEPT !.pc = "saveId", !.rid = <<p, sent[p] + 1>>, !.held = h(s)]
           fails == [task[t] EXCEPT !.pc = "sendFailed"]
<1>4. task[t] \in Task /\ RunOnce(task[t])
  BY DEF Inv, TasksOK, Once
<1>5. (\A s : saves(s).pc = "saveId" /\ saves(s).doc = d) /\ fails.pc = "sendFailed" /\ fails.doc = d
  BY <1>2, <1>4, Zenon DEF Task
<1>6. UNCHANGED <<pay, pid, refund>>
  BY DEF Send, orderVars
<1>7. \A e : (Carries(e)' <=> Carries(e)) /\ PaymentOf(e)' = PaymentOf(e)
  BY <1>6 DEF Carries, Recorded, Unsettled, PaymentOf
<1>8. NeverFailed(p) => sent[p] = 0 /\ refund[d].status = "processing" /\ refund[d].id = NoRefund
  BY <1>1, <1>2, <1>3, <1>4 DEF RunOnce
<1>9. ASSUME NeverFailed(p)
      PROVE  \A u \in Tasks \ {t} : ~(task[u].pc \in RunnerPcs /\ task[u].doc = d)
  BY <1>1, <1>2, <1>3, <1>9 DEF Once, OneRunner
<1>10. CASE task' = [task EXCEPT ![t] = fails] /\ UNCHANGED <<sent, gwRefund>>
  <2>1. task'[t].pc = "sendFailed" /\ task'[t].doc = d /\ \A u \in Tasks \ {t} : task'[u] = task[u]
    BY <1>5, <1>10 DEF Inv, TasksOK
  <2>2. NeverFailed(PaymentOf(d))' <=> NeverFailed(p)
    BY <1>3, <1>7, <1>10 DEF NeverFailed
  <2>3. DocOnce(d)'
    BY <1>3, <1>6, <1>7, <1>8, <1>10, <2>1, <2>2 DEF DocOnce, RunnerPcs
  <2>4. RunOnce(task[t])'
    <3>1. PaymentOf(task[t].doc)' = p /\ (NeverFailed(PaymentOf(task[t].doc))' <=> NeverFailed(p))
      BY <1>3, <1>6, <1>10, <2>1 DEF PaymentOf, NeverFailed
    <3> QED
      BY <1>6, <1>8, <1>10, <2>1, <3>1 DEF RunOnce, RunnerPcs
  <2> QED
    BY <1>2, <1>3, <1>6, <1>7, <1>9, <1>10, <2>1, <2>3, <2>4, OnceMoves DEF StaysFailed
<1>11. ASSUME NEW s \in {"pending", "processed"}, CanRefund(p), CreateRefund(p, s),
              task' = [task EXCEPT ![t] = saves(s)]
       PROVE  Once'
  <2>1. task'[t].pc = "saveId" /\ task'[t].doc = d /\ \A u \in Tasks \ {t} : task'[u] = task[u]
    BY <1>5, <1>11 DEF Inv, TasksOK
  <2>2. \A q \in Payments \ {p} : sent'[q] = sent[q]
    BY <1>11 DEF CreateRefund, Inv, TypeOK
  <2>3. StaysFailed
    <3>1. sent[p] + 1 \in 1..MaxRefunds /\ sent[p] + 1 > sent[p]
      BY <1>11, BoundsAssumption DEF CanRefund, Inv, TypeOK
    <3>2. gwRefund[<<p, sent[p] + 1>>] = "none"
      BY <3>1 DEF Inv, Unsent
    <3> QED
      BY <1>11, <3>2 DEF CreateRefund, StaysFailed, Inv, TypeOK
  <2>4. \A q \in Payments : NeverFailed(q)' => NeverFailed(q)
    BY <2>3, StillNeverFailed
  <2>5. ASSUME NEW e \in Docs PROVE DocOnce(e)'
    <3> SUFFICES ASSUME Carries(e), NeverFailed(PaymentOf(e))'
                 PROVE  /\ refund[e].status \in {"none", "pending", "failed"} => sent'[PaymentOf(e)] = 0
                        /\ refund[e].status = "processing" /\ refund[e].id = NoRefund =>
                              \E u \in Tasks : task'[u].pc \in RunnerPcs /\ task'[u].doc = e
      BY <1>6, <1>7 DEF DocOnce
    <3>1. PICK q \in Payments : q = PaymentOf(e)
      BY CarriesPayment
    <3>2. NeverFailed(q)
      <4>1. NeverFailed(q)'
        BY <1>7, <3>1 DEF NeverFailed
      <4> QED
        BY <2>4, <4>1
    <3>3. CASE e = d
      BY <1>3, <1>8, <2>1, <3>1, <3>2, <3>3 DEF RunnerPcs
    <3>4. CASE e # d
      <4>1. q # p
        BY <1>2, <1>3, <3>1, <3>4, CarriesOne
      <4>2. sent'[q] = sent[q]
        BY <2>2, <4>1
      <4>3. DocOnce(e)
        BY DEF Once
      <4>4. \A u \in Tasks : task[u].doc = e => task'[u] = task[u]
        BY <1>2, <2>1, <3>4
      <4> QED
        BY <3>1, <3>2, <4>2, <4>3, <4>4 DEF DocOnce
    <3> QED
      BY <3>3, <3>4
  <2>6. ASSUME NEW u \in Tasks \ {t}, task[u].pc \in RunnerPcs, NeverFailed(PaymentOf(task[u].doc))'
        PROVE  RunOnce(task[u])' /\ task[u].doc # d /\ NeverFailed(PaymentOf(task[u].doc))
    <3>1. PICK e \in Docs, q \in Payments : e = task[u].doc /\ q = PaymentOf(e) /\ Carries(e)
      BY <2>6, RunnerDoc
    <3>2. task'[u] = task[u] /\ PaymentOf(task[u].doc)' = q
      BY <1>6, <2>1, <3>1 DEF PaymentOf
    <3>3. NeverFailed(q)
      <4>1. NeverFailed(q)'
        BY <2>6, <3>2 DEF NeverFailed
      <4> QED
        BY <2>4, <4>1
    <3>4. e # d
      BY <1>3, <1>9, <2>6, <3>1, <3>3
    <3>5. q # p
      BY <1>2, <1>3, <3>1, <3>4, CarriesOne
    <3>6. sent'[q] = sent[q]
      BY <2>2, <3>5
    <3>7. RunOnce(task[u]) /\ task[u].pc # "failedEvent"
      BY <2>6 DEF Once, RunnerPcs
    <3> QED
      BY <1>6, <2>6, <3>1, <3>2, <3>3, <3>4, <3>6, <3>7 DEF RunOnce
  <2>7. ASSUME NEW u \in Tasks PROVE RunOnce(task[u])'
    <3>1. CASE u = t
      <4>1. PaymentOf(task[t].doc)' = p
        BY <1>3, <1>6, <2>1 DEF PaymentOf
      <4>2. NeverFailed(PaymentOf(task[t].doc))' => NeverFailed(p)
        <5>1. NeverFailed(PaymentOf(task[t].doc))' => NeverFailed(p)'
          BY <4>1 DEF NeverFailed
        <5> QED
          BY <2>4, <5>1
      <4> QED
        BY <1>6, <1>8, <2>1, <3>1, <4>2 DEF RunOnce
    <3>2. CASE u # t /\ task[u].pc \in RunnerPcs /\ NeverFailed(PaymentOf(task[u].doc))'
      BY <2>6, <3>2
    <3>3. CASE u # t /\ ~(task[u].pc \in RunnerPcs /\ NeverFailed(PaymentOf(task[u].doc))')
      <4>1. task'[u] = task[u] /\ RunOnce(task[u])
        BY <2>1, <3>3 DEF Once
      <4>2. task[u].pc = "failedEvent" => gwRefund'[task[u].rid] = "failed"
        BY <2>3, <4>1 DEF RunOnce, StaysFailed, Inv, TasksOK, Fits, FitsAt, SentPcs
      <4> QED
        BY <3>3, <4>1, <4>2 DEF RunOnce
    <3> QED
      BY <3>1, <3>2, <3>3
  <2>8. OneRunner'
    <3> SUFFICES ASSUME NEW u \in Tasks, NEW w \in Tasks, u # w,
                        task'[u].pc \in RunnerPcs, task'[w].pc \in RunnerPcs, task'[u].doc = task'[w].doc,
                        NeverFailed(PaymentOf(task[u].doc))'
                 PROVE  FALSE
      BY DEF OneRunner
    <3>1. NeverFailed(PaymentOf(task[w].doc))'
      BY DEF NeverFailed, PaymentOf
    <3>2. CASE u # t /\ w # t
      <4>1. task'[u] = task[u] /\ task'[w] = task[w]
        BY <2>1, <3>2
      <4>2. NeverFailed(PaymentOf(task[u].doc))
        BY <2>6, <3>2, <4>1
      <4> QED
        BY <4>1, <4>2 DEF Once, OneRunner
    <3>3. CASE u = t
      BY <2>1, <2>6, <3>1, <3>3
    <3>4. CASE w = t
      BY <2>1, <2>6, <3>4
    <3> QED
      BY <3>2, <3>3, <3>4
  <2> QED
    BY <2>5, <2>7, <2>8 DEF Once
<1>12. \/ task' = [task EXCEPT ![t] = fails] /\ UNCHANGED <<sent, gwRefund>>
       \/ \E s \in {"pending", "processed"} :
             CanRefund(p) /\ CreateRefund(p, s) /\ task' = [task EXCEPT ![t] = saves(s)]
  BY <1>2, <1>3, ZenonT(40) DEF Send, Goto
<1> QED
  BY <1>10, <1>11, <1>12

\* A new stray is of a payment nothing was sent for.
LEMMA StrayInsertOnce ==
    ASSUME Inv, Kept, Exact = Payments, Once, NEW t \in Tasks, StrayInsert(t)
    PROVE  Once'
<1> DEFINE r == [EmptyRefund EXCEPT !.status = "pending", !.amt = task[t].p]
<1>1. PICK p \in Payments : p = task[t].p
  BY DEF Inv, TasksOK, Fits, FitsAt, StrayInsert, At, SettlePcs
<1>2. PICK d \in Docs : d = <<"duplicate_payment", p>> /\ d # OrderDoc
  BY DocTypes DEF Kinds
<1>3. task[t].doc = d /\ pid # p /\ ~Unsettled
  BY <1>1, <1>2 DEF Kept, Knows, SettleKnows, StrayInsert, At
<1>4. UNCHANGED <<pay, pid, sent, gwRefund>> /\ task' = [task EXCEPT ![t] = Idle]
  BY DEF StrayInsert, orderVars, gwVars, Finish
<1>5. refund' = refund \/ (refund' = [refund EXCEPT ![d] = r] /\ ~Recorded(d))
  BY <1>3, Zenon DEF StrayInsert, Recorded
<1>6. r.status = "pending"
  BY EmptyTypes, Zenon DEF Refund
<1> HIDE DEF r
<1>7. task[t].pc \notin RunnerPcs /\ Idle.pc \notin RunnerPcs /\ Idle.pc # "failedEvent"
  BY IdleFields DEF StrayInsert, At, RunnerPcs
<1>8. CASE refund' = refund
  BY <1>4, <1>7, <1>8, HandlerOnce
<1>9. CASE refund' = [refund EXCEPT ![d] = r] /\ ~Recorded(d)
  <2>1. /\ refund'[d].status = "pending" /\ \A e \in Docs \ {d} : refund'[e] = refund[e]
        /\ task'[t] = Idle /\ \A u \in Tasks \ {t} : task'[u] = task[u]
    BY <1>4, <1>6, <1>9 DEF Inv, TypeOK, TasksOK
  <2>2. sent[p] = 0
    <3>1. ~IsStray(p)
      BY <1>2, <1>9 DEF IsStray, Kinds, Recorded, Kept, Money, StrayRefunds
    <3>2. sent[p] \in Nat
      BY BoundsAssumption DEF Inv, TypeOK
    <3> QED
      BY <1>3, <3>1, <3>2 DEF Kept, Money, SentIsOwed
  <2>3. PaymentOf(d)' = p
    BY <1>2 DEF PaymentOf
  <2>4. DocOnce(d)'
    BY <1>4, <2>1, <2>2, <2>3 DEF DocOnce
  <2>5. RunOnce(task[t])' /\ task'[t].pc \notin RunnerPcs
    BY <1>7, <2>1 DEF RunOnce
  <2>6. \A u \in Tasks : task[u].pc \in RunnerPcs => task[u].doc # d
    BY <1>2, <1>9, RunnerDoc DEF Carries
  <2>7. \A e \in Docs \ {d} : Carries(e)' <=> Carries(e)
    BY <1>4, <2>1 DEF Carries, Recorded, Unsettled
  <2> QED
    BY <1>4, <1>7, <2>1, <2>4, <2>5, <2>6, <2>7, OnceMoves DEF StaysFailed
<1> QED
  BY <1>5, <1>8, <1>9

\* The payment counted is one nothing was sent for.
LEMMA CountOnce ==
    ASSUME Inv, Kept, Exact = Payments, Once, NEW t \in Tasks, Count(t)
    PROVE  Once'
<1> DEFINE to == [task[t] EXCEPT !.pc = "settings"]
           stray == [task[t] EXCEPT !.pc = "strayCheck", !.doc = <<"duplicate_payment", task[t].p>>]
<1>1. task[t] \in Task /\ task[t].pc = "count" /\ task[t].pc \notin RunnerPcs
  BY DEF Inv, TasksOK, Count, At, RunnerPcs
<1>2. to.pc = "settings" /\ stray.pc = "strayCheck"
  BY <1>1, Zenon DEF Task
<1>3. \/ task' = [task EXCEPT ![t] = to]
      \/ task' = [task EXCEPT ![t] = stray]
      \/ task' = [task EXCEPT ![t] = Idle]
  BY Zenon DEF Count, GotoIf, Goto, Finish
<1> HIDE DEF to, stray
<1>4. PICK v : task' = [task EXCEPT ![t] = v] /\ v.pc \in {"settings", "strayCheck", "idle"}
  BY <1>2, <1>3, IdleFields
<1>5. v.pc \notin RunnerPcs /\ v.pc # "failedEvent"
  BY <1>4 DEF RunnerPcs
<1>6. UNCHANGED <<refund, sent, gwRefund>>
  BY DEF Count, gwVars
<1>7. CASE ~Unsettled
  <2>1. UNCHANGED <<pay, pid>>
    BY <1>7 DEF Count
  <2> QED
    BY <1>1, <1>4, <1>5, <1>6, <2>1, HandlerOnce
<1>8. CASE Unsettled
  <2>1. PICK p \in Payments : p = task[t].p
    BY <1>1 DEF Inv, TasksOK, Fits, FitsAt, SettlePcs
  <2>2. pay' = "paid" /\ pid' = p
    BY <1>8, <2>1 DEF Count
  <2>3. task'[t] = v /\ \A u \in Tasks \ {t} : task'[u] = task[u]
    BY <1>4 DEF Inv, TasksOK
  <2>4. \A d \in Docs : d # OrderDoc => (Carries(d)' <=> Carries(d)) /\ PaymentOf(d)' = PaymentOf(d)
    BY <1>6 DEF Carries, Recorded, PaymentOf
  <2>5. \A q \in Payments : NeverFailed(q)' <=> NeverFailed(q)
    BY <1>6 DEF NeverFailed
  <2>6. sent[p] = 0 /\ refund[OrderDoc].status = "none"
    <3>1. ~IsStray(p)
      BY <1>8 DEF Kept, Money, StrayRefunds, IsStray, Recorded, Kinds
    <3>2. sent[p] \in Nat
      BY BoundsAssumption DEF Inv, TypeOK
    <3>3. ~Due /\ ~Flagged
      BY <1>8 DEF Due, Flagged
    <3> QED
      BY <3>1, <3>2, <3>3 DEF Kept, Money, SentIsOwed, OrderRefund, Recorded
  <2>7. \A u \in Tasks : task[u].pc \in RunnerPcs => task[u].doc \in Docs /\ task[u].doc # OrderDoc
    BY <1>8, RunnerDoc DEF Carries
  <2>8. ASSUME NEW d \in Docs PROVE DocOnce(d)'
    <3>1. CASE d = OrderDoc
      <4>1. PaymentOf(d)' = p
        BY <2>2, <3>1 DEF PaymentOf
      <4> QED
        BY <1>6, <2>6, <3>1, <4>1 DEF DocOnce
    <3>2. CASE d # OrderDoc
      <4>1. (Carries(d)' <=> Carries(d)) /\ PaymentOf(d)' = PaymentOf(d)
        BY <2>4, <3>2
      <4>2. NeverFailed(PaymentOf(d))' <=> NeverFailed(PaymentOf(d))
        BY <1>6, <4>1 DEF NeverFailed
      <4>3. \A u \in Tasks : task[u].pc \in RunnerPcs => task'[u] = task[u]
        BY <1>1, <2>3
      <4>4. DocOnce(d)
        BY DEF Once
      <4> QED
        BY <1>6, <4>1, <4>2, <4>3, <4>4 DEF DocOnce
    <3> QED
      BY <3>1, <3>2
  <2>9. ASSUME NEW u \in Tasks PROVE RunOnce(task[u])'
    <3>1. CASE u = t
      BY <1>5, <2>3, <3>1 DEF RunOnce
    <3>2. CASE u # t
      <4>1. task'[u] = task[u] /\ RunOnce(task[u])
        BY <2>3, <3>2 DEF Once
      <4>2. CASE task[u].pc \in RunnerPcs
        <5>1. PaymentOf(task[u].doc)' = PaymentOf(task[u].doc)
          BY <2>7, <4>1, <4>2 DEF PaymentOf
        <5>2. NeverFailed(PaymentOf(task[u].doc))' <=> NeverFailed(PaymentOf(task[u].doc))
          BY <1>6, <5>1 DEF NeverFailed
        <5> QED
          BY <1>6, <4>1, <5>1, <5>2 DEF RunOnce
      <4>3. CASE task[u].pc \notin RunnerPcs
        BY <1>6, <4>1, <4>3 DEF RunOnce
      <4> QED
        BY <4>2, <4>3
    <3> QED
      BY <3>1, <3>2
  <2>10. OneRunner'
    <3>1. \A u \in Tasks : task'[u].pc \in RunnerPcs => task'[u] = task[u] /\ task[u].pc \in RunnerPcs
      BY <1>5, <2>3
    <3>2. \A u \in Tasks : task[u].pc \in RunnerPcs /\ task'[u] = task[u] =>
             (NeverFailed(PaymentOf(task[u].doc))' <=> NeverFailed(PaymentOf(task[u].doc)))
      BY <1>6, <2>7 DEF NeverFailed, PaymentOf
    <3> QED
      BY <3>1, <3>2 DEF Once, OneRunner
  <2> QED
    BY <2>8, <2>9, <2>10 DEF Once
<1> QED
  BY <1>7, <1>8

\* No payment is refused, so none is flagged or moved.
LEMMA NoRefusal ==
    ASSUME Inv, Kept, Exact = Payments, NEW t \in Tasks,
           AlreadyFlagged(t) \/ Flag(t) \/ FailOrder(t) \/ MoveCopy(t) \/ MoveClear(t)
    PROVE  FALSE
<1>1. Knows(task[t]) /\ Fits(task[t])
  BY DEF Kept, Inv, TasksOK
<1>2. CASE AlreadyFlagged(t) \/ Flag(t) \/ FailOrder(t)
  BY <1>1, <1>2 DEF AlreadyFlagged, Flag, FailOrder, At, Knows, SettleKnows, Fits, FitsAt, SettlePcs
<1>3. CASE MoveCopy(t) \/ MoveClear(t)
  BY <1>1, <1>3 DEF MoveCopy, MoveClear, At, Knows, SettleKnows, Flagged
<1> QED
  BY <1>2, <1>3

LEMMA OnceInit == Init => Once
<1> SUFFICES ASSUME Init PROVE Once
  OBVIOUS
<1>1. \A d \in Docs : ~Carries(d)
  BY DEF Init, Carries, Recorded, EmptyRefund, Unsettled, UNCOUNTABLE
<1>2. \A u \in Tasks : task[u].pc = "idle"
  BY IdleFields DEF Init
<1> QED
  BY <1>1, <1>2 DEF Once, DocOnce, RunOnce, OneRunner, RunnerPcs

LEMMA OnceNext ==
    ASSUME MaxFaults = 0, Exact = Payments, Inv, Kept, Once, [Next]_vars
    PROVE  Once'
<1>1. CASE \/ \E p \in Payments : Pay(p) \/ AutoCapture(p)
           \/ \E r \in RefundIds : GatewaySettles(r)
           \/ Accept \/ StartPreparing \/ Deliver
           \/ PaymentFailedEvent \/ BadSignature \/ RetryPayment
           \/ UNCHANGED vars
  BY <1>1, WorldOnce
<1>2. CASE \/ \E byCustomer \in BOOLEAN : Cancel(byCustomer)
           \/ \E t \in Tasks, p \in Payments : Verify(t, p) \/ Webhook(t, p)
           \/ \E t \in Tasks, d \in Docs : RetryRefund(t, d)
  BY <1>2, StartOnce
<1>3. CASE \E t \in Tasks, r \in RefundIds : RefundWebhook(t, r)
  BY <1>3, RefundWebhookOnce
<1>4. ASSUME NEW t \in Tasks, SettleStep(t) PROVE Once'
  BY <1>4, SettleOnce, NoRefusal, StrayInsertOnce, CountOnce DEF SettleStep
<1>5. ASSUME NEW t \in Tasks, RefundStep(t) PROVE Once'
  BY <1>5, SettleOnce, ClaimOnce, RunnerOnce, SendOnce, EventOnce DEF RefundStep
<1>6. CASE (\E t \in Tasks : SendLost(t) \/ HandlerError(t)) \/ Crash
  BY <1>6 DEF SendLost, HandlerError, Crash, Fault, Inv, TypeOK
<1> QED
  BY <1>1, <1>2, <1>3, <1>4, <1>5, <1>6 DEF Next

\* runRefund's claim, for any number of payments, handlers in flight, cancellations, retries and
\* webhooks: while no handler fails and no payment is refused, a second refund of a payment is asked
\* for only after Razorpay failed one.
THEOREM RefundIsSentOnce ==
    ASSUME MaxFaults = 0, Exact = Payments
    PROVE  Spec => []SendsOnce
<1>1. Spec => [](Inv /\ Kept)
  BY KeptAlways DEF Apart
<1>2. Inv /\ Kept /\ Once /\ [Next]_vars => Once'
  BY OnceNext
<1>3. Inv /\ Kept /\ Once => SendsOnce
  <2> SUFFICES ASSUME Inv, Kept, Once, NEW t \in Tasks, At(t, "send"), NeverFailed(task[t].p)
               PROVE  sent[task[t].p] = 0
    BY DEF SendsOnce
  <2>1. task[t].pc = "send" /\ task[t].pc \in RunnerPcs
    BY DEF At, RunnerPcs
  <2>2. task[t].p = PaymentOf(task[t].doc) /\ RunOnce(task[t])
    BY <2>1, RunnerDoc DEF Once
  <2> QED
    BY <2>1, <2>2 DEF RunOnce
<1> QED
  BY <1>1, <1>2, <1>3, OnceInit, PTL DEF Spec
=============================================================================
