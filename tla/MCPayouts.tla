----------------------------- MODULE MCPayouts -----------------------------
(***************************************************************************)
(* Small instances for TLC of what restaurants and riders are paid:        *)
(* SettlementWeek, PayoutBatch and RiderPay.  They share no state: a       *)
(* behaviour is of one `part' and leaves the others.  A part is its        *)
(* module's specification, bounded further where it says so:               *)
(*   week      two weeks and two generators;                               *)
(*   alone     one settlement and one handler: two transfers, two batches; *)
(*   several   two settlements in a batch and one handler;                 *)
(*   together  one settlement, two handlers at once, two batches;          *)
(*   rider     a rider's first week and delivery, two requests at once;    *)
(*   riderlone two deliveries and weeks, a row of an old week paid or      *)
(*             pending, one request at a time, which may die.              *)
(***************************************************************************)
EXTENDS SettlementWeek, PayoutBatch, RiderPay, TLC

CONSTANTS s1, s2, b1, b2, h1, h2, d1, d2, f1, f2

VARIABLE part

Parts == {"week", "alone", "several", "together", "rider", "riderlone"}

MCInit ==
    /\ part \in Parts
    /\ Init /\ PayoutInit /\ RiderInit
    /\ part # "riderlone" => old.status = "none" /\ \A d \in Deliveries : when[d].week = 0

\* Bounds of the steps of payouts: the settlements paid, one handler at a time, the transfers
\* of each, no new bank accounts, one batch at a time.
Of(S) == \A s \in Settlements \ S : saving'[s] = "no" /\ ~verified'[s]
OneHandler == Cardinality({t \in PayoutTasks : ptask'[t].pc # "idle"}) <= 1
OneTransfer ==
    /\ \A s \in Settlements : pay'[s].attempts <= 1
    /\ \A t \in PayoutTasks, s \in Settlements : ptask'[t].att[s] <= 1
OneAccount == \A s \in Settlements : saving'[s] = "no"
OneBatch == Cardinality({b \in Batches : batch'[b] # "none"}) <= 1
NotCancelled == \A t \in PayoutTasks : ptask'[t].pc # "withdraw"

\* Bounds of the steps of riders' payouts.
OneRequest == Cardinality({t \in RiderTasks : rtask'[t].pc # "idle"}) <= 1
OneDelivery == Cardinality({d \in Deliveries : when'[d].week # 0}) <= 1
FirstWeek == \A t \in RiderTasks : rtask'[t].w = 1 /\ rtask'[t].todo \subseteq {1}
OneRef ==
    LET used == {row'[w].ref : w \in RiderWeeks} \union {rtask'[t].ref : t \in RiderTasks}
    IN Cardinality(used \ {NoRef}) <= 1

MCNext ==
    \/ part = "week" /\ Next /\ UNCHANGED <<part, batchVars, riderVars>>
    \/ /\ part = "alone" /\ PayoutNext /\ Of({s1}) /\ OneHandler
       /\ UNCHANGED <<part, vars, riderVars>>
    \/ /\ part = "several" /\ PayoutNext /\ OneHandler /\ OneTransfer /\ OneAccount /\ OneBatch
       /\ UNCHANGED <<part, vars, riderVars>>
    \/ /\ part = "together" /\ PayoutNext /\ Of({s1}) /\ OneTransfer /\ OneAccount /\ NotCancelled
       /\ UNCHANGED <<part, vars, riderVars>>
    \/ /\ part = "rider" /\ RiderNext /\ now' <= 2 /\ OneDelivery /\ FirstWeek /\ crashes' = 0
       /\ UNCHANGED <<part, vars, batchVars>>
    \/ /\ part = "riderlone" /\ RiderNext /\ OneRequest /\ OneRef
       /\ UNCHANGED <<part, vars, batchVars>>

MCSpec == MCInit /\ [][MCNext]_<<part, vars, batchVars, riderVars>>

SmallAmounts == {3, 1, -2}
\* Handlers are interchangeable, and so are the batches, the references and the deliveries.
Names == (b1 :> b2) @@ (b2 :> b1) @@ (f1 :> f2) @@ (f2 :> f1) @@ (d1 :> d2) @@ (d2 :> d1)
Sym == Permutations({h1, h2}) \union {Names}

\* Every module's variables have their types.
TypesOK == TypeOK /\ PayoutTypeOK /\ RiderTypeOK

\* RiderPay's PaidIsEarned: with one request at a time, a rider's week is paid on
\* every delivery of it, and once.
LonePaidIsEarned == part = "riderlone" => PaidIsEarned
=============================================================================
