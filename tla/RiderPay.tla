------------------------------ MODULE RiderPay ------------------------------
(***************************************************************************)
(* What one rider is owed: the weekly payouts of services/payout.service.js*)
(* (computed on read, adjusted and marked paid by administrators), the     *)
(* script that retires rows of the old UTC weeks, and the cash a rider     *)
(* collects and deposits (cashLedger.service.js, deposit.controller.js).   *)
(*                                                                         *)
(* Every delivery earns 1 and collects 1 in cash.  Incentives less         *)
(* deductions are one number, `extra'.  A handler is a sequence of         *)
(* database calls; cash in hand is read in one.  There is at most one row  *)
(* of an old week (`old'), over dates of the first weeks, and the script   *)
(* carries it over to week 1.  Monthly rows are statements nobody pays and *)
(* rows returned unsaved under the old index are left out.                 *)
(*                                                                         *)
(* A definition X_Y is X with the seeded fault Y.                          *)
(***************************************************************************)
EXTENDS Integers, FiniteSets

CONSTANTS
    Deliveries,  \* deliveries the rider may make
    RiderTasks,  \* requests served at the same time
    Refs,        \* references of bank transfers
    NoRef,       \* no reference
    MaxWeek,     \* bound: weeks
    Legacy,      \* what may have become of the old week's row before
    MaxCrashes   \* bound: handlers that die

\* What the constants have to be.
RiderConstantsOK ==
    /\ IsFiniteSet(Deliveries)
    /\ MaxWeek \in Nat \ {0} /\ MaxCrashes \in Nat
    /\ Legacy \subseteq {"none", "pending", "paid"}
ASSUME RiderAssumption == RiderConstantsOK

RiderWeeks == 1..MaxWeek
Extras == {-1, 0, 1}

VARIABLES
    now,        \* the current week
    when,       \* a delivery's deliveredAt: its week (0: not delivered), within the old row's dates?
    row,        \* the Payout row of each week
    old,        \* the Payout row of the old week
    deposited,  \* CashDeposit amounts together
    rtask,      \* requests in flight
    crashes     \* handlers that died

riderVars == <<now, when, row, old, deposited, rtask, crashes>>

RiderStatuses == {"none", "pending", "paid"}
RiderRow == [status : RiderStatuses, gross : Nat, extra : Int, net : Int, ref : Refs \union {NoRef}]
NoRiderRow == [status |-> "none", gross |-> 0, extra |-> 0, net |-> 0, ref |-> NoRef]

RiderPcs == {"idle", "existing", "overlaps", "remove", "earned", "write", "adjust", "pay", "move", "drop",
        "deposit"}
\* op: what the request is for; w, todo: the week worked on and those left; ref: the transfer's;
\* saw: the row as last read or returned; x: an amount; excl: leave out what the old row paid.
RiderTask ==
    [pc : RiderPcs, op : {"none", "list", "adjust", "pay", "bulk", "migrate", "deposit"},
     w : RiderWeeks, todo : SUBSET RiderWeeks, ref : Refs \union {NoRef}, saw : RiderRow, x : Int,
     excl : BOOLEAN]
RiderIdle ==
    [pc |-> "idle", op |-> "none", w |-> 1, todo |-> {}, ref |-> NoRef, saw |-> NoRiderRow, x |-> 0,
     excl |-> FALSE]

\* Some deliveries were made within the old week's dates, before its row was paid or left pending.
RiderInit ==
    /\ now = 1
    /\ \E done \in SUBSET Deliveries :
          when = [d \in Deliveries |-> [week |-> IF d \in done THEN 1 ELSE 0, old |-> d \in done]]
    /\ row = [w \in RiderWeeks |-> NoRiderRow]
    /\ old \in {r \in [status : Legacy, extra : {0, 1}] : r.status # "pending" => r.extra = 0}
    /\ deposited = 0
    /\ rtask = [t \in RiderTasks |-> RiderIdle]
    /\ crashes = 0

-----------------------------------------------------------------------------
RiderAt(t, pc) == rtask[t].pc = pc
RiderBecomes(t, v) == rtask' = [rtask EXCEPT ![t] = v]
RiderFinish(t) == RiderBecomes(t, RiderIdle)

Least(S) == CHOOSE w \in S : \A v \in S : w <= v

\* The next of the weeks to do, if any.
NextWeek(t) ==
    LET left == rtask[t].todo \ {rtask[t].w} IN
    IF left = {} THEN RiderFinish(t)
    ELSE RiderBecomes(t, [rtask[t] EXCEPT !.pc = "existing", !.todo = left, !.w = Least(left)])

\* ensurePayoutForPeriod returns row r to the request that called it.
Return(t, r) ==
    CASE rtask[t].op = "list" -> NextWeek(t)
      [] rtask[t].op = "pay" /\ r.net <= 0 -> RiderFinish(t)
      [] rtask[t].op = "migrate" /\ r.status = "paid" -> RiderFinish(t)
      [] rtask[t].op = "migrate" /\ r.status # "paid" ->
            RiderBecomes(t, [rtask[t] EXCEPT !.pc = "move", !.saw = r])
      [] OTHER -> RiderBecomes(t, [rtask[t] EXCEPT !.pc = "pay"])

\* earningsIn
Earned(w, excl) == Cardinality({d \in Deliveries : when[d].week = w /\ ~(excl /\ when[d].old)})

-----------------------------------------------------------------------------
(* ensurePayoutForPeriod, call by call.                                    *)

FindExisting(t) ==
    /\ RiderAt(t, "existing")
    /\ LET r == row[rtask[t].w] IN
       IF r.status = "paid" THEN Return(t, r)
       ELSE RiderBecomes(t, [rtask[t] EXCEPT !.pc = "overlaps", !.saw = r])
    /\ UNCHANGED <<now, when, row, old, deposited, crashes>>
FindOverlaps(t) ==
    /\ RiderAt(t, "overlaps")
    /\ RiderBecomes(t, [rtask[t] EXCEPT
           !.pc = IF old.status = "pending" /\ old.extra = 0 THEN "remove" ELSE "earned",
           !.excl = old.status = "paid"])
    /\ UNCHANGED <<now, when, row, old, deposited, crashes>>
RemoveSuperseded(t) ==
    /\ RiderAt(t, "remove")
    /\ old' = IF old.status = "pending" /\ old.extra = 0 THEN [old EXCEPT !.status = "none"] ELSE old
    /\ RiderBecomes(t, [rtask[t] EXCEPT !.pc = "earned"])
    /\ UNCHANGED <<now, when, row, deposited, crashes>>
AddUp(t) ==
    /\ RiderAt(t, "earned")
    /\ RiderBecomes(t, [rtask[t] EXCEPT !.pc = "write", !.x = Earned(rtask[t].w, rtask[t].excl)])
    /\ UNCHANGED <<now, when, row, old, deposited, crashes>>
WriteRow(t) ==
    /\ RiderAt(t, "write")
    /\ LET w == rtask[t].w
           r == [row[w] EXCEPT !.status = "pending", !.gross = rtask[t].x,
                               !.net = rtask[t].x + rtask[t].saw.extra]
       IN IF row[w].status # "paid" THEN row' = [row EXCEPT ![w] = r] /\ Return(t, r)
          ELSE Return(t, row[w]) /\ UNCHANGED row
    /\ UNCHANGED <<now, when, old, deposited, crashes>>

-----------------------------------------------------------------------------
(* What riders and administrators ask for.                                 *)

\* listPayoutsForPartner, getPayoutSummary: ensureRecent, the week before and this one.
StartList(t) ==
    /\ RiderAt(t, "idle")
    /\ LET todo == {now - 1, now} \intersect RiderWeeks IN
       /\ todo # {}
       /\ RiderBecomes(t, [RiderIdle EXCEPT
              !.pc = "existing", !.op = "list", !.todo = todo, !.w = Least(todo)])
    /\ UNCHANGED <<now, when, row, old, deposited, crashes>>

\* adjustPayout: looks at the row, then saves what it changed of the document it read.
StartAdjust(t) ==
    /\ RiderAt(t, "idle")
    /\ \E w \in RiderWeeks, x \in Extras :
          /\ row[w].status = "pending" /\ x # row[w].extra /\ row[w].gross + x >= 0
          /\ RiderBecomes(t, [RiderIdle EXCEPT
                 !.pc = "adjust", !.op = "adjust", !.w = w, !.saw = row[w], !.x = x])
    /\ UNCHANGED <<now, when, row, old, deposited, crashes>>
Adjust(t) ==
    /\ RiderAt(t, "adjust")
    /\ LET saw == rtask[t].saw
           net == saw.gross + rtask[t].x
       IN row' = [row EXCEPT ![rtask[t].w].extra = rtask[t].x,
                             ![rtask[t].w].net = IF net # saw.net THEN net ELSE @]
    /\ RiderFinish(t)
    /\ UNCHANGED <<now, when, old, deposited, crashes>>

\* Pending, and the week is over.
Payable(w) == row[w].status = "pending" /\ w < now

\* markPayoutPaid: with the transfer's reference, which no other payout has; the payout and the
\* references are read in one step.
StartPay_NotRecomputed(t) ==
    /\ RiderAt(t, "idle")
    /\ \E w \in RiderWeeks, f \in Refs :
          /\ Payable(w) /\ \A v \in RiderWeeks \ {w} : row[v].ref # f
          /\ row[w].net > 0
          /\ RiderBecomes(t, [RiderIdle EXCEPT !.pc = "pay", !.op = "pay", !.w = w, !.ref = f])
    /\ UNCHANGED <<now, when, row, old, deposited, crashes>>
StartPay(t) ==
    /\ RiderAt(t, "idle")
    /\ \E w \in RiderWeeks, f \in Refs :
          /\ Payable(w) /\ \A v \in RiderWeeks \ {w} : row[v].ref # f
          /\ RiderBecomes(t, [RiderIdle EXCEPT !.pc = "existing", !.op = "pay", !.w = w, !.ref = f])
    /\ UNCHANGED <<now, when, row, old, deposited, crashes>>
\* markPayoutsPaid
StartBulk(t) ==
    /\ RiderAt(t, "idle")
    /\ \E S \in SUBSET {w \in RiderWeeks : Payable(w)} :
          /\ S # {}
          /\ RiderBecomes(t, [RiderIdle EXCEPT
                 !.pc = "existing", !.op = "bulk", !.todo = S, !.w = Least(S)])
    /\ UNCHANGED <<now, when, row, old, deposited, crashes>>
\* ... both end in a conditional update; the bulk one writes no reference.
Paid(t, w) == [row EXCEPT ![w].status = "paid", ![w].ref = IF rtask[t].op = "pay" THEN rtask[t].ref ELSE @]
Settle_Unconditional(t) ==
    /\ RiderAt(t, "pay")
    /\ row' = Paid(t, rtask[t].w)
    /\ IF rtask[t].op = "pay" THEN RiderFinish(t) ELSE NextWeek(t)
    /\ UNCHANGED <<now, when, old, deposited, crashes>>
Settle(t) ==
    /\ RiderAt(t, "pay")
    /\ row' = IF row[rtask[t].w].status = "pending" THEN Paid(t, rtask[t].w) ELSE row
    /\ IF rtask[t].op = "pay" THEN RiderFinish(t) ELSE NextWeek(t)
    /\ UNCHANGED <<now, when, old, deposited, crashes>>

-----------------------------------------------------------------------------
(* migratePayoutPeriods --apply: what an administrator entered on the old  *)
(* row is moved to week 1's and the old row deleted.                       *)

StartMigration(t) ==
    /\ RiderAt(t, "idle") /\ old.status = "pending"
    /\ RiderBecomes(t, [RiderIdle EXCEPT !.pc = IF old.extra = 0 THEN "drop" ELSE "existing", !.op = "migrate"])
    /\ UNCHANGED <<now, when, row, old, deposited, crashes>>
Move(t) ==
    /\ RiderAt(t, "move")
    /\ LET extra == rtask[t].saw.extra + old.extra IN
       IF row[1].status = "pending"
       THEN /\ row' = [row EXCEPT ![1].extra = extra, ![1].net = rtask[t].saw.gross + extra]
            /\ RiderBecomes(t, [rtask[t] EXCEPT !.pc = "drop"])
       ELSE RiderFinish(t) /\ UNCHANGED row
    /\ UNCHANGED <<now, when, old, deposited, crashes>>
Drop(t) ==
    /\ RiderAt(t, "drop")
    /\ old' = IF old.status = "pending" THEN [status |-> "none", extra |-> 0] ELSE old
    /\ RiderFinish(t)
    /\ UNCHANGED <<now, when, row, deposited, crashes>>

-----------------------------------------------------------------------------
(* Cash: getCashInHand, then createDeposit.                                *)

Collected == Cardinality({d \in Deliveries : when[d].week # 0})
StartDeposit(t) ==
    /\ RiderAt(t, "idle")
    /\ \E a \in 1..Cardinality(Deliveries) :
          /\ a <= Collected - deposited
          /\ RiderBecomes(t, [RiderIdle EXCEPT !.pc = "deposit", !.op = "deposit", !.x = a])
    /\ UNCHANGED <<now, when, row, old, deposited, crashes>>
Deposit(t) ==
    /\ RiderAt(t, "deposit")
    /\ deposited' = deposited + rtask[t].x
    /\ RiderFinish(t)
    /\ UNCHANGED <<now, when, row, old, crashes>>

-----------------------------------------------------------------------------
\* deliverOrder: the save that stamps deliveredAt and the cash collected.
Deliver(d) ==
    /\ when[d].week = 0 /\ now \in RiderWeeks
    /\ when' = [when EXCEPT ![d] = [week |-> now, old |-> FALSE]]
    /\ UNCHANGED <<now, row, old, deposited, rtask, crashes>>
WeekEnds ==
    /\ now <= MaxWeek
    /\ now' = now + 1
    /\ UNCHANGED <<when, row, old, deposited, rtask, crashes>>
RiderDies(t) ==
    /\ ~RiderAt(t, "idle") /\ crashes < MaxCrashes
    /\ crashes' = crashes + 1
    /\ RiderFinish(t)
    /\ UNCHANGED <<now, when, row, old, deposited>>

RequestStep(t) ==
    \/ FindExisting(t) \/ FindOverlaps(t) \/ RemoveSuperseded(t) \/ AddUp(t) \/ WriteRow(t)
    \/ StartList(t) \/ StartAdjust(t) \/ Adjust(t)
    \/ StartPay(t) \/ StartBulk(t) \/ Settle(t)
    \/ StartMigration(t) \/ Move(t) \/ Drop(t)
    \/ StartDeposit(t) \/ Deposit(t)
    \/ RiderDies(t)
RiderNext ==
    \/ \E t \in RiderTasks : RequestStep(t)
    \/ \E d \in Deliveries : Deliver(d)
    \/ WeekEnds

RiderSpec == RiderInit /\ [][RiderNext]_riderVars

-----------------------------------------------------------------------------
RiderTypeOK ==
    /\ now \in 1..MaxWeek + 1
    /\ when \in [Deliveries -> [week : 0..MaxWeek, old : BOOLEAN]]
    /\ row \in [RiderWeeks -> RiderRow]
    /\ old \in [status : RiderStatuses, extra : {0, 1}]
    /\ deposited \in Nat
    /\ rtask \in [RiderTasks -> RiderTask]
    /\ crashes \in 0..MaxCrashes

\* A paid week was paid on every delivery made in it and on none the old row had paid for, plus
\* what administrators entered: the recomputation in markPayoutPaid and markPayoutsPaid.
PaidIsEarned ==
    \A w \in RiderWeeks : row[w].status = "paid" =>
        /\ row[w].gross = Earned(w, old.status = "paid")
        /\ row[w].net = row[w].gross + row[w].extra

\* Once paid a payout stays paid with the reference of its transfer, whoever else marks it paid
\* or recomputes it at the same time.
StaysPaid ==
    \A w \in RiderWeeks : row[w].status = "paid" => row'[w].status = "paid" /\ row'[w].ref = row[w].ref
PaidForGood == [][StaysPaid]_riderVars
=============================================================================
