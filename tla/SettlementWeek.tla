--------------------------- MODULE SettlementWeek ---------------------------
(***************************************************************************)
(* One restaurant's weekly settlements (services/settlement.service.js):   *)
(* generators that claim ledger rows, carry a negative week into the next  *)
(* one and total the week under the settlement's generationLock; the undo  *)
(* of a run that failed; and the administrators who schedule, hold,        *)
(* release and close settlements meanwhile.                                *)
(*                                                                         *)
(* A settlement is known by its week.  `totals' is kept as the set of rows *)
(* they were added up from (summed); entryCount is then its size.  A bank  *)
(* account being verified, the carryForwardNegative setting and the date   *)
(* are inputs.  Reads repeated by the conditional write after them are     *)
(* merged with it.                                                         *)
(*                                                                         *)
(* A definition X_Y is X with the seeded fault Y, used to see that a       *)
(* property can fail.                                                      *)
(***************************************************************************)
EXTENDS Integers, FiniteSets, FiniteSetsExt

CONSTANTS
    NWeeks,         \* weeks 1..NWeeks have ended and may be settled
    Rows,           \* identities of ledger rows
    Amounts,        \* signed amounts of earnings, fees and adjustments
    Tasks,          \* generators in flight at the same time
    None,           \* no token in a lock
    Dead,           \* the token of a generator that died
    HeldWeeks,      \* bound: the weeks administrators put on hold
    MaxEvents       \* bound: rows the settlements do not write themselves, and mishaps, together

ASSUME WeeksAssumption == NWeeks \in Nat \ {0}
ASSUME RowsAssumption == Rows \subseteq Nat /\ IsFiniteSet(Rows) /\ Amounts \subseteq Int
ASSUME TokensAssumption == None \notin Tasks /\ Dead \notin Tasks /\ None # Dead
ASSUME EventsAssumption == MaxEvents \in Nat /\ HeldWeeks \subseteq 1..NWeeks

Weeks == 1..NWeeks
Statuses == {"none", "draft", "on_hold", "approved", "processing", "paid", "failed",
             "carried_forward"}
Open == {"draft", "on_hold"}                \* OPEN_STATUSES

\* settlementId of a row in no settlement; a row never written; a row deleted again.
Free == 0
Unwritten == -1
Gone == -2

VARIABLES
    sid,        \* settlementId of a ledger row: the settlement's week, or Free, Unwritten, Gone
    info,       \* a row's eligible week, signed amount, kind and the other half of its pair
    status,     \* settlement.status, "none" before it is created
    manual,     \* holdReason = 'MANUAL'
    lock,       \* generationLock.token
    late,       \* generationLock.until has passed
    summed,     \* the rows settlement.totals were computed from
    task,       \* generators in flight
    closing,    \* weeks carried_forward whose credit row is still to be written
    mishaps     \* what went wrong so far

rowVars == <<sid, info>>
lockVars == <<lock, late>>
vars == <<sid, info, status, manual, lock, late, summed, task, closing, mishaps>>

Kinds == {"earning", "out", "in", "failed_payout"}
Info == [week : 1..NWeeks + 1, amount : Int, kind : Kinds, twin : Rows]
Pcs == {"idle", "find", "lock", "candidates", "claim", "claimed", "read", "drop", "carry",
        "reread", "save", "undo", "unmake", "delete", "unclaim", "dropEmpty", "release"}

\* held is the manual hold the generator read, cand and left the candidate rows and those still
\* to be claimed, claimed, made and rows its claimedIds, createdIds and entries, delta what it
\* carries, pair the rows it carries with and half those not yet created.
Task == [pc : Pcs, w : Weeks, delta : Int, held : BOOLEAN, cand : SUBSET Rows,
         left : SUBSET Rows, claimed : SUBSET Rows, made : SUBSET Rows, rows : SUBSET Rows,
         pair : SUBSET Rows, half : SUBSET Rows]
Idle == [pc |-> "idle", w |-> 1, delta |-> 0, held |-> FALSE, cand |-> {}, left |-> {},
         claimed |-> {}, made |-> {}, rows |-> {}, pair |-> {}, half |-> {}]

Init ==
    /\ sid = [r \in Rows |-> Unwritten]
    /\ info = [r \in Rows |-> [week |-> 1, amount |-> 0, kind |-> "earning", twin |-> r]]
    /\ status = [w \in Weeks |-> "none"]
    /\ manual = [w \in Weeks |-> FALSE]
    /\ lock = [w \in Weeks |-> None]
    /\ late = [w \in Weeks |-> FALSE]
    /\ summed = [w \in Weeks |-> {}]
    /\ task = [t \in Tasks |-> Idle]
    /\ closing = {}
    /\ mishaps = {}

-----------------------------------------------------------------------------
(* Rows and their sums.                                                    *)

Sum(S) == SumFunctionOnSet([r \in Rows |-> info[r].amount], S)
Attached(w) == {r \in Rows : sid[r] = w}
Present == {r \in Rows : sid[r] \notin {Unwritten, Gone}}
Unused == {r \in Rows : sid[r] = Unwritten}
            \ ({info[r].twin : r \in Present} \union UNION {task[t].pair : t \in Tasks})
OfKind(S, k) == {r \in S : info[r].kind = k}

\* totals.netPayable of a settlement
Net(w) == Sum(summed[w])

\* Identities for new rows.
Fresh(n) == {S \in SUBSET Unused : Cardinality(S) = n /\ \A r \in S, q \in Unused \ S : r < q}
Written(r, week, amount, kind, twin) ==
    [info EXCEPT ![r] = [week |-> week, amount |-> amount, kind |-> kind, twin |-> twin]]

\* shouldCarry - totals.carryForwardOut, for the rows S of a week
Shortfall(own) == IF own < 0 THEN -own ELSE 0
Lesser(a, b) == IF a < b THEN a ELSE b
Delta(S, carrying) ==
    LET carried == Sum(OfKind(S, "out"))
        shortfall == Shortfall(Sum(S) - carried)
    IN  (IF carrying THEN shortfall ELSE Lesser(carried, shortfall)) - carried

\* decideStatus
Decided(net, carried, verified, held) ==
    IF held \/ net < 0 \/ (net = 0 /\ carried) \/ (net > 0 /\ ~verified) THEN "on_hold" ELSE "draft"

-----------------------------------------------------------------------------
At(t, pc) == task[t].pc = pc
Become(t, v) == task' = [task EXCEPT ![t] = v]
Goto(t, pc) == Become(t, [task[t] EXCEPT !.pc = pc])
Finish(t) == Become(t, Idle)

LockFree(w) == lock[w] = None \/ late[w]
Owns(t) == lock[task[t].w] = t
Unlock(w) == lock' = [lock EXCEPT ![w] = None] /\ late' = [late EXCEPT ![w] = FALSE]

Events == Cardinality(OfKind(Present, "earning")) + Cardinality(mishaps)

-----------------------------------------------------------------------------
(* The ledger and the administrators.                                      *)

\* ledger.service.js, addAdjustment: a row that counts from some week on; late ones for a week
\* already settled too.
Earn ==
    /\ Events < MaxEvents
    /\ \E S \in Fresh(1), week \in Weeks, a \in Amounts : \E r \in S :
          /\ sid' = [sid EXCEPT ![r] = Free]
          /\ info' = Written(r, week, a, "earning", r)
    /\ UNCHANGED <<status, manual, lockVars, summed, task, closing, mishaps>>

\* scheduleSettlement, approveSettlement
Schedule_Busy(w) ==
    /\ status[w] = "draft" /\ Net(w) > 0
    /\ status' = [status EXCEPT ![w] = "approved"]
    /\ UNCHANGED <<rowVars, manual, lockVars, summed, task, closing, mishaps>>
Schedule(w) == LockFree(w) /\ Schedule_Busy(w)

\* releaseSettlement, recordPayoutPaid, recordPayoutFailed, rescheduleSettlement: the statuses;
\* what is paid to whom is in PayoutBatch.
Payout(w) ==
    /\ \/ status[w] = "approved" /\ status' = [status EXCEPT ![w] = "processing"]
       \/ status[w] = "processing" /\ status' \in {[status EXCEPT ![w] = "paid"],
                                                   [status EXCEPT ![w] = "failed"]}
       \/ status[w] = "failed" /\ status' = [status EXCEPT ![w] = "approved"]
    /\ UNCHANGED <<rowVars, manual, lockVars, summed, task, closing, mishaps>>

\* holdSettlement
Hold(w) ==
    /\ w \in HeldWeeks
    /\ status[w] \in {"draft", "approved", "failed"} /\ LockFree(w)
    /\ status' = [status EXCEPT ![w] = "on_hold"]
    /\ manual' = [manual EXCEPT ![w] = TRUE]
    /\ UNCHANGED <<rowVars, lockVars, summed, task, closing, mishaps>>

\* unholdSettlement: the hold is cleared, then the week is generated again.
Unhold(t, w) ==
    /\ At(t, "idle")
    /\ status[w] = "on_hold" /\ manual[w] /\ LockFree(w)
    /\ manual' = [manual EXCEPT ![w] = FALSE]
    /\ Become(t, [Idle EXCEPT !.pc = "find", !.w = w])
    /\ UNCHANGED <<rowVars, status, lockVars, summed, closing, mishaps>>

\* carryForwardFailed: the settlement is closed, then its amount credited.
CloseFailed_Open(w) ==
    /\ status[w] = "failed"
    /\ closing' = closing \union {w}
    /\ UNCHANGED <<rowVars, status, manual, lockVars, summed, task, mishaps>>
CloseFailed(w) ==
    /\ status[w] = "failed"
    /\ status' = [status EXCEPT ![w] = "carried_forward"]
    /\ closing' = closing \union {w}
    /\ UNCHANGED <<rowVars, manual, lockVars, summed, task, mishaps>>
CreditFailed(w) ==
    /\ w \in closing
    /\ \E S \in Fresh(1) : \E r \in S, week \in w + 1 .. NWeeks + 1 :
          /\ sid' = [sid EXCEPT ![r] = Free]
          /\ info' = Written(r, week, Net(w), "failed_payout", r)
    /\ closing' = closing \ {w}
    /\ UNCHANGED <<status, manual, lockVars, summed, task, mishaps>>

-----------------------------------------------------------------------------
(* Generating a week.                                                      *)

\* generateWeeklySettlements, refreshOpenSettlements, the scheduler's tick
Generate(t, w) ==
    /\ At(t, "idle")
    /\ \/ \E r \in Rows : sid[r] = Free /\ info[r].week <= w
       \/ status[w] \in Open
    /\ Become(t, [Idle EXCEPT !.pc = "find", !.w = w])
    /\ UNCHANGED <<rowVars, status, manual, lockVars, summed, closing, mishaps>>

\* findOrCreateSettlement: the unique index lets one of two creators win.
FindOrCreate(t) ==
    LET w == task[t].w IN
    /\ At(t, "find")
    /\ status' = [status EXCEPT ![w] = IF @ = "none" THEN "draft" ELSE @]
    /\ IF status'[w] \in Open THEN Goto(t, "lock") ELSE Finish(t)
    /\ UNCHANGED <<rowVars, manual, lockVars, summed, closing, mishaps>>

Lock(t) ==
    LET w == task[t].w IN
    /\ At(t, "lock")
    /\ IF status[w] \in Open /\ LockFree(w)
       THEN /\ lock' = [lock EXCEPT ![w] = t]
            /\ late' = [late EXCEPT ![w] = FALSE]
            /\ Become(t, [task[t] EXCEPT !.pc = "candidates", !.held = manual[w]])
       ELSE Finish(t) /\ UNCHANGED lockVars
    /\ UNCHANGED <<rowVars, status, manual, summed, closing, mishaps>>

Candidates(t) ==
    LET cand == {r \in Rows : sid[r] = Free /\ info[r].week <= task[t].w} IN
    /\ At(t, "candidates")
    /\ Become(t, [task[t] EXCEPT !.pc = IF cand = {} THEN "read" ELSE "claim",
                                 !.cand = cand, !.left = cand])
    /\ UNCHANGED <<rowVars, status, manual, lockVars, summed, closing, mishaps>>

\* updateMany writes one row at a time, and only a row still free.
ClaimRow_Taken(t) ==
    /\ At(t, "claim")
    /\ \E r \in task[t].left :
          /\ sid' = [sid EXCEPT ![r] = task[t].w]
          /\ Become(t, [task[t] EXCEPT !.left = @ \ {r},
                                       !.pc = IF task[t].left = {r} THEN "claimed" ELSE "claim"])
    /\ UNCHANGED <<info, status, manual, lockVars, summed, closing, mishaps>>
ClaimRow(t) ==
    /\ At(t, "claim")
    /\ \E r \in task[t].left :
          /\ sid' = [sid EXCEPT ![r] = IF @ = Free THEN task[t].w ELSE @]
          /\ Become(t, [task[t] EXCEPT !.left = @ \ {r},
                                       !.pc = IF task[t].left = {r} THEN "claimed" ELSE "claim"])
    /\ UNCHANGED <<info, status, manual, lockVars, summed, closing, mishaps>>

Claimed(t) ==
    /\ At(t, "claimed")
    /\ Become(t, [task[t] EXCEPT !.pc = "read", !.cand = {},
                                 !.claimed = task[t].cand \intersect Attached(task[t].w)])
    /\ UNCHANGED <<rowVars, status, manual, lockVars, summed, closing, mishaps>>

\* The rows of the week, and what carrying they call for.
ReadRows(t) ==
    LET rows == Attached(task[t].w) IN
    /\ At(t, "read")
    /\ IF rows = {}
       THEN Goto(t, "drop")
       ELSE \E carrying \in BOOLEAN : LET delta == Delta(rows, carrying) IN
            IF delta = 0
            THEN Become(t, [task[t] EXCEPT !.pc = "save", !.rows = rows])
            ELSE \E pair \in Fresh(2) :
                    Become(t, [task[t] EXCEPT !.pc = "carry", !.delta = delta, !.pair = pair,
                                              !.half = pair])
    /\ UNCHANGED <<rowVars, status, manual, lockVars, summed, closing, mishaps>>

\* An empty week has its settlement removed, and is unlocked with it.
Remove(w) == status' = [status EXCEPT ![w] = "none"]
DropEmptyWeek(t) ==
    LET w == task[t].w IN
    /\ At(t, "drop")
    /\ IF summed[w] = {} /\ Owns(t) THEN Remove(w) /\ Unlock(w) ELSE UNCHANGED <<status, lockVars>>
    /\ Goto(t, "release")
    /\ UNCHANGED <<rowVars, manual, summed, closing, mishaps>>

\* The two halves of the pair are created side by side: out of this week, into the next.
CarryHalf(t) ==
    LET w == task[t].w
        delta == task[t].delta IN
    /\ At(t, "carry")
    /\ \E r \in task[t].half, q \in task[t].pair :
          /\ r # q
          /\ \/ /\ r < q
                /\ sid' = [sid EXCEPT ![r] = w]
                /\ info' = Written(r, w, delta, "out", q)
             \/ /\ q < r
                /\ sid' = [sid EXCEPT ![r] = Free]
                /\ info' = Written(r, w + 1, -delta, "in", q)
          /\ IF task[t].half = {r}
             THEN Become(t, [task[t] EXCEPT !.pc = "reread", !.half = {}, !.pair = {},
                                            !.delta = 0, !.made = task[t].pair])
             ELSE Become(t, [task[t] EXCEPT !.half = @ \ {r}])
    /\ UNCHANGED <<status, manual, lockVars, summed, closing, mishaps>>

Reread(t) ==
    /\ At(t, "reread")
    /\ Become(t, [task[t] EXCEPT !.pc = "save", !.rows = Attached(task[t].w)])
    /\ UNCHANGED <<rowVars, status, manual, lockVars, summed, closing, mishaps>>

\* The final write lands while the settlement is open and the lock still this run's.
Save(t) ==
    LET w == task[t].w
        rows == task[t].rows IN
    /\ At(t, "save")
    /\ IF status[w] \in Open /\ Owns(t)
       THEN /\ summed' = [summed EXCEPT ![w] = rows]
            /\ \E verified \in BOOLEAN :
                  status' = [status EXCEPT ![w] =
                      Decided(Sum(rows), Sum(OfKind(rows, "out")) > 0, verified, task[t].held)]
            /\ manual' = [manual EXCEPT ![w] = task[t].held]
            /\ Unlock(w)
            /\ Finish(t)
       ELSE Goto(t, "undo") /\ UNCHANGED <<status, manual, summed, lockVars>>
    /\ UNCHANGED <<rowVars, closing, mishaps>>

-----------------------------------------------------------------------------
(* Taking back a run that failed.                                          *)

Undo(t) ==
    /\ At(t, "undo")
    /\ IF Owns(t)
       THEN late' = [late EXCEPT ![task[t].w] = FALSE] /\ Goto(t, "unmake")
       ELSE UNCHANGED late /\ Goto(t, "dropEmpty")
    /\ UNCHANGED <<rowVars, status, manual, lock, summed, closing, mishaps>>

\* Are both halves of the pair still free? Otherwise they are only released.
Unmake(t) ==
    LET made == task[t].made IN
    /\ At(t, "unmake")
    /\ IF \A r \in made : sid[r] \in {Free, task[t].w}
       THEN Goto(t, "delete")
       ELSE Become(t, [task[t] EXCEPT !.pc = "unclaim", !.claimed = @ \union made])
    /\ UNCHANGED <<rowVars, status, manual, lockVars, summed, closing, mishaps>>

Delete(t) ==
    /\ At(t, "delete")
    /\ sid' = [r \in Rows |-> IF r \in task[t].made THEN Gone ELSE sid[r]]
    /\ Goto(t, "unclaim")
    /\ UNCHANGED <<info, status, manual, lockVars, summed, closing, mishaps>>

Unclaim(t) ==
    /\ At(t, "unclaim")
    /\ sid' = [r \in Rows |-> IF r \in task[t].claimed /\ sid[r] = task[t].w THEN Free ELSE sid[r]]
    /\ Goto(t, "dropEmpty")
    /\ UNCHANGED <<info, status, manual, lockVars, summed, closing, mishaps>>

\* After a refused save the code does not look: that settlement is frozen or another run's, and
\* is kept here too.
DropIfEmpty(t) ==
    LET w == task[t].w IN
    /\ At(t, "dropEmpty")
    /\ IF Attached(w) = {} /\ summed[w] = {} /\ status[w] \in Open /\ Owns(t)
       THEN Remove(w) /\ Unlock(w)
       ELSE UNCHANGED <<status, lockVars>>
    /\ Goto(t, "release")
    /\ UNCHANGED <<rowVars, manual, summed, closing, mishaps>>

Release(t) ==
    /\ At(t, "release")
    /\ IF Owns(t) THEN Unlock(task[t].w) ELSE UNCHANGED lockVars
    /\ Finish(t)
    /\ UNCHANGED <<rowVars, status, manual, summed, closing, mishaps>>

-----------------------------------------------------------------------------
(* What can go wrong.                                                      *)

Mishap(m) ==
    /\ Events < MaxEvents /\ m \notin mishaps
    /\ mishaps' = mishaps \union {m}

\* The process dies.
Crash(t) ==
    /\ Mishap("crash")
    /\ ~At(t, "idle")
    /\ lock' = [w \in Weeks |-> IF lock[w] = t THEN Dead ELSE lock[w]]
    /\ Finish(t)
    /\ UNCHANGED <<rowVars, status, manual, late, summed, closing>>

\* A database call throws inside the try block.
Error(t) ==
    /\ Mishap("error")
    /\ task[t].pc \in {"candidates", "claim", "claimed", "read", "carry", "reread", "save"}
    /\ Goto(t, "undo")
    /\ UNCHANGED <<rowVars, status, manual, lockVars, summed, closing>>

\* Time: a dead generator's lock runs out, or a slow one's.
Expire(w) ==
    /\ lock[w] # None /\ ~late[w]
    /\ late' = [late EXCEPT ![w] = TRUE]
    /\ IF lock[w] = Dead THEN UNCHANGED mishaps ELSE Mishap("slow")
    /\ UNCHANGED <<rowVars, status, manual, lock, summed, task, closing>>

-----------------------------------------------------------------------------
Handler(t) ==
    \/ FindOrCreate(t) \/ Lock(t) \/ Candidates(t) \/ ClaimRow(t) \/ Claimed(t) \/ ReadRows(t)
    \/ DropEmptyWeek(t) \/ CarryHalf(t) \/ Reread(t) \/ Save(t)
    \/ Undo(t) \/ Unmake(t) \/ Delete(t) \/ Unclaim(t) \/ DropIfEmpty(t) \/ Release(t)

Next ==
    \/ Earn
    \/ \E w \in Weeks : Schedule(w) \/ Payout(w) \/ Hold(w) \/ CloseFailed(w) \/ CreditFailed(w)
                        \/ Expire(w)
    \/ \E t \in Tasks : Handler(t) \/ Crash(t) \/ Error(t)
    \/ \E t \in Tasks, w \in Weeks : Generate(t, w) \/ Unhold(t, w)

Spec == Init /\ [][Next]_vars

-----------------------------------------------------------------------------
(* Properties.                                                             *)

\* The variables have their types.
TypeOK ==
    /\ sid \in [Rows -> {Free, Unwritten, Gone} \union Weeks]
    /\ info \in [Rows -> Info]
    /\ status \in [Weeks -> Statuses]
    /\ manual \in [Weeks -> BOOLEAN]
    /\ lock \in [Weeks -> Tasks \union {None, Dead}]
    /\ late \in [Weeks -> BOOLEAN]
    /\ summed \in [Weeks -> SUBSET Rows]
    /\ task \in [Tasks -> Task]
    /\ closing \subseteq Weeks
    /\ mishaps \subseteq {"crash", "error", "slow"}

Frozen(w) == status[w] \notin Open \union {"none"}

\* The restaurant is paid for the rows of its settlement: once approved, a settlement's totals
\* are those of exactly the rows that name it ("claimed by one RestaurantSettlement and summed
\* into what the restaurant is paid").  No generator may add a row behind an approval.
FrozenIsSummed == \A w \in Weeks : Frozen(w) => summed[w] = Attached(w)

\* The same while no generator fails, dies or outlives its lock.
ApprovedIsSummed == mishaps = {} => FrozenIsSummed

\* A carry row whose other half is not written yet.
Halves == {r \in Present : info[r].kind \in {"out", "in"} /\ info[r].twin \notin Present}

\* The rows outside the settlements closed by carrying them forward.
Outside == {r \in Present : \A w \in Weeks : status[w] = "carried_forward" => sid[r] # w}

\* Carrying a negative week into the next one and a failed payout into a later one moves money,
\* and neither makes nor loses any: what the rows outside the closed settlements come to, with
\* the credits still to be written, is what was earned and the half of a pair written so far
\* ("a pair so the money is counted exactly once").  The other generator may claim that half,
\* and the administrators close the week it went to, before the pair is whole.
MoneyConserved ==
    mishaps = {} =>
        Sum(Outside) + SumFunctionOnSet([w \in Weeks |-> Net(w)], closing)
        = Sum(OfKind(Present, "earning")) + Sum(Halves)

\* What a dead generator left half done the next one makes good: totals, when they are written,
\* are those of the rows in the settlement.
SavedIsSummed ==
    [][mishaps \subseteq {"crash"} =>
        \A w \in Weeks : summed'[w] # summed[w] => summed'[w] = Attached(w)]_vars
=============================================================================
