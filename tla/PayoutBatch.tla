---------------------------- MODULE PayoutBatch ----------------------------
(***************************************************************************)
(* Paying approved settlements: the payout lifecycle of                    *)
(* services/settlement.service.js (schedule, change date, release, record, *)
(* hold) and the bank-file batches of services/payoutBatch.service.js      *)
(* (create, download, reconcile, cancel, retry, carry forward), against a  *)
(* bank that pays, rejects and returns transfers and reports late or again.*)
(*                                                                         *)
(* An attempt is its number, payout.attempts when it was started, which is *)
(* also what a line's reference prints; a UTR is the attempt it belongs    *)
(* to.  A bank account is its version, as accountFingerprint tells saved   *)
(* versions apart.  People are honest: they report what the bank did,      *)
(* upload a batch once and not after it was cancelled, and cancel only     *)
(* what was not uploaded.  Payouts approved before fingerprints existed    *)
(* are not modelled.                                                       *)
(*                                                                         *)
(* A definition X_Y is X with the seeded fault Y, used to see that a       *)
(* property can fail.                                                      *)
(***************************************************************************)
EXTENDS Integers, FiniteSets

CONSTANTS
    Settlements,  \* settlements, each of a restaurant of its own
    Batches,      \* batches that may be created
    PayoutTasks,  \* handlers in flight at the same time
    NoBatch,      \* no batch
    MaxAttempts,  \* bound: transfers started for one settlement
    MaxAccounts,  \* bound: bank accounts a restaurant saves
    Holds,        \* the statuses administrators put on hold
    Cancels       \* the batches administrators cancel

\* What the constants have to be.
PayoutConstantsOK ==
    /\ Settlements # {} /\ NoBatch \notin Batches /\ Cancels \subseteq Batches
    /\ MaxAttempts \in Nat \ {0} /\ MaxAccounts \in Nat \ {0}
    /\ Holds \subseteq {"draft", "approved", "failed"}
ASSUME PayoutAssumption == PayoutConstantsOK

Attempts == 1..MaxAttempts
Accounts == 1..MaxAccounts
PayoutStatuses == {"draft", "on_hold", "approved", "processing", "paid", "failed", "carried_forward"}
BatchStatuses == {"none", "created", "downloaded", "partially_reconciled", "reconciled", "cancelled"}
BankStates == {"none", "sent", "credited", "failed", "returned"}
ByHand == -1    \* the UTR of a payment made outside the system

VARIABLES
    pay,       \* a settlement's status and payout
    batch,     \* PayoutBatch.status, "none" when there is no such batch
    account,   \* the restaurant's bank account
    verified,  \* payoutAccount.status = 'verified'
    asked,     \* payoutAccount.pendingChange: the account asked for, 0 when there is none
    saving,    \* what the owner's save in flight will write, as the account it read calls for
    vetted,    \* accounts that were verified at some time
    file,      \* the lines of a batch file an administrator holds
    bank,      \* what became of each attempt at the bank, to which account, by which file
    ptask      \* handlers in flight

accountVars == <<account, verified, asked, saving, vetted>>
batchVars == <<pay, batch, accountVars, file, bank, ptask>>

\* batch, ref: payout.batchId and reference (0: null); ben: the beneficiary's fingerprint.
Pay == [status : PayoutStatuses, provider : {"none", "manual", "bank_file"}, batch : Batches \union {NoBatch},
        ref : 0..MaxAttempts, attempts : 0..MaxAttempts, ben : Accounts, utr : -1..MaxAttempts]
Line == [s : Settlements, n : Attempts, to : Accounts]
Transfer == [state : BankStates, to : Accounts, via : Batches \union {NoBatch}]

PayoutPcs == {"idle", "schedule", "change", "reschedule", "retry", "release", "each", "claim", "members",
        "lines", "download", "row", "settle", "count", "close", "withdraw", "cancelled"}

\* s, b: what the handler works on; acc: the account it read; att: the attempt it will start;
\* todo: settlements still to be batched; any: some were; row: the bank's result being applied;
\* saw: the settlement or the batch as read; lines: those of the file.
Row == [n : 0..MaxAttempts, res : {"none", "paid", "failed", "returned"}]
PayoutTask == [pc : PayoutPcs, s : Settlements, b : Batches \union {NoBatch}, acc : 0..MaxAccounts,
         att : [Settlements -> 0..MaxAttempts], todo : SUBSET Settlements, any : BOOLEAN, row : Row,
         saw : PayoutStatuses \union BatchStatuses, by : {"none", "manual", "bank_file"}, lines : SUBSET Line]
SomeSettlement == CHOOSE s \in Settlements : TRUE
NoRow == [n |-> 0, res |-> "none"]
NoAttempts == [s \in Settlements |-> 0]
PayoutIdle == [pc |-> "idle", s |-> SomeSettlement, b |-> NoBatch, acc |-> 0, att |-> NoAttempts, todo |-> {},
         any |-> FALSE, row |-> NoRow, saw |-> "none", by |-> "none", lines |-> {}]

\* Settlements held until their restaurant's first bank account is verified.
PayoutInit ==
    /\ pay = [s \in Settlements |-> [status |-> "on_hold", provider |-> "none", batch |-> NoBatch,
                                     ref |-> 0, attempts |-> 0, ben |-> 1, utr |-> 0]]
    /\ batch = [b \in Batches |-> "none"]
    /\ account = [s \in Settlements |-> 1]
    /\ verified = [s \in Settlements |-> FALSE]
    /\ asked = [s \in Settlements |-> 0]
    /\ saving = [s \in Settlements |-> "no"]
    /\ vetted = [s \in Settlements |-> {}]
    /\ file = [b \in Batches |-> {}]
    /\ bank = [s \in Settlements |-> [n \in Attempts |-> [state |-> "none", to |-> 1, via |-> NoBatch]]]
    /\ ptask = [t \in PayoutTasks |-> PayoutIdle]

-----------------------------------------------------------------------------
PayoutAt(t, pc) == ptask[t].pc = pc
PayoutBecomes(t, v) == ptask' = [ptask EXCEPT ![t] = v]
PayoutGoto(t, pc) == PayoutBecomes(t, [ptask[t] EXCEPT !.pc = pc])
PayoutFinish(t) == PayoutBecomes(t, PayoutIdle)

Set(s, v) == pay' = [pay EXCEPT ![s] = v]

\* The account read: 0 when it is not verified.
VerifiedAccount(s) == IF verified[s] THEN account[s] ELSE 0

(* The restaurant's bank account.                                          *)

NewAccount(s) == 1 + (IF asked[s] = 0 THEN account[s] ELSE asked[s])
\* savePayoutAccount: a verified account stays in force and the new one is asked for; the owner's
\* document is the one read before.
StartSave(s) ==
    /\ saving[s] = "no" /\ NewAccount(s) <= MaxAccounts
    /\ saving' = [saving EXCEPT ![s] = IF verified[s] THEN "change" ELSE "account"]
    /\ UNCHANGED <<pay, batch, account, verified, asked, vetted, file, bank, ptask>>
SaveAccount(s) ==
    /\ saving[s] # "no"
    /\ IF saving[s] = "change"
       THEN asked' = [asked EXCEPT ![s] = NewAccount(s)] /\ UNCHANGED <<account, verified>>
       ELSE /\ account' = [account EXCEPT ![s] = NewAccount(s)]
            /\ verified' = [verified EXCEPT ![s] = FALSE]
            /\ asked' = [asked EXCEPT ![s] = 0]
    /\ saving' = [saving EXCEPT ![s] = "no"]
    /\ UNCHANGED <<pay, batch, vetted, file, bank, ptask>>
\* decide
VerifyAccount(s) ==
    /\ ~verified[s]
    /\ verified' = [verified EXCEPT ![s] = TRUE]
    /\ vetted' = [vetted EXCEPT ![s] = @ \union {account[s]}]
    /\ UNCHANGED <<pay, batch, account, asked, saving, file, bank, ptask>>
\* verifyChangeRequest, rejectChangeRequest
DecideChange(s) ==
    /\ verified[s] /\ asked[s] # 0
    /\ \/ /\ account' = [account EXCEPT ![s] = asked[s]]
          /\ vetted' = [vetted EXCEPT ![s] = @ \union {asked[s]}]
       \/ UNCHANGED <<account, vetted>>
    /\ asked' = [asked EXCEPT ![s] = 0]
    /\ UNCHANGED <<pay, batch, verified, saving, file, bank, ptask>>

-----------------------------------------------------------------------------
(* Scheduling and releasing by hand.                                       *)

\* scheduleSettlement, changeScheduledDate, rescheduleSettlement and retrySettlement look at the
\* status and the account, then write on condition of the status alone.
From(pc) == IF pc = "schedule" THEN "draft" ELSE IF pc = "change" THEN "approved" ELSE "failed"
StartScheduling(t, s) ==
    /\ \E pc \in {"schedule", "change", "reschedule", "retry"} :
          /\ pay[s].status = From(pc) /\ VerifiedAccount(s) # 0
          /\ PayoutAt(t, "idle")
          /\ PayoutBecomes(t, [PayoutIdle EXCEPT !.pc = pc, !.s = s, !.acc = VerifiedAccount(s)])
    /\ UNCHANGED <<pay, batch, accountVars, file, bank>>

\* A new attempt starts clean. A retry leaves the beneficiary as it was.
Cleared(s) == [pay[s] EXCEPT !.status = "approved", !.batch = NoBatch, !.ref = 0, !.utr = 0]
Rescheduled(s, pc, acc) ==
    CASE pc = "retry" -> Cleared(s)
      [] pc = "reschedule" -> [Cleared(s) EXCEPT !.ben = acc]
      [] OTHER -> [pay[s] EXCEPT !.status = "approved", !.ben = acc]
SchedulePayout(t) ==
    LET s == ptask[t].s
        pc == ptask[t].pc IN
    /\ pc \in {"schedule", "change", "reschedule", "retry"}
    /\ IF pay[s].status = From(pc) THEN Set(s, Rescheduled(s, pc, ptask[t].acc)) ELSE UNCHANGED pay
    /\ PayoutFinish(t)
    /\ UNCHANGED <<batch, accountVars, file, bank>>

\* releaseSettlement, refused unless the account is the verified one scheduled.
StartRelease(t, s) ==
    /\ pay[s].status = "approved" /\ pay[s].attempts < MaxAttempts
    /\ VerifiedAccount(s) = pay[s].ben
    /\ PayoutAt(t, "idle")
    /\ PayoutBecomes(t, [PayoutIdle EXCEPT !.pc = "release", !.s = s, !.acc = pay[s].ben])
    /\ UNCHANGED <<pay, batch, accountVars, file, bank>>
ReleasePayout(t) ==
    LET s == ptask[t].s IN
    /\ PayoutAt(t, "release")
    /\ IF pay[s].status = "approved" /\ pay[s].ben = ptask[t].acc /\ pay[s].attempts < MaxAttempts
       THEN Set(s, [pay[s] EXCEPT !.status = "processing", !.provider = "manual", !.attempts = @ + 1])
       ELSE UNCHANGED pay
    /\ PayoutFinish(t)
    /\ UNCHANGED <<batch, accountVars, file, bank>>

\* What became of the attempt in hand.
Current(s) == IF pay[s].attempts = 0 THEN "none" ELSE bank[s][pay[s].attempts].state

\* recordPayoutPaid
RecordPaid(s) ==
    /\ pay[s].status = "processing" /\ Current(s) = "credited"
    /\ Set(s, [pay[s] EXCEPT !.status = "paid", !.utr = pay[s].attempts])
    /\ UNCHANGED <<batch, accountVars, file, bank, ptask>>

\* recordPayoutFailed
RecordFailed(s) ==
    /\ pay[s].status = "processing" /\ Current(s) \in {"failed", "returned"}
    /\ Set(s, [pay[s] EXCEPT !.status = "failed", !.utr = 0])
    /\ UNCHANGED <<batch, accountVars, file, bank, ptask>>

\* markPaidManually: a transfer the bank made, or one made outside the system.
MarkPaidManually(s) ==
    /\ \/ pay[s].status \in {"approved", "failed"}
       \/ pay[s].status = "processing" /\ Current(s) = "credited"
    /\ Set(s, [pay[s] EXCEPT !.status = "paid", !.provider = "manual",
                             !.utr = IF pay[s].status = "processing" THEN pay[s].attempts ELSE ByHand])
    /\ UNCHANGED <<batch, accountVars, file, bank, ptask>>

\* holdSettlement; unholdSettlement and refreshOpenSettlements, which generate the week again:
\* a draft when the account is verified (decideStatus).
HoldPayout(s) ==
    /\ pay[s].status \in Holds
    /\ Set(s, [pay[s] EXCEPT !.status = "on_hold"])
    /\ UNCHANGED <<batch, accountVars, file, bank, ptask>>
UnholdPayout(s) ==
    /\ pay[s].status = "on_hold" /\ verified[s]
    /\ Set(s, [pay[s] EXCEPT !.status = "draft"])
    /\ UNCHANGED <<batch, accountVars, file, bank, ptask>>

\* carryForwardFailed; the credit it writes next is in SettlementWeek.
CarryForward(s) ==
    /\ pay[s].status = "failed"
    /\ Set(s, [pay[s] EXCEPT !.status = "carried_forward"])
    /\ UNCHANGED <<batch, accountVars, file, bank, ptask>>

-----------------------------------------------------------------------------
(* Batches.                                                                *)

\* createBatch: the candidates as they are read, then each in turn.
CreateBatch(t) ==
    /\ PayoutAt(t, "idle")
    /\ \E b \in Batches, S \in SUBSET {s \in Settlements : pay[s].status = "approved"} :
          /\ S # {} /\ \A s \in S : pay[s].attempts < MaxAttempts
          /\ batch[b] = "none"
          /\ batch' = [batch EXCEPT ![b] = "created"]
          /\ PayoutBecomes(t, [PayoutIdle EXCEPT !.pc = "each", !.b = b, !.todo = S,
                !.att = [s \in Settlements |-> IF s \in S THEN pay[s].attempts + 1 ELSE 0]])
    /\ UNCHANGED <<pay, accountVars, file, bank>>

ReadAccount_Unchecked(t) ==
    /\ PayoutAt(t, "each")
    /\ \E s \in ptask[t].todo :
          PayoutBecomes(t, [ptask[t] EXCEPT !.pc = "claim", !.s = s, !.acc = VerifiedAccount(s)])
    /\ UNCHANGED <<pay, batch, accountVars, file, bank>>

\* The account is read; a settlement scheduled for another one is left out.
ReadAccount(t) ==
    /\ PayoutAt(t, "each")
    /\ \E s \in ptask[t].todo :
          IF VerifiedAccount(s) # 0 /\ VerifiedAccount(s) = pay[s].ben
          THEN PayoutBecomes(t, [ptask[t] EXCEPT !.pc = "claim", !.s = s, !.acc = VerifiedAccount(s)])
          ELSE PayoutBecomes(t, [ptask[t] EXCEPT !.todo = @ \ {s}])
    /\ UNCHANGED <<pay, batch, accountVars, file, bank>>

Batched(t, s) ==
    [pay[s] EXCEPT !.status = "processing", !.provider = "bank_file", !.batch = ptask[t].b,
                   !.ref = ptask[t].att[s], !.ben = ptask[t].acc, !.attempts = @ + 1]
ClaimMember(t) ==
    LET s == ptask[t].s
        ok == pay[s].status = "approved" /\ pay[s].attempts < MaxAttempts IN
    /\ PayoutAt(t, "claim")
    /\ IF ok THEN Set(s, Batched(t, s)) ELSE UNCHANGED pay
    /\ PayoutBecomes(t, [ptask[t] EXCEPT !.pc = "each", !.todo = @ \ {s}, !.any = @ \/ ok, !.acc = 0,
                                 !.s = SomeSettlement])
    /\ UNCHANGED <<batch, accountVars, file, bank>>

\* The batch is deleted when nothing was claimed; its list is saved otherwise.
FinishBatch(t) ==
    /\ PayoutAt(t, "each") /\ ptask[t].todo = {}
    /\ batch' = IF ptask[t].any THEN batch ELSE [batch EXCEPT ![ptask[t].b] = "none"]
    /\ PayoutFinish(t)
    /\ UNCHANGED <<pay, accountVars, file, bank>>

\* buildBatchFile: the batch, then its settlements with their accounts, then batch.save().
StartDownload(t, b) ==
    /\ PayoutAt(t, "idle") /\ batch[b] \in {"created", "downloaded", "partially_reconciled"}
    /\ PayoutBecomes(t, [PayoutIdle EXCEPT !.pc = "lines", !.b = b, !.saw = batch[b]])
    /\ UNCHANGED <<pay, batch, accountVars, file, bank>>

Awaiting(b) == {s \in Settlements : pay[s].batch = b /\ pay[s].status = "processing"}
Lines(b) == {[s |-> s, n |-> pay[s].ref, to |-> account[s]] : s \in Awaiting(b)}
ReadLines_AnyAccount(t) ==
    LET b == ptask[t].b IN
    /\ PayoutAt(t, "lines")
    /\ IF Awaiting(b) # {}
       THEN PayoutBecomes(t, [ptask[t] EXCEPT !.pc = "download", !.lines = Lines(b)])
       ELSE PayoutFinish(t)
    /\ UNCHANGED <<pay, batch, accountVars, file, bank>>
ReadLines(t) ==
    LET b == ptask[t].b IN
    /\ PayoutAt(t, "lines")
    /\ IF Awaiting(b) # {} /\ \A s \in Awaiting(b) : VerifiedAccount(s) = pay[s].ben
       THEN PayoutBecomes(t, [ptask[t] EXCEPT !.pc = "download", !.lines = Lines(b)])
       ELSE PayoutFinish(t)
    /\ UNCHANGED <<pay, batch, accountVars, file, bank>>

\* Only a status the handler changed is written.
SaveDownload(t) ==
    LET b == ptask[t].b IN
    /\ PayoutAt(t, "download")
    /\ batch' = IF ptask[t].saw = "created" THEN [batch EXCEPT ![b] = "downloaded"] ELSE batch
    /\ file' = [file EXCEPT ![b] = ptask[t].lines]
    /\ PayoutFinish(t)
    /\ UNCHANGED <<pay, accountVars, bank>>

\* reconcileBatch, with rows that say what the bank did, now or before.
StartReconcile(t, b) ==
    /\ PayoutAt(t, "idle") /\ batch[b] \notin {"none", "cancelled"}
    /\ \E s \in Settlements, n \in Attempts : bank[s][n].via = b
    /\ PayoutBecomes(t, [PayoutIdle EXCEPT !.pc = "row", !.b = b])
    /\ UNCHANGED <<pay, batch, accountVars, file, bank>>

Reported(x) ==
    CASE x.state = "credited" -> {"paid"}
      [] x.state = "failed" -> {"failed"}
      [] x.state = "returned" -> {"paid", "returned"}
      [] OTHER -> {}

\* What a row asks of the settlement that carries its reference.
BankPaid(s, n) == pay[s].status = "paid" /\ pay[s].provider = "bank_file" /\ pay[s].utr \in {0, n}
Applies(s, n, res) ==
    IF res = "paid" THEN pay[s].status = "processing"
    ELSE pay[s].status = "processing" \/ (res = "returned" /\ BankPaid(s, n))

FindRow_AnyAttempt(t) ==
    /\ PayoutAt(t, "row")
    /\ \E s \in Settlements, n \in Attempts : \E res \in Reported(bank[s][n]) :
          /\ bank[s][n].via = ptask[t].b
          /\ Applies(s, n, res)
          /\ PayoutBecomes(t, [ptask[t] EXCEPT !.pc = "settle", !.s = s, !.row = [n |-> n, res |-> res],
                                       !.saw = pay[s].status, !.by = pay[s].provider])
    /\ UNCHANGED <<pay, batch, accountVars, file, bank>>
FindRow(t) ==
    /\ PayoutAt(t, "row")
    /\ \E s \in Settlements, n \in Attempts : \E res \in Reported(bank[s][n]) :
          /\ bank[s][n].via = ptask[t].b
          /\ pay[s].batch = ptask[t].b /\ pay[s].ref = n /\ Applies(s, n, res)
          /\ PayoutBecomes(t, [ptask[t] EXCEPT !.pc = "settle", !.s = s, !.row = [n |-> n, res |-> res],
                                       !.saw = pay[s].status, !.by = pay[s].provider])
    /\ UNCHANGED <<pay, batch, accountVars, file, bank>>

\* The conditional write: on the status, and for a failure the provider too.
SettleRow(t) ==
    LET s == ptask[t].s IN
    /\ PayoutAt(t, "settle")
    /\ IF ptask[t].row.res = "paid"
       THEN IF pay[s].status = "processing"
            THEN Set(s, [pay[s] EXCEPT !.status = "paid", !.utr = ptask[t].row.n])
            ELSE UNCHANGED pay
       ELSE IF pay[s].status = ptask[t].saw /\ pay[s].provider = ptask[t].by
            THEN Set(s, [pay[s] EXCEPT !.status = "failed", !.utr = 0])
            ELSE UNCHANGED pay
    /\ PayoutBecomes(t, [PayoutIdle EXCEPT !.pc = "row", !.b = ptask[t].b])
    /\ UNCHANGED <<batch, accountVars, file, bank>>

CountAwaiting(t) ==
    /\ PayoutAt(t, "row")
    /\ PayoutBecomes(t, [ptask[t] EXCEPT !.pc = "close", !.any = Awaiting(ptask[t].b) # {}])
    /\ UNCHANGED <<pay, batch, accountVars, file, bank>>
SaveReconciled_Uncounted(t) ==
    /\ PayoutAt(t, "close")
    /\ batch' = [batch EXCEPT ![ptask[t].b] = "reconciled"]
    /\ PayoutFinish(t)
    /\ UNCHANGED <<pay, accountVars, file, bank>>
SaveReconciled(t) ==
    /\ PayoutAt(t, "close")
    /\ batch' = [batch EXCEPT ![ptask[t].b] =
                    IF ptask[t].any THEN "partially_reconciled" ELSE "reconciled"]
    /\ PayoutFinish(t)
    /\ UNCHANGED <<pay, accountVars, file, bank>>

\* cancelBatch: updateMany takes back one member at a time.
Uploaded(b) == \E s \in Settlements, n \in Attempts : bank[s][n].via = b
StartCancel(t, b) ==
    /\ PayoutAt(t, "idle") /\ b \in Cancels /\ ~Uploaded(b) /\ batch[b] \in {"created", "downloaded"}
    /\ PayoutBecomes(t, [PayoutIdle EXCEPT !.pc = "withdraw", !.b = b])
    /\ UNCHANGED <<pay, batch, accountVars, file, bank>>
Withdraw(t) ==
    /\ PayoutAt(t, "withdraw")
    /\ \/ /\ \E s \in Awaiting(ptask[t].b) :
                Set(s, [pay[s] EXCEPT !.status = "approved", !.batch = NoBatch, !.ref = 0])
          /\ UNCHANGED ptask
       \/ /\ Awaiting(ptask[t].b) = {}
          /\ PayoutGoto(t, "cancelled")
          /\ UNCHANGED pay
    /\ UNCHANGED <<batch, accountVars, file, bank>>
SaveCancelled(t) ==
    /\ PayoutAt(t, "cancelled")
    /\ batch' = [batch EXCEPT ![ptask[t].b] = "cancelled"]
    /\ PayoutFinish(t)
    /\ UNCHANGED <<pay, accountVars, file, bank>>

-----------------------------------------------------------------------------
(* The bank and the transfers.                                             *)

Submit(ls, b) ==
    bank' = [s \in Settlements |-> [n \in Attempts |->
                IF \E l \in ls : l.s = s /\ l.n = n /\ bank[s][n].state = "none"
                THEN [state |-> "sent", via |-> b, to |-> (CHOOSE l \in ls : l.s = s /\ l.n = n).to]
                ELSE bank[s][n]]]
Upload(b) ==
    /\ file[b] # {} /\ batch[b] # "cancelled"
    /\ \A t \in PayoutTasks : ptask[t].b = b => ptask[t].pc \notin {"withdraw", "cancelled"}
    /\ Submit(file[b], b)
    /\ file' = [file EXCEPT ![b] = {}]
    /\ UNCHANGED <<pay, batch, accountVars, ptask>>
TransferByHand(s) ==
    /\ pay[s].status = "processing" /\ pay[s].provider = "manual" /\ Current(s) = "none"
    /\ Submit({[s |-> s, n |-> pay[s].attempts, to |-> pay[s].ben]}, NoBatch)
    /\ UNCHANGED <<pay, batch, accountVars, file, ptask>>
BankMoves(s) ==
    /\ \E n \in Attempts :
          \/ bank[s][n].state = "sent" /\ \E x \in {"credited", "failed"} :
                bank' = [bank EXCEPT ![s] = [@ EXCEPT ![n] = [bank[s][n] EXCEPT !.state = x]]]
          \/ bank[s][n].state = "credited" /\ bank[s][n].via # NoBatch
             /\ bank' = [bank EXCEPT ![s] = [@ EXCEPT ![n] = [bank[s][n] EXCEPT !.state = "returned"]]]
    /\ UNCHANGED <<pay, batch, accountVars, file, ptask>>

-----------------------------------------------------------------------------
PayoutHandler(t) ==
    \/ SchedulePayout(t) \/ ReleasePayout(t)
    \/ ReadAccount(t) \/ ClaimMember(t) \/ FinishBatch(t)
    \/ ReadLines(t) \/ SaveDownload(t)
    \/ FindRow(t) \/ SettleRow(t) \/ CountAwaiting(t) \/ SaveReconciled(t)
    \/ Withdraw(t) \/ SaveCancelled(t)

PayoutNext ==
    \/ \E s \in Settlements :
          \/ StartSave(s) \/ SaveAccount(s) \/ VerifyAccount(s) \/ DecideChange(s)
          \/ RecordPaid(s) \/ RecordFailed(s) \/ MarkPaidManually(s)
          \/ HoldPayout(s) \/ UnholdPayout(s) \/ CarryForward(s)
          \/ TransferByHand(s) \/ BankMoves(s)
    \/ \E b \in Batches : Upload(b)
    \/ \E t \in PayoutTasks :
          \/ PayoutHandler(t) \/ CreateBatch(t)
          \/ \E s \in Settlements : StartScheduling(t, s) \/ StartRelease(t, s)
          \/ \E b \in Batches : StartDownload(t, b) \/ StartReconcile(t, b) \/ StartCancel(t, b)

PayoutSpec == PayoutInit /\ [][PayoutNext]_batchVars

-----------------------------------------------------------------------------
(* Properties.                                                             *)

\* The variables have their types.
PayoutTypeOK ==
    /\ pay \in [Settlements -> Pay]
    /\ batch \in [Batches -> BatchStatuses]
    /\ account \in [Settlements -> Accounts]
    /\ verified \in [Settlements -> BOOLEAN]
    /\ asked \in [Settlements -> 0..MaxAccounts]
    /\ saving \in [Settlements -> {"no", "account", "change"}]
    /\ vetted \in [Settlements -> SUBSET Accounts]
    /\ file \in [Batches -> SUBSET Line]
    /\ bank \in [Settlements -> [Attempts -> Transfer]]
    /\ ptask \in [PayoutTasks -> PayoutTask]

\* Ways the restaurant has been or may still be paid for a settlement: a transfer under way or
\* credited, a payment by hand, the credit in a later week.
Payments(s) ==
    {n \in Attempts : bank[s][n].state \in {"sent", "credited"}}
        \union {x \in {ByHand} : pay[s].utr = ByHand}
        \union {x \in {0} : pay[s].status = "carried_forward"}

\* A settlement is paid once: whatever the order of batches, results, retries, holds and
\* payments by hand, no second way of paying it is opened while one is under way or done
\* ("never both, so nothing is paid twice").
PaidOnce == \A s \in Settlements : Cardinality(Payments(s)) <= 1

\* Money goes to an account somebody verified, whatever the owner saves and asks for, and admins
\* decide, between scheduling, batching, download and upload.
ToVerifiedAccount ==
    \A s \in Settlements, n \in Attempts : bank[s][n].state # "none" => bank[s][n].to \in vetted[s]

\* A batch closed as reconciled awaits nothing: no payment is left with the bank in a batch that
\* nobody will look at again.
ReconciledIsSettled == \A b \in Batches : batch[b] = "reconciled" => Awaiting(b) = {}
=============================================================================
