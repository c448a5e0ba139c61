--------------------------- MODULE PayoutProofs ---------------------------
(***************************************************************************)
(* Proofs about PayoutBatch and about RiderPay, one after the other: they  *)
(* share no state.                                                         *)
(*                                                                         *)
(* PayoutBatch, for any number of settlements, batches, handlers,          *)
(* transfers and accounts, and whatever is held or cancelled.              *)
(* Inv, its inductive invariant: the types; a verified account has been    *)
(* vetted; and wherever an account number is kept on its way to the bank - *)
(* the settlement's beneficiary, a handler's registers, the lines of a     *)
(* file, the transfers - it is a vetted one.  The beneficiary of a         *)
(* settlement on hold or a draft is left out: nothing is paid from it, and *)
(* scheduling writes it anew.                                              *)
(* Kept, the invariant for one handler at a time: only the last transfer   *)
(* of a payout may be under way or done, and the status says which; a line *)
(* not yet uploaded, of a batch nobody takes back, is of a payout that     *)
(* awaits it; and what the handler has read still holds (Knows).           *)
(*                                                                         *)
(* RiderPay, for any number of deliveries, weeks, requests, references and *)
(* crashes.  RiderInv, the inductive invariant of any number of requests:  *)
(* the types.  Fair adds, for one request at a time, that a paid week is   *)
(* over and was paid as earned, and what the request knows of the week it  *)
(* works on (RiderKnows): what it adds up for a week that is over stays    *)
(* true while deliveries go on, for they are of the current week.          *)
(***************************************************************************)
EXTENDS PayoutBatch, RiderPay, FiniteSetTheorems, WellFoundedInduction, TLAPS

\* The owner's saves number the accounts upwards.
Numbered ==
    \A s \in Settlements :
        /\ asked[s] # 0 => account[s] < asked[s]
        /\ saving[s] # "no" => NewAccount(s) <= MaxAccounts
        /\ verified[s] => account[s] \in vetted[s]

Scheduled == {"approved", "processing", "paid", "failed", "carried_forward"}
PayFine(p, V) ==
    /\ p.status \in Scheduled => p.ben \in V
    /\ p.batch # NoBatch => p.ref # 0

LinesFine(ls, V) == \A l \in ls : l.to \in V[l.s]

\* The registers v of a handler when V are the vetted accounts.
InBatch == {"each", "claim", "lines", "download", "row", "settle", "close", "withdraw", "cancelled"}
TaskFine(v, V) ==
    /\ v.pc \in InBatch => v.b \in Batches
    /\ v.pc \in {"schedule", "change", "reschedule", "retry", "claim"} => v.acc \in V[v.s]
    /\ v.pc \in {"each", "claim"} => \A s \in v.todo : v.att[s] # 0
    /\ v.pc = "claim" => v.s \in v.todo
    /\ v.pc = "settle" => v.saw \in Scheduled
    /\ LinesFine(v.lines, V)

Inv ==
    /\ PayoutTypeOK
    /\ Numbered
    /\ \A s \in Settlements : PayFine(pay[s], vetted[s])
    /\ \A t \in PayoutTasks : TaskFine(ptask[t], vetted)
    /\ \A b \in Batches : LinesFine(file[b], vetted)
    /\ ToVerifiedAccount

USE DEF PayoutConstantsOK

-----------------------------------------------------------------------------
LEMMA IdleOK == ASSUME PayoutConstantsOK PROVE PayoutIdle \in PayoutTask /\ \A V : TaskFine(PayoutIdle, V)
<1>1. SomeSettlement \in Settlements
  BY DEF PayoutConstantsOK, SomeSettlement
<1>2. NoRow \in Row /\ NoAttempts \in [Settlements -> 0..MaxAttempts]
  BY DEF NoRow, Row, NoAttempts
<1> QED
  BY <1>1, <1>2 DEF PayoutIdle, PayoutTask, PayoutPcs, PayoutStatuses, BatchStatuses, TaskFine, InBatch, LinesFine

LEMMA BecomeOK ==
    ASSUME ptask \in [PayoutTasks -> PayoutTask], NEW t \in PayoutTasks, NEW v \in PayoutTask, PayoutBecomes(t, v)
    PROVE  /\ ptask' \in [PayoutTasks -> PayoutTask]
           /\ ptask'[t] = v
           /\ \A u \in PayoutTasks : u # t => ptask'[u] = ptask[u]
BY DEF PayoutBecomes

\* Of a verified account only an account number is read.
LEMMA VerifiedOK ==
    ASSUME Inv, PayoutConstantsOK, NEW s \in Settlements, VerifiedAccount(s) # 0
    PROVE  VerifiedAccount(s) = account[s] /\ account[s] \in Accounts /\ account[s] \in vetted[s]
BY DEF Inv, PayoutTypeOK, Numbered, VerifiedAccount

\* The initial states satisfy the invariant.
THEOREM PayoutInitInv == ASSUME PayoutConstantsOK PROVE PayoutInit => Inv
<1> SUFFICES ASSUME PayoutInit PROVE Inv
  OBVIOUS
<1>1. PayoutTypeOK
  <2>1. 1 \in Accounts /\ 0 \in 0..MaxAttempts /\ 0 \in -1..MaxAttempts
    BY DEF Accounts
  <2>2. pay \in [Settlements -> Pay]
    BY <2>1 DEF PayoutInit, Pay, PayoutStatuses
  <2>3. bank \in [Settlements -> [Attempts -> Transfer]]
    BY <2>1 DEF PayoutInit, Transfer, BankStates
  <2> QED
    BY <2>1, <2>2, <2>3, IdleOK DEF PayoutInit, PayoutTypeOK, BatchStatuses
<1>2. Numbered /\ \A s \in Settlements : PayFine(pay[s], vetted[s])
  BY DEF PayoutInit, Numbered, NewAccount, PayFine, Scheduled
<1>3. (\A t \in PayoutTasks : TaskFine(ptask[t], vetted)) /\ (\A b \in Batches : LinesFine(file[b], vetted))
  BY IdleOK DEF PayoutInit, LinesFine
<1>4. ToVerifiedAccount
  BY DEF PayoutInit, ToVerifiedAccount
<1> QED
  BY <1>1, <1>2, <1>3, <1>4 DEF Inv

-----------------------------------------------------------------------------
(* Steps by what they write.                                               *)

\* A step of the account: it may only vet more accounts.
LEMMA AccountOK ==
    ASSUME Inv, PayoutConstantsOK, UNCHANGED <<pay, batch, file, bank, ptask>>, Numbered',
           account' \in [Settlements -> Accounts], verified' \in [Settlements -> BOOLEAN],
           asked' \in [Settlements -> 0..MaxAccounts],
           saving' \in [Settlements -> {"no", "account", "change"}],
           vetted' \in [Settlements -> SUBSET Accounts],
           \A s \in Settlements : vetted[s] \subseteq vetted'[s]
    PROVE  Inv'
<1>1. PayoutTypeOK'
  BY DEF Inv, PayoutTypeOK
<1>2. \A s \in Settlements : PayFine(pay'[s], vetted'[s])
  BY DEF Inv, PayFine
<1>3. ASSUME NEW ls \in SUBSET Line, LinesFine(ls, vetted) PROVE LinesFine(ls, vetted')
  BY <1>3 DEF LinesFine, Line
<1>4. \A b \in Batches : LinesFine(file'[b], vetted')
  BY <1>3 DEF Inv, PayoutTypeOK
<1>5. ASSUME NEW t \in PayoutTasks PROVE TaskFine(ptask'[t], vetted')
  <2>1. ptask[t] \in PayoutTask /\ TaskFine(ptask[t], vetted)
    BY DEF Inv, PayoutTypeOK
  <2>2. ptask[t].lines \in SUBSET Line /\ ptask[t].s \in Settlements
    BY <2>1 DEF PayoutTask
  <2> QED
    BY <1>3, <2>1, <2>2 DEF TaskFine
<1>6. ToVerifiedAccount'
  BY DEF Inv, ToVerifiedAccount
<1> QED
  BY <1>1, <1>2, <1>4, <1>5, <1>6 DEF Inv

\* A step that writes one settlement's payout and moves at most one handler.
LEMMA PayOK ==
    ASSUME Inv, PayoutConstantsOK, UNCHANGED <<batch, accountVars, file, bank>>, NEW s \in Settlements, NEW p \in Pay,
           PayFine(p, vetted[s]), Set(s, p),
           \/ UNCHANGED ptask
           \/ \E t \in PayoutTasks, v \in PayoutTask : TaskFine(v, vetted) /\ PayoutBecomes(t, v)
    PROVE  Inv'
<1>1. pay' \in [Settlements -> Pay] /\ \A q \in Settlements : PayFine(pay'[q], vetted[q])
  BY DEF Inv, PayoutTypeOK, Set
<1>2. ptask' \in [PayoutTasks -> PayoutTask] /\ \A t \in PayoutTasks : TaskFine(ptask'[t], vetted)
  <2>1. CASE UNCHANGED ptask
    BY <2>1 DEF Inv, PayoutTypeOK
  <2>2. CASE \E t \in PayoutTasks, v \in PayoutTask : TaskFine(v, vetted) /\ PayoutBecomes(t, v)
    BY <2>2, BecomeOK DEF Inv, PayoutTypeOK
  <2> QED
    BY <2>1, <2>2
<1>3. PayoutTypeOK'
  BY <1>1, <1>2 DEF Inv, PayoutTypeOK, accountVars
<1>4. Numbered' /\ ToVerifiedAccount'
  BY DEF Inv, Numbered, NewAccount, ToVerifiedAccount, accountVars
<1> QED
  BY <1>1, <1>2, <1>3, <1>4 DEF Inv, accountVars

\* A step that moves one handler and writes at most the batches and files.
LEMMA MoveOK ==
    ASSUME Inv, PayoutConstantsOK, UNCHANGED <<pay, accountVars, bank>>, NEW t \in PayoutTasks, NEW v \in PayoutTask,
           TaskFine(v, vetted), PayoutBecomes(t, v), batch' \in [Batches -> BatchStatuses],
           file' \in [Batches -> SUBSET Line], \A b \in Batches : LinesFine(file'[b], vetted)
    PROVE  Inv'
<1>1. ptask' \in [PayoutTasks -> PayoutTask] /\ \A u \in PayoutTasks : TaskFine(ptask'[u], vetted)
  BY BecomeOK DEF Inv, PayoutTypeOK
<1>2. PayoutTypeOK'
  BY <1>1 DEF Inv, PayoutTypeOK, accountVars
<1>3. Numbered' /\ ToVerifiedAccount' /\ \A s \in Settlements : PayFine(pay'[s], vetted'[s])
  BY DEF Inv, Numbered, NewAccount, ToVerifiedAccount, accountVars
<1> QED
  BY <1>1, <1>2, <1>3 DEF Inv, accountVars

\* Nothing but the handler moves.
LEMMA OnlyMoveOK ==
    ASSUME Inv, PayoutConstantsOK, UNCHANGED <<pay, batch, accountVars, file, bank>>, NEW t \in PayoutTasks, NEW v \in PayoutTask,
           TaskFine(v, vetted), PayoutBecomes(t, v)
    PROVE  Inv'
BY MoveOK DEF Inv, PayoutTypeOK

\* Lines handed to the bank go to vetted accounts.
LEMMA SubmitOK ==
    ASSUME Inv, PayoutConstantsOK, UNCHANGED <<pay, batch, accountVars, ptask>>, NEW ls, NEW b \in Batches \union {NoBatch},
           \A l \in ls : l.to \in Accounts /\ l.to \in vetted[l.s], Submit(ls, b),
           file' \in [Batches -> SUBSET Line], \A c \in Batches : LinesFine(file'[c], vetted)
    PROVE  Inv'
<1>1. ASSUME NEW s \in Settlements, NEW n \in Attempts
      PROVE  /\ bank'[s][n] \in Transfer
             /\ bank'[s][n].state # "none" => bank'[s][n].to \in vetted[s]
  <2> DEFINE mine == {l \in ls : l.s = s /\ l.n = n}
             first == CHOOSE l \in ls : l.s = s /\ l.n = n
  <2>1. bank[s][n] \in Transfer /\ (bank[s][n].state # "none" => bank[s][n].to \in vetted[s])
    BY DEF Inv, PayoutTypeOK, ToVerifiedAccount
  <2>2. CASE \E l \in ls : l.s = s /\ l.n = n /\ bank[s][n].state = "none"
    <3>1. first \in ls /\ first.s = s
      BY <2>2
    <3>2. first.to \in Accounts /\ first.to \in vetted[s]
      BY <3>1
    <3>3. bank'[s][n] = [state |-> "sent", via |-> b, to |-> first.to]
      BY <2>2 DEF Submit
    <3> QED
      BY <3>2, <3>3 DEF Transfer, BankStates
  <2>3. CASE ~\E l \in ls : l.s = s /\ l.n = n /\ bank[s][n].state = "none"
    BY <2>1, <2>3 DEF Submit
  <2> QED
    BY <2>2, <2>3
<1>2. bank' \in [Settlements -> [Attempts -> Transfer]]
  <2>1. bank' = [s \in Settlements |-> [n \in Attempts |-> bank'[s][n]]]
    BY DEF Submit
  <2> QED
    BY <1>1, <2>1
<1>3. PayoutTypeOK'
  BY <1>2 DEF Inv, PayoutTypeOK, accountVars
<1>4. ToVerifiedAccount'
  BY <1>1 DEF ToVerifiedAccount, accountVars
<1>5. Numbered' /\ \A s \in Settlements : PayFine(pay'[s], vetted'[s])
  BY DEF Inv, Numbered, NewAccount, accountVars
<1> QED
  BY <1>3, <1>4, <1>5 DEF Inv, accountVars

-----------------------------------------------------------------------------
(* The restaurant's account.                                               *)

LEMMA StartSaveOK == ASSUME Inv, PayoutConstantsOK, NEW s \in Settlements, StartSave(s) PROVE Inv'
<1>1. saving' \in [Settlements -> {"no", "account", "change"}]
  BY DEF StartSave, Inv, PayoutTypeOK
<1>2. Numbered'
  BY DEF StartSave, Inv, PayoutTypeOK, Numbered, NewAccount
<1> QED
  BY <1>1, <1>2, AccountOK DEF StartSave, Inv, PayoutTypeOK

LEMMA SaveAccountOK == ASSUME Inv, PayoutConstantsOK, NEW s \in Settlements, SaveAccount(s) PROVE Inv'
<1>1. NewAccount(s) \in Accounts /\ NewAccount(s) > account[s]
  BY DEF SaveAccount, Inv, PayoutTypeOK, Numbered, NewAccount, Accounts
<1>2. /\ saving' \in [Settlements -> {"no", "account", "change"}]
      /\ account' \in [Settlements -> Accounts] /\ verified' \in [Settlements -> BOOLEAN]
      /\ asked' \in [Settlements -> 0..MaxAccounts]
  <2>1. NewAccount(s) \in 0..MaxAccounts /\ 0 \in 0..MaxAccounts
    BY <1>1 DEF Accounts
  <2>2. saving' \in [Settlements -> {"no", "account", "change"}]
    BY DEF SaveAccount, Inv, PayoutTypeOK
  <2>3. CASE saving[s] = "change"
    <3>1. asked' = [asked EXCEPT ![s] = NewAccount(s)] /\ account' = account /\ verified' = verified
      BY <2>3 DEF SaveAccount
    <3>2. asked' \in [Settlements -> 0..MaxAccounts]
      BY <2>1, <3>1 DEF Inv, PayoutTypeOK
    <3> QED
      BY <2>2, <3>1, <3>2 DEF Inv, PayoutTypeOK
  <2>4. CASE saving[s] # "change"
    <3>1. account' = [account EXCEPT ![s] = NewAccount(s)] /\ verified' = [verified EXCEPT ![s] = FALSE]
      BY <2>4 DEF SaveAccount
    <3>2. asked' = [asked EXCEPT ![s] = 0]
      BY <2>4 DEF SaveAccount
    <3>3. account' \in [Settlements -> Accounts] /\ verified' \in [Settlements -> BOOLEAN]
      BY <1>1, <3>1 DEF Inv, PayoutTypeOK
    <3> QED
      BY <2>1, <2>2, <3>2, <3>3 DEF Inv, PayoutTypeOK
  <2> QED
    BY <2>3, <2>4
<1>3. Numbered'
  <2> SUFFICES ASSUME NEW q \in Settlements
               PROVE  /\ asked'[q] # 0 => account'[q] < asked'[q]
                      /\ saving'[q] # "no" => NewAccount(q)' <= MaxAccounts
                      /\ verified'[q] => account'[q] \in vetted'[q]
    BY DEF Numbered
  <2>1. CASE q = s
    <3>1. CASE saving[s] = "change"
      BY <1>1, <2>1, <3>1 DEF SaveAccount, Inv, PayoutTypeOK, Numbered
    <3>2. CASE saving[s] # "change"
      BY <1>1, <2>1, <3>2 DEF SaveAccount, Inv, PayoutTypeOK, Numbered
    <3> QED
      BY <3>1, <3>2
  <2>2. CASE q # s
    BY <2>2 DEF SaveAccount, Inv, PayoutTypeOK, Numbered, NewAccount
  <2> QED
    BY <2>1, <2>2
<1> QED
  BY <1>2, <1>3, AccountOK DEF SaveAccount, Inv, PayoutTypeOK

LEMMA VerifyAccountOK == ASSUME Inv, PayoutConstantsOK, NEW s \in Settlements, VerifyAccount(s) PROVE Inv'
<1>1. /\ verified' \in [Settlements -> BOOLEAN] /\ vetted' \in [Settlements -> SUBSET Accounts]
      /\ \A q \in Settlements : vetted[q] \subseteq vetted'[q]
      /\ account[s] \in vetted'[s]
  BY DEF VerifyAccount, Inv, PayoutTypeOK
<1>2. Numbered'
  BY <1>1 DEF VerifyAccount, Inv, PayoutTypeOK, Numbered, NewAccount
<1> QED
  BY <1>1, <1>2, AccountOK DEF VerifyAccount, Inv, PayoutTypeOK

LEMMA DecideChangeOK == ASSUME Inv, PayoutConstantsOK, NEW s \in Settlements, DecideChange(s) PROVE Inv'
<1>1. asked[s] \in Accounts /\ account[s] < asked[s]
  BY DEF DecideChange, Inv, PayoutTypeOK, Numbered, Accounts
<1>2. /\ account' \in [Settlements -> Accounts] /\ vetted' \in [Settlements -> SUBSET Accounts]
      /\ asked' \in [Settlements -> 0..MaxAccounts]
      /\ \A q \in Settlements : vetted[q] \subseteq vetted'[q]
  <2>1. 0 \in 0..MaxAccounts
    OBVIOUS
  <2>2. asked' \in [Settlements -> 0..MaxAccounts]
    BY <2>1 DEF DecideChange, Inv, PayoutTypeOK
  <2>3. CASE UNCHANGED <<account, vetted>>
    BY <2>2, <2>3 DEF Inv, PayoutTypeOK
  <2>4. CASE /\ account' = [account EXCEPT ![s] = asked[s]]
             /\ vetted' = [vetted EXCEPT ![s] = @ \union {asked[s]}]
    BY <1>1, <2>2, <2>4 DEF Inv, PayoutTypeOK
  <2> QED
    BY <2>3, <2>4 DEF DecideChange
<1>3. asked' = [asked EXCEPT ![s] = 0] /\ UNCHANGED <<saving, verified>>
  BY DEF DecideChange
<1>4. \/ account'[s] = asked[s] /\ asked[s] \in vetted'[s]
      \/ account'[s] = account[s] /\ vetted'[s] = vetted[s]
  BY DEF DecideChange, Inv, PayoutTypeOK
<1>5. \A q \in Settlements : q # s => account'[q] = account[q]
  BY DEF DecideChange, Inv, PayoutTypeOK
<1>6. Numbered'
  <2> SUFFICES ASSUME NEW q \in Settlements
               PROVE  /\ asked'[q] # 0 => account'[q] < asked'[q]
                      /\ saving'[q] # "no" => NewAccount(q)' <= MaxAccounts
                      /\ verified'[q] => account'[q] \in vetted'[q]
    BY DEF Numbered
  <2>1. CASE q = s
    <3>1. asked'[q] = 0 /\ NewAccount(q)' = 1 + account'[q] /\ NewAccount(q) = 1 + asked[s]
      BY <1>3, <2>1 DEF DecideChange, NewAccount, Inv, PayoutTypeOK
    <3>2. NewAccount(q)' <= NewAccount(q)
      BY <1>1, <1>4, <2>1, <3>1 DEF Inv, PayoutTypeOK, Accounts
    <3>3. saving[q] # "no" => NewAccount(q) <= MaxAccounts
      BY DEF Inv, Numbered
    <3>4. NewAccount(q) \in Int /\ NewAccount(q)' \in Int
      BY <1>2, <3>1, <2>1 DEF Inv, PayoutTypeOK, Accounts
    <3>5. verified'[q] => account'[q] \in vetted'[q]
      BY <1>3, <1>4, <2>1 DEF Inv, Numbered
    <3> QED
      BY <1>3, <3>1, <3>2, <3>3, <3>4, <3>5
  <2>2. CASE q # s
    BY <1>2, <1>3, <1>5, <2>2 DEF Inv, PayoutTypeOK, Numbered, NewAccount
  <2> QED
    BY <2>1, <2>2
<1> QED
  BY <1>2, <1>3, <1>6, AccountOK DEF DecideChange, Inv, PayoutTypeOK

-----------------------------------------------------------------------------
(* Payouts by hand.                                                        *)

\* A payout as it is read, field by field.
LEMMA PayTyped ==
    ASSUME Inv, PayoutConstantsOK, NEW s \in Settlements
    PROVE  /\ pay[s] \in Pay /\ PayFine(pay[s], vetted[s])
           /\ pay[s].ben \in 0..MaxAccounts
           /\ {-1, 0, pay[s].attempts} \subseteq -1..MaxAttempts
           /\ pay[s].attempts < MaxAttempts => pay[s].attempts + 1 \in 1..MaxAttempts
           /\ \A n \in 1..MaxAttempts : n \in 0..MaxAttempts
           /\ 0 \in 0..MaxAttempts
<1>1. pay[s] \in Pay /\ PayFine(pay[s], vetted[s])
  BY DEF Inv, PayoutTypeOK
<1>2. pay[s].ben \in Accounts /\ pay[s].attempts \in 0..MaxAttempts
  BY <1>1 DEF Pay
<1> QED
  BY <1>1, <1>2 DEF Accounts

LEMMA StartSchedulingOK ==
    ASSUME Inv, PayoutConstantsOK, NEW t \in PayoutTasks, NEW s \in Settlements, StartScheduling(t, s) PROVE Inv'
<1>1. PICK pc \in {"schedule", "change", "reschedule", "retry"} :
            /\ VerifiedAccount(s) # 0
            /\ PayoutBecomes(t, [PayoutIdle EXCEPT !.pc = pc, !.s = s, !.acc = VerifiedAccount(s)])
  BY DEF StartScheduling
<1> DEFINE v == [PayoutIdle EXCEPT !.pc = pc, !.s = s, !.acc = VerifiedAccount(s)]
<1>2. v \in PayoutTask
  <2>1. VerifiedAccount(s) \in 0..MaxAccounts
    BY <1>1, VerifiedOK DEF Accounts
  <2> QED
    BY <1>1, <2>1, IdleOK DEF PayoutTask, PayoutPcs
<1>3. TaskFine(v, vetted)
  BY <1>1, VerifiedOK DEF TaskFine, PayoutIdle, InBatch, LinesFine
<1> QED
  BY <1>1, <1>2, <1>3, OnlyMoveOK DEF StartScheduling

LEMMA ScheduleOK == ASSUME Inv, PayoutConstantsOK, NEW t \in PayoutTasks, SchedulePayout(t) PROVE Inv'
<1> DEFINE s == ptask[t].s
           p == IF pay[s].status = From(ptask[t].pc) THEN Rescheduled(s, ptask[t].pc, ptask[t].acc) ELSE pay[s]
<1>1. s \in Settlements /\ ptask[t].acc \in vetted[s] /\ vetted[s] \subseteq Accounts
  BY DEF SchedulePayout, Inv, PayoutTypeOK, PayoutTask, TaskFine
<1>2. pay[s] \in Pay /\ PayFine(pay[s], vetted[s])
  BY <1>1, PayTyped
<1>3. p \in Pay /\ PayFine(p, vetted[s])
  <2>1. Rescheduled(s, ptask[t].pc, ptask[t].acc) \in Pay
    <3>1. 0 \in 0..MaxAttempts /\ 0 \in -1..MaxAttempts /\ ptask[t].acc \in Accounts
      BY <1>1
    <3>2. Cleared(s) \in Pay
      BY <1>2, <3>1 DEF Cleared, Pay, PayoutStatuses
    <3> QED
      BY <1>2, <3>1, <3>2 DEF SchedulePayout, Rescheduled, Pay, PayoutStatuses
  <2>2. ptask[t].pc # "retry" => Rescheduled(s, ptask[t].pc, ptask[t].acc).ben \in vetted[s]
    BY <1>1, <1>2 DEF SchedulePayout, Rescheduled, Cleared, Pay
  <2>3. ptask[t].pc = "retry" /\ pay[s].status = From(ptask[t].pc)
            => Rescheduled(s, ptask[t].pc, ptask[t].acc).ben \in vetted[s]
    BY <1>1, <1>2 DEF Rescheduled, Cleared, From, Pay, PayFine, Scheduled
  <2>4. LET q == Rescheduled(s, ptask[t].pc, ptask[t].acc) IN q.batch # NoBatch => q.ref # 0
    BY <1>1, <1>2 DEF SchedulePayout, Rescheduled, Cleared, Pay, PayFine
  <2> QED
    BY <1>2, <2>1, <2>2, <2>3, <2>4 DEF PayFine
<1>4. Set(s, p)
  BY <1>1 DEF SchedulePayout, Set, Inv, PayoutTypeOK
<1>5. PayoutBecomes(t, PayoutIdle)
  BY DEF SchedulePayout, PayoutFinish
<1> HIDE DEF p
<1> QED
  BY <1>1, <1>3, <1>4, <1>5, PayOK, IdleOK DEF SchedulePayout

LEMMA StartReleaseOK ==
    ASSUME Inv, PayoutConstantsOK, NEW t \in PayoutTasks, NEW s \in Settlements, StartRelease(t, s) PROVE Inv'
<1> DEFINE v == [PayoutIdle EXCEPT !.pc = "release", !.s = s, !.acc = pay[s].ben]
<1>1. v \in PayoutTask
  BY IdleOK, PayTyped DEF PayoutTask, PayoutPcs
<1>2. TaskFine(v, vetted)
  BY DEF TaskFine, PayoutIdle, InBatch, LinesFine
<1> QED
  BY <1>1, <1>2, OnlyMoveOK DEF StartRelease

LEMMA ReleaseOK == ASSUME Inv, PayoutConstantsOK, NEW t \in PayoutTasks, ReleasePayout(t) PROVE Inv'
<1> DEFINE s == ptask[t].s
           ok == /\ pay[s].status = "approved"
                 /\ pay[s].ben = ptask[t].acc /\ pay[s].attempts < MaxAttempts
           p == IF ok THEN [pay[s] EXCEPT !.status = "processing", !.provider = "manual", !.attempts = @ + 1]
                ELSE pay[s]
<1>1. s \in Settlements
  BY DEF Inv, PayoutTypeOK, PayoutTask
<1>2. pay[s] \in Pay /\ PayFine(pay[s], vetted[s])
  BY <1>1, PayTyped
<1>3. p \in Pay /\ PayFine(p, vetted[s])
  <2>1. CASE ok
    <3>1. pay[s].attempts + 1 \in 0..MaxAttempts
      BY <1>1, <2>1, PayTyped
    <3> QED
      BY <1>2, <2>1, <3>1 DEF Pay, PayoutStatuses, PayFine, Scheduled
  <2>2. CASE ~ok
    BY <1>2, <2>2
  <2> QED
    BY <2>1, <2>2
<1>4. Set(s, p) /\ PayoutBecomes(t, PayoutIdle)
  BY <1>1 DEF ReleasePayout, Set, PayoutFinish, Inv, PayoutTypeOK
<1> HIDE DEF p
<1> QED
  BY <1>1, <1>3, <1>4, PayOK, IdleOK DEF ReleasePayout

LEMMA ByHandOK ==
    ASSUME Inv, PayoutConstantsOK, NEW s \in Settlements,
           RecordPaid(s) \/ RecordFailed(s) \/ MarkPaidManually(s) \/ HoldPayout(s) \/ UnholdPayout(s) \/ CarryForward(s)
    PROVE  Inv'
<1>1. pay[s] \in Pay /\ PayFine(pay[s], vetted[s]) /\ {-1, 0, pay[s].attempts} \subseteq -1..MaxAttempts
  BY PayTyped
<1>2. CASE RecordPaid(s)
  <2> DEFINE p == [pay[s] EXCEPT !.status = "paid", !.utr = pay[s].attempts]
  <2>1. p \in Pay /\ PayFine(p, vetted[s])
    BY <1>1, <1>2 DEF RecordPaid, Pay, PayoutStatuses, PayFine, Scheduled
  <2> QED
    BY <1>2, <2>1, PayOK DEF RecordPaid
<1>3. CASE RecordFailed(s)
  <2> DEFINE p == [pay[s] EXCEPT !.status = "failed", !.utr = 0]
  <2>1. p \in Pay /\ PayFine(p, vetted[s])
    BY <1>1, <1>3 DEF RecordFailed, Pay, PayoutStatuses, PayFine, Scheduled
  <2> QED
    BY <1>3, <2>1, PayOK DEF RecordFailed
<1>4. CASE MarkPaidManually(s)
  <2> DEFINE p == [pay[s] EXCEPT !.status = "paid", !.provider = "manual",
                      !.utr = IF pay[s].status = "processing" THEN pay[s].attempts ELSE ByHand]
  <2>1. p \in Pay /\ PayFine(p, vetted[s])
    BY <1>1, <1>4 DEF MarkPaidManually, Pay, PayoutStatuses, PayFine, Scheduled, ByHand
  <2> QED
    BY <1>4, <2>1, PayOK DEF MarkPaidManually
<1>5. CASE HoldPayout(s)
  <2> DEFINE p == [pay[s] EXCEPT !.status = "on_hold"]
  <2>1. p \in Pay /\ PayFine(p, vetted[s])
    BY <1>1 DEF Pay, PayoutStatuses, PayFine, Scheduled
  <2> QED
    BY <1>5, <2>1, PayOK DEF HoldPayout
<1>6. CASE UnholdPayout(s)
  <2> DEFINE p == [pay[s] EXCEPT !.status = "draft"]
  <2>1. p \in Pay /\ PayFine(p, vetted[s])
    BY <1>1 DEF Pay, PayoutStatuses, PayFine, Scheduled
  <2> QED
    BY <1>6, <2>1, PayOK DEF UnholdPayout
<1>7. CASE CarryForward(s)
  <2> DEFINE p == [pay[s] EXCEPT !.status = "carried_forward"]
  <2>1. p \in Pay /\ PayFine(p, vetted[s])
    BY <1>1, <1>7 DEF CarryForward, Pay, PayoutStatuses, PayFine, Scheduled
  <2> QED
    BY <1>7, <2>1, PayOK DEF CarryForward
<1> QED
  BY <1>2, <1>3, <1>4, <1>5, <1>6, <1>7

-----------------------------------------------------------------------------
(* Batches.                                                                *)

\* What a handler is known to hold.
LEMMA TaskTyped ==
    ASSUME Inv, PayoutConstantsOK, NEW t \in PayoutTasks
    PROVE  /\ ptask[t] \in PayoutTask /\ TaskFine(ptask[t], vetted)
           /\ ptask[t].s \in Settlements /\ ptask[t].lines \in SUBSET Line
           /\ ptask[t].todo \in SUBSET Settlements
           /\ ptask[t].att \in [Settlements -> 0..MaxAttempts]
BY DEF Inv, PayoutTypeOK, PayoutTask

LEMMA CreateBatchOK == ASSUME Inv, PayoutConstantsOK, NEW t \in PayoutTasks, CreateBatch(t) PROVE Inv'
<1>1. PICK b \in Batches, S \in SUBSET {s \in Settlements : pay[s].status = "approved"} :
        /\ \A s \in S : pay[s].attempts < MaxAttempts
        /\ batch' = [batch EXCEPT ![b] = "created"]
        /\ PayoutBecomes(t, [PayoutIdle EXCEPT !.pc = "each", !.b = b, !.todo = S,
              !.att = [s \in Settlements |-> IF s \in S THEN pay[s].attempts + 1 ELSE 0]])
  BY DEF CreateBatch
<1> DEFINE att == [s \in Settlements |-> IF s \in S THEN pay[s].attempts + 1 ELSE 0]
           v == [PayoutIdle EXCEPT !.pc = "each", !.b = b, !.todo = S, !.att = att]
<1>2. att \in [Settlements -> 0..MaxAttempts] /\ \A s \in S : att[s] # 0
  <2>1. ASSUME NEW s \in Settlements
        PROVE  att[s] \in 0..MaxAttempts /\ (s \in S => att[s] # 0)
    BY <1>1, PayTyped
  <2> QED
    BY <2>1
<1> HIDE DEF att
<1>3. v \in PayoutTask
  BY <1>2, IdleOK DEF PayoutTask, PayoutPcs
<1>4. TaskFine(v, vetted)
  BY <1>2, IdleOK DEF TaskFine, InBatch, LinesFine, PayoutIdle
<1>5. batch' \in [Batches -> BatchStatuses]
  BY <1>1 DEF Inv, PayoutTypeOK, BatchStatuses
<1> QED
  BY <1>1, <1>3, <1>4, <1>5, MoveOK DEF CreateBatch, Inv, PayoutTypeOK, att

LEMMA ReadAccountOK == ASSUME Inv, PayoutConstantsOK, NEW t \in PayoutTasks, ReadAccount(t) PROVE Inv'
<1>1. PICK s \in ptask[t].todo :
          IF VerifiedAccount(s) # 0 /\ VerifiedAccount(s) = pay[s].ben
          THEN PayoutBecomes(t, [ptask[t] EXCEPT !.pc = "claim", !.s = s, !.acc = VerifiedAccount(s)])
          ELSE PayoutBecomes(t, [ptask[t] EXCEPT !.todo = @ \ {s}])
  BY DEF ReadAccount
<1>2. s \in Settlements /\ ptask[t] \in PayoutTask /\ TaskFine(ptask[t], vetted) /\ ptask[t].pc = "each"
  BY <1>1, TaskTyped DEF ReadAccount, PayoutAt
<1>3. CASE VerifiedAccount(s) # 0 /\ VerifiedAccount(s) = pay[s].ben
  <2> DEFINE v == [ptask[t] EXCEPT !.pc = "claim", !.s = s, !.acc = VerifiedAccount(s)]
  <2>1. VerifiedAccount(s) \in 0..MaxAccounts /\ VerifiedAccount(s) \in vetted[s]
    BY <1>2, <1>3, VerifiedOK DEF Accounts
  <2>2. v \in PayoutTask
    BY <1>2, <2>1 DEF PayoutTask, PayoutPcs
  <2>3. TaskFine(v, vetted)
    BY <1>1, <1>2, <2>1 DEF TaskFine, InBatch, PayoutTask
  <2> QED
    BY <1>1, <1>3, <2>2, <2>3, OnlyMoveOK DEF ReadAccount
<1>4. CASE ~(VerifiedAccount(s) # 0 /\ VerifiedAccount(s) = pay[s].ben)
  <2> DEFINE v == [ptask[t] EXCEPT !.todo = @ \ {s}]
  <2>1. v \in PayoutTask
    BY <1>2 DEF PayoutTask
  <2>2. TaskFine(v, vetted)
    BY <1>2 DEF TaskFine, InBatch, PayoutTask
  <2> QED
    BY <1>1, <1>4, <2>1, <2>2, OnlyMoveOK DEF ReadAccount
<1> QED
  BY <1>3, <1>4

LEMMA ClaimMemberOK == ASSUME Inv, PayoutConstantsOK, NEW t \in PayoutTasks, ClaimMember(t) PROVE Inv'
<1> DEFINE s == ptask[t].s
           ok == pay[s].status = "approved" /\ pay[s].attempts < MaxAttempts
           p == IF ok THEN Batched(t, s) ELSE pay[s]
           any == ptask[t].any \/ ok
           v == [ptask[t] EXCEPT !.pc = "each", !.todo = @ \ {s}, !.any = any, !.acc = 0,
                                !.s = SomeSettlement]
<1>1. /\ ptask[t] \in PayoutTask /\ TaskFine(ptask[t], vetted) /\ ptask[t].pc = "claim"
      /\ s \in Settlements
  BY TaskTyped DEF ClaimMember, PayoutAt
<1>2. pay[s] \in Pay /\ PayFine(pay[s], vetted[s])
  BY <1>1, PayTyped
<1>3. v \in PayoutTask
  <2>1. SomeSettlement \in Settlements /\ any \in BOOLEAN
    BY DEF PayoutConstantsOK, SomeSettlement
  <2>2. ptask[t].todo \ {s} \in SUBSET Settlements /\ 0 \in 0..MaxAccounts
    BY TaskTyped
  <2> HIDE DEF any, s
  <2> QED
    BY <1>1, <2>1, <2>2 DEF PayoutTask, PayoutPcs
<1>4. TaskFine(v, vetted)
  BY <1>1 DEF TaskFine, InBatch, PayoutTask
<1>5. p \in Pay /\ PayFine(p, vetted[s])
  <2>1. CASE ok
    <3>1. ptask[t].acc \in vetted[s] /\ vetted[s] \subseteq Accounts /\ ptask[t].b \in Batches
      BY <1>1 DEF TaskFine, InBatch, Inv, PayoutTypeOK
    <3>2. ptask[t].att[s] \in 0..MaxAttempts /\ ptask[t].att[s] # 0
      BY <1>1, TaskTyped DEF TaskFine
    <3>3. pay[s].attempts + 1 \in 0..MaxAttempts
      BY <1>1, <2>1, PayTyped
    <3>4. Batched(t, s) \in Pay
      BY <1>2, <3>1, <3>2, <3>3 DEF Batched, Pay, PayoutStatuses
    <3>5. PayFine(Batched(t, s), vetted[s])
      BY <1>2, <3>1, <3>2 DEF Batched, Pay, PayFine
    <3> QED
      BY <2>1, <3>4, <3>5
  <2>2. CASE ~ok
    BY <1>2, <2>2
  <2> QED
    BY <2>1, <2>2
<1>6. Set(s, p)
  BY <1>1 DEF ClaimMember, Set, Inv, PayoutTypeOK
<1>7. PayoutBecomes(t, v)
  BY DEF ClaimMember
<1> HIDE DEF p, v
<1> QED
  BY <1>1, <1>3, <1>4, <1>5, <1>6, <1>7, PayOK DEF ClaimMember

\* Steps after which the handler is idle and only a batch's status has changed.
LEMMA ClosedOK ==
    ASSUME Inv, PayoutConstantsOK, NEW t \in PayoutTasks,
           FinishBatch(t) \/ SaveReconciled(t) \/ SaveCancelled(t)
    PROVE  Inv'
<1>1. batch' \in [Batches -> BatchStatuses]
  <2>1. CASE FinishBatch(t)
    BY <2>1 DEF FinishBatch, Inv, PayoutTypeOK, BatchStatuses
  <2>2. CASE SaveReconciled(t)
    BY <2>2 DEF SaveReconciled, Inv, PayoutTypeOK, BatchStatuses
  <2>3. CASE SaveCancelled(t)
    BY <2>3 DEF SaveCancelled, Inv, PayoutTypeOK, BatchStatuses
  <2> QED
    BY <2>1, <2>2, <2>3
<1>2. PayoutBecomes(t, PayoutIdle) /\ UNCHANGED <<pay, accountVars, file, bank>>
  BY DEF FinishBatch, SaveReconciled, SaveCancelled, PayoutFinish
<1> QED
  BY <1>1, <1>2, MoveOK, IdleOK DEF Inv, PayoutTypeOK

\* Steps that start on a batch, or look at it again.
LEMMA OnBatchOK ==
    ASSUME Inv, PayoutConstantsOK, NEW t \in PayoutTasks, NEW b \in Batches,
           StartDownload(t, b) \/ StartReconcile(t, b) \/ StartCancel(t, b)
    PROVE  Inv'
<1> DEFINE v(pc) == [PayoutIdle EXCEPT !.pc = pc, !.b = b]
           w == [PayoutIdle EXCEPT !.pc = "lines", !.b = b, !.saw = batch[b]]
<1>1. ASSUME NEW pc \in {"row", "withdraw"} PROVE v(pc) \in PayoutTask /\ TaskFine(v(pc), vetted)
  <2>1. v(pc) \in PayoutTask
    BY IdleOK DEF PayoutTask, PayoutPcs
  <2>2. TaskFine(v(pc), vetted)
    BY DEF TaskFine, InBatch, LinesFine, PayoutIdle
  <2> QED
    BY <2>1, <2>2
<1>2. w \in PayoutTask /\ TaskFine(w, vetted)
  <2>1. w \in PayoutTask
    BY IdleOK DEF PayoutTask, PayoutPcs, Inv, PayoutTypeOK
  <2>2. TaskFine(w, vetted)
    BY DEF TaskFine, InBatch, LinesFine, PayoutIdle
  <2> QED
    BY <2>1, <2>2
<1>3. CASE StartDownload(t, b)
  BY <1>2, <1>3, OnlyMoveOK DEF StartDownload
<1>4. CASE StartReconcile(t, b)
  BY <1>1, <1>4, OnlyMoveOK DEF StartReconcile
<1>5. CASE StartCancel(t, b)
  BY <1>1, <1>5, OnlyMoveOK DEF StartCancel
<1> QED
  BY <1>3, <1>4, <1>5

\* The lines of a file print the accounts the settlements were scheduled for.
LEMMA ReadLinesOK == ASSUME Inv, PayoutConstantsOK, NEW t \in PayoutTasks, ReadLines(t) PROVE Inv'
<1> DEFINE b == ptask[t].b
           v == [ptask[t] EXCEPT !.pc = "download", !.lines = Lines(b)]
<1>1. ptask[t] \in PayoutTask /\ b \in Batches /\ ptask[t].pc = "lines"
  BY TaskTyped DEF ReadLines, PayoutAt, TaskFine, InBatch
<1>2. CASE PayoutBecomes(t, v) /\ \A s \in Awaiting(b) : VerifiedAccount(s) = pay[s].ben
  <2>1. ASSUME NEW s \in Awaiting(b)
        PROVE  s \in Settlements /\ pay[s].ref \in Attempts /\ account[s] \in Accounts /\ account[s] \in vetted[s]
    <3>1. s \in Settlements /\ pay[s].batch = b
      BY DEF Awaiting
    <3>2. pay[s].ref \in Attempts /\ pay[s].ben # 0
      BY <1>1, <3>1, PayTyped DEF Pay, PayFine, Attempts, Accounts
    <3>3. VerifiedAccount(s) # 0
      BY <1>2, <3>2
    <3> QED
      BY <3>1, <3>2, <3>3, VerifiedOK
  <2>2. Lines(b) \in SUBSET Line /\ LinesFine(Lines(b), vetted)
    BY <2>1 DEF Lines, Line, LinesFine
  <2>3. v \in PayoutTask
    BY <1>1, <2>2 DEF PayoutTask, PayoutPcs
  <2>4. TaskFine(v, vetted)
    BY <1>1, <2>2 DEF TaskFine, InBatch, PayoutTask
  <2> QED
    BY <1>2, <2>3, <2>4, OnlyMoveOK DEF ReadLines
<1>3. CASE PayoutBecomes(t, PayoutIdle)
  BY <1>3, IdleOK, OnlyMoveOK DEF ReadLines
<1> QED
  BY <1>2, <1>3 DEF ReadLines, PayoutFinish

LEMMA SaveDownloadOK == ASSUME Inv, PayoutConstantsOK, NEW t \in PayoutTasks, SaveDownload(t) PROVE Inv'
<1>1. ptask[t].lines \in SUBSET Line /\ LinesFine(ptask[t].lines, vetted)
  BY TaskTyped DEF TaskFine
<1>2. batch' \in [Batches -> BatchStatuses]
  BY DEF SaveDownload, Inv, PayoutTypeOK, BatchStatuses
<1>3. file' \in [Batches -> SUBSET Line] /\ \A b \in Batches : LinesFine(file'[b], vetted)
  BY <1>1 DEF SaveDownload, Inv, PayoutTypeOK
<1> QED
  BY <1>2, <1>3, MoveOK, IdleOK DEF SaveDownload, PayoutFinish

LEMMA FindRowOK == ASSUME Inv, PayoutConstantsOK, NEW t \in PayoutTasks, FindRow(t) PROVE Inv'
<1>1. PICK s \in Settlements, n \in Attempts, res \in {"paid", "failed", "returned"} :
        /\ pay[s].status \in Scheduled
        /\ PayoutBecomes(t, [ptask[t] EXCEPT !.pc = "settle", !.s = s, !.row = [n |-> n, res |-> res],
                                     !.saw = pay[s].status, !.by = pay[s].provider])
  <2>1. ASSUME NEW s \in Settlements, NEW n \in Attempts, NEW res, Applies(s, n, res)
        PROVE  pay[s].status \in Scheduled
    BY <2>1 DEF Applies, BankPaid, Scheduled
  <2>2. ASSUME NEW x, NEW res \in Reported(x) PROVE res \in {"paid", "failed", "returned"}
    BY DEF Reported
  <2> QED
    BY <2>1, <2>2 DEF FindRow
<1> DEFINE v == [ptask[t] EXCEPT !.pc = "settle", !.s = s, !.row = [n |-> n, res |-> res],
                                !.saw = pay[s].status, !.by = pay[s].provider]
<1>2. ptask[t] \in PayoutTask /\ TaskFine(ptask[t], vetted) /\ ptask[t].pc = "row"
  BY TaskTyped DEF FindRow, PayoutAt
<1>3. v \in PayoutTask
  <2>1. [n |-> n, res |-> res] \in Row /\ pay[s].status \in PayoutStatuses
    BY PayTyped DEF Row, Attempts, Pay
  <2>2. pay[s].provider \in {"none", "manual", "bank_file"}
    BY PayTyped DEF Pay
  <2> QED
    BY <1>2, <2>1, <2>2 DEF PayoutTask, PayoutPcs
<1>4. TaskFine(v, vetted)
  BY <1>1, <1>2 DEF TaskFine, InBatch, PayoutTask
<1> QED
  BY <1>1, <1>3, <1>4, OnlyMoveOK DEF FindRow

LEMMA SettleRowOK == ASSUME Inv, PayoutConstantsOK, NEW t \in PayoutTasks, SettleRow(t) PROVE Inv'
<1> DEFINE s == ptask[t].s
           v == [PayoutIdle EXCEPT !.pc = "row", !.b = ptask[t].b]
           paid == [pay[s] EXCEPT !.status = "paid", !.utr = ptask[t].row.n]
           failed == [pay[s] EXCEPT !.status = "failed", !.utr = 0]
<1>1. /\ ptask[t] \in PayoutTask /\ ptask[t].pc = "settle" /\ s \in Settlements
      /\ ptask[t].b \in Batches /\ ptask[t].saw \in Scheduled
  BY TaskTyped DEF SettleRow, PayoutAt, TaskFine, InBatch, PayoutTask
<1>2. pay[s] \in Pay /\ PayFine(pay[s], vetted[s])
  BY <1>1, PayTyped
<1>3. v \in PayoutTask
  BY <1>1, IdleOK DEF PayoutTask, PayoutPcs
<1>4. TaskFine(v, vetted)
  BY <1>1 DEF TaskFine, InBatch, LinesFine, PayoutIdle
<1>5. PayoutBecomes(t, v) /\ UNCHANGED <<batch, accountVars, file, bank>>
  BY DEF SettleRow
<1>6. ptask[t].row.n \in -1..MaxAttempts /\ 0 \in -1..MaxAttempts
  BY <1>1 DEF PayoutTask, Row
<1>7. CASE UNCHANGED pay
  BY <1>3, <1>4, <1>5, <1>7, OnlyMoveOK
<1>8. CASE pay[s].status = "processing" /\ Set(s, paid)
  <2>1. paid \in Pay /\ PayFine(paid, vetted[s])
    BY <1>2, <1>6, <1>8 DEF Pay, PayoutStatuses, PayFine, Scheduled
  <2> HIDE DEF paid
  <2> QED
    BY <1>1, <1>3, <1>4, <1>5, <1>8, <2>1, PayOK
<1>9. CASE pay[s].status \in Scheduled /\ Set(s, failed)
  <2>1. failed \in Pay /\ PayFine(failed, vetted[s])
    BY <1>2, <1>6, <1>9 DEF Pay, PayoutStatuses, PayFine, Scheduled
  <2> HIDE DEF failed
  <2> QED
    BY <1>1, <1>3, <1>4, <1>5, <1>9, <2>1, PayOK
<1> QED
  BY <1>1, <1>7, <1>8, <1>9 DEF SettleRow

LEMMA CountAwaitingOK == ASSUME Inv, PayoutConstantsOK, NEW t \in PayoutTasks, CountAwaiting(t) PROVE Inv'
<1> DEFINE any == Awaiting(ptask[t].b) # {}
           v == [ptask[t] EXCEPT !.pc = "close", !.any = any]
<1>1. ptask[t] \in PayoutTask /\ TaskFine(ptask[t], vetted) /\ ptask[t].pc = "row" /\ any \in BOOLEAN
  BY TaskTyped DEF CountAwaiting, PayoutAt
<1>2. PayoutBecomes(t, v)
  BY DEF CountAwaiting
<1> HIDE DEF any
<1>3. v \in PayoutTask /\ TaskFine(v, vetted)
  BY <1>1 DEF PayoutTask, PayoutPcs, TaskFine, InBatch
<1> QED
  BY <1>2, <1>3, OnlyMoveOK DEF CountAwaiting

LEMMA WithdrawOK == ASSUME Inv, PayoutConstantsOK, NEW t \in PayoutTasks, Withdraw(t) PROVE Inv'
<1>1. ASSUME NEW s \in Awaiting(ptask[t].b), UNCHANGED ptask,
             Set(s, [pay[s] EXCEPT !.status = "approved", !.batch = NoBatch, !.ref = 0])
      PROVE  Inv'
  <2> DEFINE p == [pay[s] EXCEPT !.status = "approved", !.batch = NoBatch, !.ref = 0]
  <2>1. s \in Settlements /\ pay[s].status = "processing"
    BY DEF Awaiting
  <2>2. p \in Pay /\ PayFine(p, vetted[s])
    BY <2>1, PayTyped DEF Pay, PayoutStatuses, PayFine, Scheduled
  <2> HIDE DEF p
  <2> QED
    BY <1>1, <2>1, <2>2, PayOK DEF Withdraw, p
<1>2. CASE PayoutGoto(t, "cancelled") /\ UNCHANGED pay
  <2> DEFINE v == [ptask[t] EXCEPT !.pc = "cancelled"]
  <2>1. ptask[t] \in PayoutTask /\ TaskFine(ptask[t], vetted) /\ ptask[t].pc = "withdraw"
    BY TaskTyped DEF Withdraw, PayoutAt
  <2>2. v \in PayoutTask /\ TaskFine(v, vetted)
    BY <2>1 DEF PayoutTask, PayoutPcs, TaskFine, InBatch
  <2> QED
    BY <1>2, <2>2, OnlyMoveOK DEF Withdraw, PayoutGoto
<1> QED
  BY <1>1, <1>2 DEF Withdraw

-----------------------------------------------------------------------------
(* The bank.                                                               *)

LEMMA UploadOK == ASSUME Inv, PayoutConstantsOK, NEW b \in Batches, Upload(b) PROVE Inv'
<1>1. \A l \in file[b] : l.to \in Accounts /\ l.to \in vetted[l.s]
  BY DEF Inv, PayoutTypeOK, LinesFine, Line
<1>2. file' \in [Batches -> SUBSET Line] /\ \A c \in Batches : LinesFine(file'[c], vetted)
  BY DEF Upload, Inv, PayoutTypeOK, LinesFine
<1> QED
  BY <1>1, <1>2, SubmitOK DEF Upload

LEMMA TransferByHandOK == ASSUME Inv, PayoutConstantsOK, NEW s \in Settlements, TransferByHand(s) PROVE Inv'
<1> DEFINE ls == {[s |-> s, n |-> pay[s].attempts, to |-> pay[s].ben]}
<1>1. pay[s].ben \in Accounts /\ pay[s].ben \in vetted[s]
  BY PayTyped DEF TransferByHand, Pay, PayFine, Scheduled
<1>2. \A l \in ls : l.to \in Accounts /\ l.to \in vetted[l.s]
  BY <1>1
<1> HIDE DEF ls
<1>3. Submit(ls, NoBatch) /\ UNCHANGED <<pay, batch, accountVars, file, ptask>>
  BY DEF TransferByHand, ls
<1> QED
  BY <1>2, <1>3, SubmitOK DEF Inv, PayoutTypeOK

LEMMA BankMovesOK == ASSUME Inv, PayoutConstantsOK, NEW s \in Settlements, BankMoves(s) PROVE Inv'
<1>1. PICK n \in Attempts, x \in {"credited", "failed", "returned"} :
        /\ bank[s][n].state # "none"
        /\ bank' = [bank EXCEPT ![s] = [@ EXCEPT ![n] = [bank[s][n] EXCEPT !.state = x]]]
  <2>1. PICK n \in Attempts :
          \/ bank[s][n].state = "sent" /\ \E x \in {"credited", "failed"} :
                bank' = [bank EXCEPT ![s] = [@ EXCEPT ![n] = [bank[s][n] EXCEPT !.state = x]]]
          \/ bank[s][n].state = "credited" /\ bank[s][n].via # NoBatch
             /\ bank' = [bank EXCEPT ![s] = [@ EXCEPT ![n] = [bank[s][n] EXCEPT !.state = "returned"]]]
    BY DEF BankMoves
  <2> QED
    BY <2>1
<1>2. bank[s][n] \in Transfer /\ [bank[s][n] EXCEPT !.state = x] \in Transfer
  <2>1. bank[s][n] \in Transfer
    BY DEF Inv, PayoutTypeOK
  <2>2. x \in BankStates
    BY DEF BankStates
  <2> QED
    BY <2>1, <2>2 DEF Transfer
<1>3. bank' \in [Settlements -> [Attempts -> Transfer]]
  BY <1>1, <1>2 DEF Inv, PayoutTypeOK
<1>4. ToVerifiedAccount'
  <2> SUFFICES ASSUME NEW q \in Settlements, NEW m \in Attempts, bank'[q][m].state # "none"
               PROVE  bank'[q][m].to \in vetted'[q]
    BY DEF ToVerifiedAccount
  <2>1. vetted' = vetted
    BY DEF BankMoves, accountVars
  <2>2. bank'[q][m].to = bank[q][m].to /\ bank[q][m].state # "none"
    <3>1. CASE q = s /\ m = n
      BY <1>1, <1>2, <3>1 DEF Inv, PayoutTypeOK, Transfer
    <3>2. CASE ~(q = s /\ m = n)
      BY <1>1, <3>2 DEF Inv, PayoutTypeOK
    <3> QED
      BY <3>1, <3>2
  <2> QED
    BY <2>1, <2>2 DEF Inv, ToVerifiedAccount
<1>5. PayoutTypeOK'
  BY <1>3 DEF BankMoves, Inv, PayoutTypeOK, accountVars
<1>6. /\ Numbered' /\ \A r \in Settlements : PayFine(pay'[r], vetted'[r])
      /\ \A t \in PayoutTasks : TaskFine(ptask'[t], vetted')
      /\ \A b \in Batches : LinesFine(file'[b], vetted')
  BY DEF BankMoves, Inv, Numbered, NewAccount, accountVars
<1> QED
  BY <1>4, <1>5, <1>6 DEF Inv

-----------------------------------------------------------------------------
\* Every step keeps the invariant.
THEOREM PayoutStepInv == ASSUME PayoutConstantsOK PROVE Inv /\ [PayoutNext]_batchVars => Inv'
<1> SUFFICES ASSUME Inv, [PayoutNext]_batchVars PROVE Inv'
  OBVIOUS
<1>1. CASE UNCHANGED batchVars
  BY <1>1 DEF batchVars, accountVars, Inv, PayoutTypeOK, Numbered, NewAccount, ToVerifiedAccount
<1>2. ASSUME NEW s \in Settlements, StartSave(s) \/ SaveAccount(s) \/ VerifyAccount(s) \/ DecideChange(s)
      PROVE  Inv'
  BY <1>2, StartSaveOK, SaveAccountOK, VerifyAccountOK, DecideChangeOK
<1>3. ASSUME NEW s \in Settlements,
             \/ RecordPaid(s) \/ RecordFailed(s) \/ MarkPaidManually(s)
             \/ HoldPayout(s) \/ UnholdPayout(s) \/ CarryForward(s)
      PROVE  Inv'
  BY <1>3, ByHandOK
<1>4. ASSUME NEW s \in Settlements, TransferByHand(s) \/ BankMoves(s) PROVE Inv'
  BY <1>4, TransferByHandOK, BankMovesOK
<1>5. ASSUME NEW b \in Batches, Upload(b) PROVE Inv'
  BY <1>5, UploadOK
<1>6. ASSUME NEW t \in PayoutTasks, PayoutHandler(t) PROVE Inv'
  BY <1>6, ScheduleOK, ReleaseOK, ReadAccountOK, ClaimMemberOK, ClosedOK, ReadLinesOK, SaveDownloadOK,
     FindRowOK, SettleRowOK, CountAwaitingOK, WithdrawOK DEF PayoutHandler
<1>7. ASSUME NEW t \in PayoutTasks, CreateBatch(t) PROVE Inv'
  BY <1>7, CreateBatchOK
<1>8. ASSUME NEW t \in PayoutTasks, NEW s \in Settlements, StartScheduling(t, s) \/ StartRelease(t, s) PROVE Inv'
  BY <1>8, StartSchedulingOK, StartReleaseOK
<1>9. ASSUME NEW t \in PayoutTasks, NEW b \in Batches,
             StartDownload(t, b) \/ StartReconcile(t, b) \/ StartCancel(t, b)
      PROVE  Inv'
  BY <1>9, OnBatchOK
<1> QED
  BY <1>1, <1>2, <1>3, <1>4, <1>5, <1>6, <1>7, <1>8, <1>9 DEF PayoutNext

\* The variables keep their types, however many administrators, owners and banks act.
THEOREM PayoutTypeCorrect == PayoutSpec => []PayoutTypeOK
<1>. USE PayoutAssumption
<1>1. Inv => PayoutTypeOK
  BY DEF Inv
<1> QED
  BY PayoutInitInv, PayoutStepInv, <1>1, PTL DEF PayoutSpec

\* Money only ever goes to an account somebody verified: nothing an owner saves or asks for, and no
\* decision an administrator takes, between scheduling, batching, download and upload diverts it.
THEOREM PaysVettedAccounts == PayoutSpec => []ToVerifiedAccount
<1>. USE PayoutAssumption
<1>1. Inv => ToVerifiedAccount
  BY DEF Inv
<1> QED
  BY PayoutInitInv, PayoutStepInv, <1>1, PTL DEF PayoutSpec

-----------------------------------------------------------------------------
(* One handler at a time: what is paid, once.                              *)

Alone == \A t, u \in PayoutTasks : t = u

Stopped == {"none", "failed", "returned"}
Undone == {"failed", "returned"}

\* No transfer is under way or done but possibly the last one, p.attempts.
LastOnly(p, x) ==
    \A n \in Attempts : /\ n > p.attempts => x[n].state = "none"
                        /\ n < p.attempts => x[n].state \in Stopped

\* Where the money of a settlement may be whose payout is p and whose transfers are x.
PayKept(p, x) ==
    /\ LastOnly(p, x)
    /\ p.status \in {"draft", "on_hold", "approved"} =>
          /\ p.batch = NoBatch /\ p.ref = 0 /\ p.utr = 0
          /\ p.attempts \in Attempts => x[p.attempts].state \in Stopped
    /\ p.status = "processing" => /\ p.attempts \in Attempts /\ p.utr = 0
                                  /\ p.provider = "bank_file" => p.ref = p.attempts
                                  /\ p.batch # NoBatch => /\ p.provider = "bank_file"
                                                       /\ \/ x[p.attempts].state = "none"
                                                          \/ x[p.attempts].via = p.batch
    /\ p.status = "paid" /\ p.provider = "bank_file" => p.ref = p.attempts
    /\ p.status = "paid" =>
          IF p.utr = ByHand
          THEN p.attempts \in Attempts => x[p.attempts].state \in Stopped
          ELSE p.attempts \in Attempts /\ x[p.attempts].state \in {"credited", "returned"}
    /\ p.status \in {"failed", "carried_forward"} =>
          p.utr = 0 /\ p.attempts \in Attempts /\ x[p.attempts].state \in Undone

\* A line of a file of b not yet with the bank is of a payout that awaits it.
LineKept(l, b) ==
    bank[l.s][l.n].state = "none" =>
        pay[l.s].status = "processing" /\ pay[l.s].attempts = l.n /\ pay[l.s].batch = b

Withdrawing(b) == \E t \in PayoutTasks : ptask[t].b = b /\ ptask[t].pc \in {"withdraw", "cancelled"}

FilesKept ==
    \A b \in Batches : batch[b] # "cancelled" /\ ~Withdrawing(b) => \A l \in file[b] : LineKept(l, b)

\* What the handler with the registers v knows, as long as it is the only one.
Knows(v) ==
    /\ v.pc \in {"each", "claim"} =>
          batch[v.b] = "created" /\ \A s \in v.todo : v.att[s] = pay[s].attempts + 1
    /\ v.pc = "download" => \A l \in v.lines : LineKept(l, v.b)
    /\ v.pc = "settle" =>
          /\ v.row.n \in Attempts /\ pay[v.s].attempts = v.row.n
          /\ bank[v.s][v.row.n].state \in IF v.row.res = "paid" THEN {"credited", "returned"}
                                          ELSE Undone
    /\ v.pc \in {"row", "settle", "close"} => batch[v.b] # "cancelled"
    /\ v.pc = "close" /\ ~v.any => Awaiting(v.b) = {}
    /\ v.pc = "withdraw" => \A s \in Settlements, n \in Attempts : bank[s][n].via # v.b

Kept ==
    /\ Inv
    /\ \A s \in Settlements : PayKept(pay[s], bank[s])
    /\ FilesKept
    /\ \A t \in PayoutTasks : Knows(ptask[t])
    /\ ReconciledIsSettled

-----------------------------------------------------------------------------
(* Steps by what they write.                                               *)

\* What the one handler knows after its own step, and which batch it is withdrawing.
LEMMA AloneOK ==
    ASSUME Inv, Alone, NEW t \in PayoutTasks, NEW v, PayoutBecomes(t, v)
    PROVE  /\ ptask'[t] = v /\ \A u \in PayoutTasks : u = t
           /\ \A b : Withdrawing(b)' <=> v.b = b /\ v.pc \in {"withdraw", "cancelled"}
           /\ \A b : Withdrawing(b) <=> ptask[t].b = b /\ ptask[t].pc \in {"withdraw", "cancelled"}
BY DEF Inv, PayoutTypeOK, PayoutBecomes, Alone, Withdrawing

\* A payout changed to p: the attempt stays, nothing new is put into processing, and what is
\* taken out of it has reached the bank.
Slight(s, p) ==
    /\ p.attempts = pay[s].attempts
    /\ p.status = "processing" => pay[s].status = "processing" /\ p.batch = pay[s].batch
    /\ pay[s].status = "processing" /\ p.status # "processing"
          => bank[s][pay[s].attempts].state # "none"

\* A slight change of a payout leaves the lines and what the handler knows alone.
LEMMA SlightOK ==
    ASSUME Kept, Inv', NEW s \in Settlements, NEW p, Set(s, p), Slight(s, p), UNCHANGED <<batch, file, bank>>
    PROVE  /\ \A l, b : l.s \in Settlements /\ LineKept(l, b) => LineKept(l, b)'
           /\ \A b : Awaiting(b)' \subseteq Awaiting(b)
           /\ \A q \in Settlements : pay'[q].attempts = pay[q].attempts
           /\ PayKept(p, bank[s]) => \A q \in Settlements : PayKept(pay'[q], bank'[q])
           /\ ReconciledIsSettled'
<1>1. /\ pay'[s] = p /\ \A q \in Settlements : q # s => pay'[q] = pay[q]
  BY DEF Kept, Inv, PayoutTypeOK, Set
<1>2. \A b : Awaiting(b)' \subseteq Awaiting(b)
  BY <1>1 DEF Awaiting, Slight
<1>3. \A q \in Settlements : pay'[q].attempts = pay[q].attempts
  BY <1>1 DEF Slight
<1>4. ASSUME NEW l, NEW b, l.s \in Settlements, LineKept(l, b)
      PROVE  LineKept(l, b)'
  <2>1. CASE l.s = s
    BY <1>1, <1>4, <2>1 DEF LineKept, Slight
  <2>2. CASE l.s # s
    BY <1>1, <1>4, <2>2 DEF LineKept
  <2> QED
    BY <2>1, <2>2
<1>5. PayKept(p, bank[s]) => \A q \in Settlements : PayKept(pay'[q], bank'[q])
  BY <1>1 DEF Kept
<1>6. ReconciledIsSettled'
  BY <1>2 DEF Kept, ReconciledIsSettled
<1> QED
  BY <1>2, <1>3, <1>4, <1>5, <1>6

\* Lines are of settlements, wherever they are kept.
LEMMA LinesTyped ==
    ASSUME Inv, PayoutConstantsOK
    PROVE  /\ \A b \in Batches : \A l \in file[b] : l.s \in Settlements /\ l.n \in Attempts
           /\ \A t \in PayoutTasks : \A l \in ptask[t].lines : l.s \in Settlements /\ l.n \in Attempts
BY TaskTyped DEF Inv, PayoutTypeOK, Line

\* A payout is changed slightly, by no handler ...
LEMMA SlightStep ==
    ASSUME Kept, Inv', PayoutConstantsOK, NEW s \in Settlements, NEW p, Set(s, p), Slight(s, p), PayKept(p, bank[s]),
           UNCHANGED <<batch, file, bank, ptask>>
    PROVE  Kept'
<1>1. FilesKept'
  <2> SUFFICES ASSUME NEW b \in Batches, batch'[b] # "cancelled", ~Withdrawing(b)',
                      NEW l \in file'[b]
               PROVE  LineKept(l, b)'
    BY DEF FilesKept
  <2>1. LineKept(l, b) /\ l.s \in Settlements
    BY LinesTyped DEF Kept, FilesKept, Withdrawing
  <2> QED
    BY <2>1, SlightOK
<1>2. ASSUME NEW t \in PayoutTasks PROVE Knows(ptask[t])'
  <2>1. ptask[t].pc \in {"each", "claim"} => ptask[t].todo \in SUBSET Settlements
    BY TaskTyped DEF Kept
  <2>2. ptask[t].s \in Settlements
    BY TaskTyped DEF Kept
  <2>3. (\A l \in ptask[t].lines : LineKept(l, ptask[t].b)) => \A l \in ptask[t].lines : LineKept(l, ptask[t].b)'
    BY LinesTyped, SlightOK DEF Kept
  <2>4. Awaiting(ptask[t].b)' \subseteq Awaiting(ptask[t].b)
    BY SlightOK
  <2>5. \A q \in Settlements : pay'[q].attempts = pay[q].attempts
    BY SlightOK
  <2>6. Knows(ptask[t])
    BY DEF Kept
  <2> QED
    BY <2>1, <2>2, <2>3, <2>4, <2>5, <2>6 DEF Knows
<1> QED
  BY <1>1, <1>2, SlightOK DEF Kept

\* ... or by the handler, that is not withdrawing.
LEMMA SlightHandled ==
    ASSUME Kept, Inv', PayoutConstantsOK, Alone, NEW s \in Settlements, NEW p, Set(s, p), Slight(s, p), PayKept(p, bank[s]),
           UNCHANGED <<batch, file, bank>>, NEW t \in PayoutTasks, NEW v, PayoutBecomes(t, v), Knows(v)',
           ptask[t].pc \notin {"withdraw", "cancelled"}
    PROVE  Kept'
<1>1. FilesKept'
  <2> SUFFICES ASSUME NEW b \in Batches, batch'[b] # "cancelled", ~Withdrawing(b)',
                      NEW l \in file'[b]
               PROVE  LineKept(l, b)'
    BY DEF FilesKept
  <2>1. ~Withdrawing(b)
    BY AloneOK DEF Kept
  <2>2. LineKept(l, b) /\ l.s \in Settlements
    BY <2>1, LinesTyped DEF Kept, FilesKept
  <2> QED
    BY <2>2, SlightOK
<1>2. \A u \in PayoutTasks : Knows(ptask[u])'
  BY AloneOK DEF Kept
<1> QED
  BY <1>1, <1>2, SlightOK DEF Kept

\* The handler moves on, no payout changes, and neither do the files.
LEMMA Moved ==
    ASSUME Kept, Inv', Alone, UNCHANGED <<pay, file, bank>>, NEW t \in PayoutTasks, NEW v, PayoutBecomes(t, v), Knows(v)',
           \/ UNCHANGED batch /\ ptask[t].pc \notin {"withdraw", "cancelled"}
           \/ FilesKept' /\ ReconciledIsSettled'
    PROVE  Kept'
<1>1. \A b : Awaiting(b)' = Awaiting(b)
  BY DEF Awaiting
<1>2. \A l, b : LineKept(l, b)' <=> LineKept(l, b)
  BY DEF LineKept
<1>3. FilesKept' /\ ReconciledIsSettled'
  <2>1. CASE UNCHANGED batch /\ ptask[t].pc \notin {"withdraw", "cancelled"}
    <3>1. \A b : Withdrawing(b) => FALSE
      BY <2>1, AloneOK DEF Kept
    <3> QED
      BY <1>1, <1>2, <2>1, <3>1 DEF Kept, FilesKept, ReconciledIsSettled
  <2> QED
    BY <2>1
<1>4. \A u \in PayoutTasks : Knows(ptask[u])'
  BY AloneOK DEF Kept
<1>5. \A s \in Settlements : PayKept(pay'[s], bank'[s])
  BY DEF Kept
<1> QED
  BY <1>3, <1>4, <1>5 DEF Kept

\* The bank moves: what it refused or took back stays so, what it paid may come back.
LEMMA BankStep ==
    ASSUME Kept, Inv', PayoutConstantsOK, UNCHANGED <<pay, batch, ptask>>,
           \A b \in Batches : file'[b] \subseteq file[b],
           \A s \in Settlements : PayKept(pay[s], bank'[s]),
           \A s \in Settlements, n \in Attempts :
               /\ bank'[s][n].state = "none" => bank[s][n].state = "none"
               /\ bank[s][n].state \in Undone => bank'[s][n].state = bank[s][n].state
               /\ bank[s][n].state \in {"credited", "returned"}
                     => bank'[s][n].state \in {"credited", "returned"}
               /\ bank'[s][n].via = bank[s][n].via \/ ~Withdrawing(bank'[s][n].via)
    PROVE  Kept'
<1>1. \A l, b : l.s \in Settlements /\ l.n \in Attempts /\ LineKept(l, b) => LineKept(l, b)'
  BY DEF LineKept
<1>2. FilesKept'
  <2>1. \A b : Withdrawing(b)' <=> Withdrawing(b)
    BY DEF Withdrawing
  <2>2. \A b \in Batches : \A l \in file'[b] : l \in file[b] /\ l.s \in Settlements /\ l.n \in Attempts
    BY LinesTyped DEF Kept
  <2> QED
    BY <1>1, <2>1, <2>2 DEF Kept, FilesKept
<1>3. ASSUME NEW t \in PayoutTasks PROVE Knows(ptask[t])'
  <2>1. Knows(ptask[t]) /\ ptask[t].s \in Settlements
    BY TaskTyped DEF Kept
  <2>2. \A l \in ptask[t].lines : LineKept(l, ptask[t].b) => LineKept(l, ptask[t].b)'
    BY <1>1, LinesTyped DEF Kept
  <2>3. Awaiting(ptask[t].b)' = Awaiting(ptask[t].b)
    BY DEF Awaiting
  <2>4. ptask[t].pc = "withdraw" => Withdrawing(ptask[t].b)
    BY DEF Withdrawing
  <2> QED
    BY <2>1, <2>2, <2>3, <2>4 DEF Knows
<1>4. ReconciledIsSettled'
  BY DEF Kept, ReconciledIsSettled, Awaiting
<1> QED
  BY <1>2, <1>3, <1>4 DEF Kept

\* Transfers handed to the bank for payouts that await them.
LEMMA SubmitStep ==
    ASSUME Kept, Inv', PayoutConstantsOK, UNCHANGED <<pay, batch, ptask>>, NEW ls, NEW b, Submit(ls, b),
           \A c \in Batches : file'[c] \subseteq file[c],
           \A l \in ls : l.s \in Settlements /\ bank[l.s][l.n].state = "none"
                         => /\ pay[l.s].status = "processing" /\ pay[l.s].attempts = l.n
                            /\ pay[l.s].batch = b,
           ~Withdrawing(b)
    PROVE  Kept'
<1>1. ASSUME NEW s \in Settlements, NEW n \in Attempts
      PROVE  \/ bank'[s][n] = bank[s][n]
             \/ /\ bank'[s][n].state = "sent" /\ bank[s][n].state = "none" /\ bank'[s][n].via = b
                /\ pay[s].status = "processing" /\ pay[s].attempts = n /\ pay[s].batch = b
  <2>1. CASE \E l \in ls : l.s = s /\ l.n = n /\ bank[s][n].state = "none"
    BY <2>1 DEF Submit
  <2>2. CASE ~\E l \in ls : l.s = s /\ l.n = n /\ bank[s][n].state = "none"
    BY <2>2 DEF Submit
  <2> QED
    BY <2>1, <2>2
<1>2. ASSUME NEW s \in Settlements PROVE PayKept(pay[s], bank'[s])
  <2>1. PayKept(pay[s], bank[s]) /\ pay[s].attempts \in Nat
    BY PayTyped DEF Kept, Pay
  <2>2. LastOnly(pay[s], bank'[s])
    BY <1>1, <2>1 DEF PayKept, LastOnly, Attempts
  <2>3. pay[s].status # "processing" => \A n \in Attempts : bank'[s][n] = bank[s][n]
    BY <1>1
  <2>4. CASE pay[s].status = "processing"
    <3>1. pay[s].attempts \in Attempts
      BY <2>1, <2>4 DEF PayKept
    <3>2. \/ bank'[s][pay[s].attempts] = bank[s][pay[s].attempts]
          \/ bank'[s][pay[s].attempts].via = pay[s].batch
      BY <1>1, <3>1
    <3> QED
      BY <2>1, <2>2, <2>4, <3>1, <3>2 DEF PayKept
  <2> QED
    BY <2>1, <2>2, <2>3, <2>4 DEF PayKept
<1>3. \A s \in Settlements, n \in Attempts :
               /\ bank'[s][n].state = "none" => bank[s][n].state = "none"
               /\ bank[s][n].state \in Undone => bank'[s][n].state = bank[s][n].state
               /\ bank[s][n].state \in {"credited", "returned"}
                     => bank'[s][n].state \in {"credited", "returned"}
               /\ bank'[s][n].via = bank[s][n].via \/ ~Withdrawing(bank'[s][n].via)
  BY <1>1 DEF Undone
<1> QED
  BY <1>2, <1>3, BankStep

LEMMA UploadKept ==
    ASSUME Kept, Inv', PayoutConstantsOK, NEW b \in Batches, Upload(b) PROVE Kept'
<1>1. batch[b] # "cancelled" /\ ~Withdrawing(b)
  BY DEF Upload, Withdrawing
<1>2. \A l \in file[b] : LineKept(l, b)
  BY <1>1 DEF Kept, FilesKept
<1>3. \A c \in Batches : file'[c] \subseteq file[c]
  BY DEF Upload, Kept, Inv, PayoutTypeOK
<1>4. \A l \in file[b] : l.s \in Settlements
  BY LinesTyped DEF Kept
<1>5. Submit(file[b], b) /\ UNCHANGED <<pay, batch, ptask>>
  BY DEF Upload
<1> QED
  BY <1>1, <1>2, <1>3, <1>4, <1>5, SubmitStep DEF LineKept

LEMMA TransferKept ==
    ASSUME Kept, Inv', PayoutConstantsOK, NEW s \in Settlements, TransferByHand(s) PROVE Kept'
<1> PICK ls : ls = {[s |-> s, n |-> pay[s].attempts, to |-> pay[s].ben]}
  OBVIOUS
<1>1. \A l \in ls : l.s = s /\ l.n = pay[s].attempts
  OBVIOUS
<1>2. Submit(ls, NoBatch) /\ UNCHANGED <<pay, batch, file, ptask>> /\ pay[s].status = "processing"
  BY DEF TransferByHand
<1>3. pay[s].batch = NoBatch
  BY DEF TransferByHand, Kept, PayKept
<1>4. ~Withdrawing(NoBatch)
  <2>1. \A t \in PayoutTasks : TaskFine(ptask[t], vetted)
    BY DEF Kept, Inv
  <2> QED
    BY <2>1 DEF Withdrawing, TaskFine, InBatch
<1> QED
  BY <1>1, <1>2, <1>3, <1>4, SubmitStep

LEMMA BankMovesKept ==
    ASSUME Kept, Inv', PayoutConstantsOK, NEW s \in Settlements, BankMoves(s) PROVE Kept'
<1>1. PICK n \in Attempts :
        \/ bank[s][n].state = "sent" /\ \E x \in {"credited", "failed"} :
              bank' = [bank EXCEPT ![s] = [@ EXCEPT ![n] = [bank[s][n] EXCEPT !.state = x]]]
        \/ bank[s][n].state = "credited" /\ bank[s][n].via # NoBatch
           /\ bank' = [bank EXCEPT ![s] = [@ EXCEPT ![n] = [bank[s][n] EXCEPT !.state = "returned"]]]
  BY DEF BankMoves
<1>2. bank[s][n] \in Transfer /\ bank \in [Settlements -> [Attempts -> Transfer]]
  BY DEF Kept, Inv, PayoutTypeOK
<1>3. \/ bank[s][n].state = "sent" /\ bank'[s][n].state \in {"credited", "failed"}
      \/ bank[s][n].state = "credited" /\ bank'[s][n].state = "returned"
  BY <1>1, <1>2 DEF Transfer
<1>10. bank'[s][n].via = bank[s][n].via
  BY <1>1, <1>2 DEF Transfer
<1>4. \A q \in Settlements, m \in Attempts : ~(q = s /\ m = n) => bank'[q][m] = bank[q][m]
  BY <1>1, <1>2
<1>5. PayKept(pay[s], bank[s]) /\ pay[s] \in Pay /\ pay[s].attempts \in Nat
  BY PayTyped DEF Kept, Pay
<1>6. n = pay[s].attempts /\ n \in Nat
  BY <1>3, <1>5 DEF PayKept, LastOnly, Stopped, Attempts
<1>7. PayKept(pay[s], bank'[s])
  <2>1. LastOnly(pay[s], bank'[s])
    BY <1>4, <1>5, <1>6 DEF PayKept, LastOnly, Attempts
  <2> QED
    BY <1>3, <1>5, <1>6, <1>10, <2>1 DEF PayKept, Stopped, Undone
<1>8. ASSUME NEW q \in Settlements, q # s PROVE PayKept(pay[q], bank'[q])
  BY <1>1, <1>2, <1>8 DEF Kept
<1>9. UNCHANGED <<pay, batch, file, ptask>>
  BY DEF BankMoves
<1> QED
  BY <1>3, <1>4, <1>7, <1>8, <1>9, <1>10, BankStep DEF Undone

\* Payouts recorded, held or carried forward by an administrator.
LEMMA ByHandKept ==
    ASSUME Kept, Inv', PayoutConstantsOK, NEW s \in Settlements, "failed" \notin Holds,
           RecordPaid(s) \/ RecordFailed(s) \/ MarkPaidManually(s) \/ HoldPayout(s) \/ UnholdPayout(s) \/ CarryForward(s)
    PROVE  Kept'
<1>1. /\ pay[s] \in Pay /\ PayKept(pay[s], bank[s]) /\ pay[s].attempts \in 0..MaxAttempts
      /\ UNCHANGED <<batch, file, bank, ptask>>
  BY PayTyped DEF Kept, Pay, RecordPaid, RecordFailed, MarkPaidManually, HoldPayout, UnholdPayout, CarryForward
<1>2. pay[s].attempts # 0 <=> pay[s].attempts \in Attempts
  BY <1>1 DEF Attempts
<1>3. CASE RecordPaid(s)
  <2>1. PICK p : p = [pay[s] EXCEPT !.status = "paid", !.utr = pay[s].attempts]
    OBVIOUS
  <2>2. /\ p.status = "paid" /\ p.utr = pay[s].attempts /\ p.attempts = pay[s].attempts /\ p.batch = pay[s].batch
        /\ p.ref = pay[s].ref /\ p.provider = pay[s].provider
    BY <1>1, <2>1 DEF Pay
  <2>3. bank[s][pay[s].attempts].state = "credited" /\ pay[s].status = "processing" /\ Set(s, p)
    BY <1>2, <1>3, <2>1 DEF RecordPaid, Current
  <2>4. PayKept(p, bank[s]) /\ Slight(s, p)
    BY <1>1, <2>2, <2>3 DEF PayKept, LastOnly, Slight, ByHand
  <2> QED
    BY <1>1, <2>3, <2>4, SlightStep
<1>4. CASE RecordFailed(s)
  <2>1. PICK p : p = [pay[s] EXCEPT !.status = "failed", !.utr = 0]
    OBVIOUS
  <2>2. /\ p.status = "failed" /\ p.utr = 0 /\ p.attempts = pay[s].attempts /\ p.batch = pay[s].batch
        /\ p.ref = pay[s].ref /\ p.provider = pay[s].provider
    BY <1>1, <2>1 DEF Pay
  <2>3. bank[s][pay[s].attempts].state \in Undone /\ pay[s].status = "processing" /\ Set(s, p)
    BY <1>2, <1>4, <2>1 DEF RecordFailed, Current, Undone
  <2>4. PayKept(p, bank[s]) /\ Slight(s, p)
    BY <1>1, <2>2, <2>3 DEF PayKept, LastOnly, Slight, Undone
  <2> QED
    BY <1>1, <2>3, <2>4, SlightStep
<1>5. CASE MarkPaidManually(s)
  <2>1. PICK p : p = [pay[s] EXCEPT !.status = "paid", !.provider = "manual",
                          !.utr = IF pay[s].status = "processing" THEN pay[s].attempts ELSE ByHand]
    OBVIOUS
  <2>2. /\ p.status = "paid" /\ p.attempts = pay[s].attempts /\ p.provider = "manual"
        /\ p.utr = IF pay[s].status = "processing" THEN pay[s].attempts ELSE ByHand
    BY <1>1, <2>1 DEF Pay
  <2>3. /\ Set(s, p)
        /\ \/ pay[s].status \in {"approved", "failed"}
           \/ pay[s].status = "processing" /\ bank[s][pay[s].attempts].state = "credited"
    BY <1>2, <1>5, <2>1 DEF MarkPaidManually, Current
  <2>4. PayKept(p, bank[s]) /\ Slight(s, p)
    BY <1>1, <2>2, <2>3 DEF PayKept, LastOnly, Slight, ByHand, Stopped, Undone
  <2> QED
    BY <1>1, <2>3, <2>4, SlightStep
<1>6. CASE HoldPayout(s)
  <2>1. PICK p : p = [pay[s] EXCEPT !.status = "on_hold"]
    OBVIOUS
  <2>2. /\ p.status = "on_hold" /\ p.utr = pay[s].utr /\ p.attempts = pay[s].attempts
        /\ p.batch = pay[s].batch /\ p.ref = pay[s].ref
    BY <1>1, <2>1 DEF Pay
  <2>3. Set(s, p) /\ pay[s].status \in {"draft", "approved"}
    BY <1>6, <2>1 DEF HoldPayout
  <2>4. PayKept(p, bank[s]) /\ Slight(s, p)
    BY <1>1, <2>2, <2>3 DEF PayKept, LastOnly, Slight
  <2> QED
    BY <1>1, <2>3, <2>4, SlightStep
<1>7. CASE UnholdPayout(s)
  <2>1. PICK p : p = [pay[s] EXCEPT !.status = "draft"]
    OBVIOUS
  <2>2. /\ p.status = "draft" /\ p.utr = pay[s].utr /\ p.attempts = pay[s].attempts
        /\ p.batch = pay[s].batch /\ p.ref = pay[s].ref
    BY <1>1, <2>1 DEF Pay
  <2>3. Set(s, p) /\ pay[s].status = "on_hold"
    BY <1>7, <2>1 DEF UnholdPayout
  <2>4. PayKept(p, bank[s]) /\ Slight(s, p)
    BY <1>1, <2>2, <2>3 DEF PayKept, LastOnly, Slight
  <2> QED
    BY <1>1, <2>3, <2>4, SlightStep
<1>8. CASE CarryForward(s)
  <2>1. PICK p : p = [pay[s] EXCEPT !.status = "carried_forward"]
    OBVIOUS
  <2>2. p.status = "carried_forward" /\ p.utr = pay[s].utr /\ p.attempts = pay[s].attempts
    BY <1>1, <2>1 DEF Pay
  <2>3. Set(s, p) /\ pay[s].status = "failed"
    BY <1>8, <2>1 DEF CarryForward
  <2>4. PayKept(p, bank[s]) /\ Slight(s, p)
    BY <1>1, <2>2, <2>3 DEF PayKept, LastOnly, Slight
  <2> QED
    BY <1>1, <2>3, <2>4, SlightStep
<1> QED
  BY <1>3, <1>4, <1>5, <1>6, <1>7, <1>8

-----------------------------------------------------------------------------
(* The handler's steps.                                                    *)

LEMMA IdleKnows == PayoutIdle.pc = "idle" /\ Knows(PayoutIdle)'
BY DEF PayoutIdle, Knows

\* What the handler knows of what it has not changed.
LEMMA Known ==
    ASSUME Kept, NEW t \in PayoutTasks
    PROVE  Knows(ptask[t]) /\ ptask[t] \in PayoutTask /\ TaskFine(ptask[t], vetted) /\ \A s \in Settlements : PayKept(pay[s], bank[s])
BY DEF Kept, Inv, PayoutTypeOK

\* A handler starts on something that was read with the step.
LEMMA StartMoved ==
    ASSUME Kept, Inv', Alone, NEW t \in PayoutTasks, PayoutAt(t, "idle"), NEW v, PayoutBecomes(t, v),
           UNCHANGED <<pay, batch, accountVars, file, bank>>,
           v.pc \in {"schedule", "change", "reschedule", "retry", "release", "lines", "row", "withdraw"},
           v.pc = "row" => batch[v.b] # "cancelled",
           v.pc = "withdraw" => \A s \in Settlements, n \in Attempts : bank[s][n].via # v.b
    PROVE  Kept'
<1>1. UNCHANGED <<pay, batch, file, bank>> /\ ptask[t].pc = "idle"
  BY DEF PayoutAt
<1>2. Knows(v)'
  BY <1>1 DEF Knows
<1> QED
  BY <1>1, <1>2, Moved

LEMMA StartsKept ==
    ASSUME Kept, Inv', PayoutConstantsOK, Alone, NEW t \in PayoutTasks,
           \/ \E s \in Settlements : StartScheduling(t, s) \/ StartRelease(t, s)
           \/ \E b \in Batches : StartDownload(t, b) \/ StartReconcile(t, b) \/ StartCancel(t, b)
    PROVE  Kept'
<1>1. ASSUME NEW s \in Settlements, StartScheduling(t, s) PROVE Kept'
  <2>1. PICK pc \in {"schedule", "change", "reschedule", "retry"} :
            PayoutBecomes(t, [PayoutIdle EXCEPT !.pc = pc, !.s = s, !.acc = VerifiedAccount(s)]) /\ PayoutAt(t, "idle")
    BY <1>1 DEF StartScheduling
  <2>2. PICK v : v = [PayoutIdle EXCEPT !.pc = pc, !.s = s, !.acc = VerifiedAccount(s)]
    OBVIOUS
  <2>3. v.pc = pc
    BY <2>2 DEF PayoutIdle
  <2> QED
    BY <1>1, <2>1, <2>2, <2>3, StartMoved DEF StartScheduling
<1>2. ASSUME NEW s \in Settlements, StartRelease(t, s) PROVE Kept'
  <2>1. PICK v : v = [PayoutIdle EXCEPT !.pc = "release", !.s = s, !.acc = pay[s].ben]
    OBVIOUS
  <2>2. v.pc = "release"
    BY <2>1 DEF PayoutIdle
  <2> QED
    BY <1>2, <2>1, <2>2, StartMoved DEF StartRelease
<1>3. ASSUME NEW b \in Batches, StartDownload(t, b) PROVE Kept'
  <2>1. PICK v : v = [PayoutIdle EXCEPT !.pc = "lines", !.b = b, !.saw = batch[b]]
    OBVIOUS
  <2>2. v.pc = "lines"
    BY <2>1 DEF PayoutIdle
  <2> QED
    BY <1>3, <2>1, <2>2, StartMoved DEF StartDownload
<1>4. ASSUME NEW b \in Batches, StartReconcile(t, b) PROVE Kept'
  <2>1. PICK v : v = [PayoutIdle EXCEPT !.pc = "row", !.b = b]
    OBVIOUS
  <2>2. v.pc = "row" /\ v.b = b
    BY <2>1 DEF PayoutIdle
  <2> QED
    BY <1>4, <2>1, <2>2, StartMoved DEF StartReconcile
<1>5. ASSUME NEW b \in Batches, StartCancel(t, b) PROVE Kept'
  <2>1. PICK v : v = [PayoutIdle EXCEPT !.pc = "withdraw", !.b = b]
    OBVIOUS
  <2>2. v.pc = "withdraw" /\ v.b = b
    BY <2>1 DEF PayoutIdle
  <2> QED
    BY <1>5, <2>1, <2>2, StartMoved DEF StartCancel, Uploaded
<1> QED
  BY <1>1, <1>2, <1>3, <1>4, <1>5

LEMMA ScheduleKept == ASSUME Kept, Inv', PayoutConstantsOK, Alone, NEW t \in PayoutTasks, SchedulePayout(t) PROVE Kept'
<1>1. PICK s \in Settlements : s = ptask[t].s
  BY TaskTyped DEF Kept
<1>2. /\ pay[s] \in Pay /\ PayKept(pay[s], bank[s])
      /\ ptask[t].pc \in {"schedule", "change", "reschedule", "retry"}
      /\ PayoutBecomes(t, PayoutIdle) /\ UNCHANGED <<batch, file, bank>>
  BY <1>1, PayTyped, Known DEF Kept, SchedulePayout, PayoutFinish
<1>3. CASE UNCHANGED pay
  BY <1>2, <1>3, IdleKnows, Moved
<1>4. CASE pay[s].status = From(ptask[t].pc) /\ Set(s, Rescheduled(s, ptask[t].pc, ptask[t].acc))
  <2>1. PICK p : p = Rescheduled(s, ptask[t].pc, ptask[t].acc)
    OBVIOUS
  <2>2. p.status = "approved" /\ p.attempts = pay[s].attempts
    BY <1>2, <2>1 DEF Rescheduled, Cleared, Pay
  <2>3. p.batch = NoBatch /\ p.ref = 0 /\ p.utr = 0
    <3>1. CASE ptask[t].pc \in {"schedule", "change"}
      <4>1. p = [pay[s] EXCEPT !.status = "approved", !.ben = ptask[t].acc]
        BY <2>1, <3>1 DEF Rescheduled
      <4>2. pay[s].status \in {"draft", "approved"}
        BY <1>4, <3>1 DEF From
      <4> QED
        BY <1>2, <4>1, <4>2 DEF Pay, PayKept
    <3>2. CASE ptask[t].pc \in {"reschedule", "retry"}
      BY <1>2, <2>1, <3>2 DEF Rescheduled, Cleared, Pay
    <3> QED
      BY <1>2, <3>1, <3>2
  <2>4. pay[s].status \in {"draft", "approved", "failed"}
    BY <1>4 DEF From
  <2>5. PayKept(p, bank[s]) /\ Slight(s, p)
    BY <1>2, <2>2, <2>3, <2>4 DEF PayKept, LastOnly, Slight, Stopped, Undone
  <2> QED
    BY <1>2, <1>4, <2>1, <2>5, IdleKnows, SlightHandled
<1> QED
  BY <1>1, <1>3, <1>4 DEF SchedulePayout

\* A payout leaves the bank's hands for another attempt: no line printed before is of it.
LEMMA Anew ==
    ASSUME Kept, Inv', PayoutConstantsOK, Alone, NEW s \in Settlements, NEW p, Set(s, p),
           pay[s].status = "approved", PayKept(p, bank[s]),
           p.status = "processing" /\ p.batch # NoBatch => batch[p.batch] # "reconciled",
           UNCHANGED <<batch, file, bank>>, NEW t \in PayoutTasks, NEW v, PayoutBecomes(t, v), Knows(v)',
           ptask[t].pc \notin {"withdraw", "cancelled"}
    PROVE  Kept'
<1>1. pay'[s] = p /\ \A q \in Settlements : q # s => pay'[q] = pay[q]
  BY DEF Kept, Inv, PayoutTypeOK, Set
<1>2. \A l, b : l.s \in Settlements /\ LineKept(l, b) => LineKept(l, b)'
  <2> SUFFICES ASSUME NEW l, NEW b, l.s \in Settlements, LineKept(l, b) PROVE LineKept(l, b)'
    OBVIOUS
  <2>1. CASE l.s = s
    BY <2>1 DEF LineKept
  <2>2. CASE l.s # s
    BY <1>1, <2>2 DEF LineKept
  <2> QED
    BY <2>1, <2>2
<1>3. FilesKept'
  <2> SUFFICES ASSUME NEW b \in Batches, batch'[b] # "cancelled", ~Withdrawing(b)', NEW l \in file'[b]
               PROVE  LineKept(l, b)'
    BY DEF FilesKept
  <2>1. ~Withdrawing(b)
    BY AloneOK DEF Kept
  <2>2. LineKept(l, b) /\ l.s \in Settlements
    BY <2>1, LinesTyped DEF Kept, FilesKept
  <2> QED
    BY <2>2, <1>2
<1>4. ReconciledIsSettled'
  <2> SUFFICES ASSUME NEW b \in Batches, batch'[b] = "reconciled", NEW q \in Awaiting(b)' PROVE FALSE
    BY DEF ReconciledIsSettled
  <2>1. q \in Settlements /\ pay'[q].batch = b /\ pay'[q].status = "processing" /\ b # NoBatch
    BY DEF Awaiting
  <2>2. q # s
    BY <1>1, <2>1
  <2>3. q \in Awaiting(b)
    BY <1>1, <2>1, <2>2 DEF Awaiting
  <2> QED
    BY <2>3 DEF Kept, ReconciledIsSettled
<1>5. \A q \in Settlements : PayKept(pay'[q], bank'[q])
  BY <1>1 DEF Kept
<1>6. \A u \in PayoutTasks : Knows(ptask[u])'
  BY AloneOK DEF Kept
<1> QED
  BY <1>3, <1>4, <1>5, <1>6 DEF Kept

LEMMA ReleaseKept == ASSUME Kept, Inv', PayoutConstantsOK, Alone, NEW t \in PayoutTasks, ReleasePayout(t) PROVE Kept'
<1>1. PICK s \in Settlements : s = ptask[t].s
  BY TaskTyped DEF Kept
<1>2. /\ pay[s] \in Pay /\ PayKept(pay[s], bank[s]) /\ pay[s].attempts \in 0..MaxAttempts
      /\ ptask[t].pc = "release" /\ PayoutBecomes(t, PayoutIdle) /\ UNCHANGED <<batch, file, bank>>
  BY <1>1, PayTyped, Known DEF Kept, Pay, ReleasePayout, PayoutFinish, PayoutAt
<1>3. CASE UNCHANGED pay
  BY <1>2, <1>3, IdleKnows, Moved
<1>4. CASE /\ pay[s].status = "approved" /\ pay[s].attempts < MaxAttempts
           /\ Set(s, [pay[s] EXCEPT !.status = "processing", !.provider = "manual", !.attempts = @ + 1])
  <2>1. PICK p : p = [pay[s] EXCEPT !.status = "processing", !.provider = "manual", !.attempts = @ + 1]
    OBVIOUS
  <2>2. /\ p.status = "processing" /\ p.provider = "manual" /\ p.attempts = pay[s].attempts + 1
        /\ p.batch = NoBatch /\ p.utr = 0
    BY <1>2, <1>4, <2>1 DEF Pay, PayKept
  <2>3. LastOnly(p, bank[s])
    BY <1>2, <1>4, <2>2 DEF PayKept, LastOnly, Stopped, Attempts
  <2>4. PayKept(p, bank[s])
    BY <1>2, <1>4, <2>2, <2>3 DEF PayKept, Attempts
  <2> QED
    BY <1>2, <1>4, <2>1, <2>2, <2>4, IdleKnows, Anew
<1> QED
  BY <1>1, <1>3, <1>4 DEF ReleasePayout

LEMMA CreateBatchKept == ASSUME Kept, Inv', PayoutConstantsOK, Alone, NEW t \in PayoutTasks, CreateBatch(t) PROVE Kept'
<1>1. PICK b \in Batches, S \in SUBSET {s \in Settlements : pay[s].status = "approved"} :
        /\ batch[b] = "none" /\ batch' = [batch EXCEPT ![b] = "created"]
        /\ PayoutBecomes(t, [PayoutIdle EXCEPT !.pc = "each", !.b = b, !.todo = S,
              !.att = [s \in Settlements |-> IF s \in S THEN pay[s].attempts + 1 ELSE 0]])
  BY DEF CreateBatch
<1>2. PICK v : v = [PayoutIdle EXCEPT !.pc = "each", !.b = b, !.todo = S,
              !.att = [s \in Settlements |-> IF s \in S THEN pay[s].attempts + 1 ELSE 0]]
  OBVIOUS
<1>3. /\ v.pc = "each" /\ v.b = b /\ v.todo = S /\ S \subseteq Settlements
      /\ \A s \in S : v.att[s] = pay[s].attempts + 1
  BY <1>2 DEF PayoutIdle
<1>4. /\ UNCHANGED <<pay, file, bank>> /\ ptask[t].pc = "idle"
      /\ batch'[b] = "created" /\ \A c \in Batches : c # b => batch'[c] = batch[c]
  BY <1>1 DEF CreateBatch, PayoutAt, Kept, Inv, PayoutTypeOK
<1>5. Knows(v)'
  BY <1>3, <1>4 DEF Knows
<1>6. \A c : ~Withdrawing(c) /\ ~Withdrawing(c)'
  <2>1. PayoutBecomes(t, v)
    BY <1>1, <1>2
  <2> QED
    BY <2>1, <1>3, <1>4, AloneOK DEF Kept
<1>7. FilesKept' /\ ReconciledIsSettled'
  BY <1>1, <1>4, <1>6 DEF Kept, FilesKept, LineKept, ReconciledIsSettled, Awaiting
<1> QED
  BY <1>1, <1>2, <1>4, <1>5, <1>7, Moved

LEMMA ReadAccountKept == ASSUME Kept, Inv', PayoutConstantsOK, Alone, NEW t \in PayoutTasks, ReadAccount(t) PROVE Kept'
<1>1. PICK s \in ptask[t].todo :
          IF VerifiedAccount(s) # 0 /\ VerifiedAccount(s) = pay[s].ben
          THEN PayoutBecomes(t, [ptask[t] EXCEPT !.pc = "claim", !.s = s, !.acc = VerifiedAccount(s)])
          ELSE PayoutBecomes(t, [ptask[t] EXCEPT !.todo = @ \ {s}])
  BY DEF ReadAccount
<1>2. PICK v : v = IF VerifiedAccount(s) # 0 /\ VerifiedAccount(s) = pay[s].ben
                   THEN [ptask[t] EXCEPT !.pc = "claim", !.s = s, !.acc = VerifiedAccount(s)]
                   ELSE [ptask[t] EXCEPT !.todo = @ \ {s}]
  OBVIOUS
<1>3. ptask[t] \in PayoutTask /\ ptask[t].pc = "each" /\ Knows(ptask[t])
  BY Known DEF ReadAccount, PayoutAt
<1>4. /\ v.pc \in {"each", "claim"} /\ v.b = ptask[t].b /\ v.todo \subseteq ptask[t].todo
      /\ v.att = ptask[t].att
  BY <1>2, <1>3 DEF PayoutTask
<1>5. UNCHANGED <<pay, batch, file, bank>>
  BY DEF ReadAccount
<1>6. Knows(v)'
  BY <1>3, <1>4, <1>5 DEF Knows
<1>7. PayoutBecomes(t, v)
  BY <1>1, <1>2
<1> QED
  BY <1>3, <1>5, <1>6, <1>7, Moved

LEMMA ClaimMemberKept == ASSUME Kept, Inv', PayoutConstantsOK, Alone, NEW t \in PayoutTasks, ClaimMember(t) PROVE Kept'
<1>1. PICK s \in Settlements : s = ptask[t].s
  BY TaskTyped DEF Kept
<1>2. PICK v : v = [ptask[t] EXCEPT !.pc = "each", !.todo = @ \ {ptask[t].s}, !.acc = 0, !.s = SomeSettlement,
                       !.any = @ \/ (pay[s].status = "approved" /\ pay[s].attempts < MaxAttempts)]
  OBVIOUS
<1>3. /\ ptask[t] \in PayoutTask /\ ptask[t].pc = "claim" /\ Knows(ptask[t]) /\ TaskFine(ptask[t], vetted)
      /\ UNCHANGED <<batch, file, bank>>
  BY Known DEF ClaimMember, PayoutAt
<1>4. PayoutBecomes(t, v)
  BY <1>1, <1>2, <1>3 DEF ClaimMember, PayoutTask
<1>5. v.pc = "each" /\ v.b = ptask[t].b /\ v.todo = ptask[t].todo \ {s} /\ v.att = ptask[t].att
  BY <1>1, <1>2, <1>3 DEF PayoutTask
<1>6. /\ pay[s] \in Pay /\ PayKept(pay[s], bank[s]) /\ pay[s].attempts \in 0..MaxAttempts
      /\ ptask[t].b \in Batches /\ ptask[t].todo \subseteq Settlements
  BY <1>3, PayTyped, TaskTyped DEF Kept, Pay, TaskFine, InBatch
<1>7. batch[ptask[t].b] = "created" /\ \A q \in ptask[t].todo : ptask[t].att[q] = pay[q].attempts + 1
  BY <1>3 DEF Knows
<1>8. CASE UNCHANGED pay
  <2>1. Knows(v)'
    BY <1>3, <1>5, <1>7, <1>8 DEF Knows
  <2> QED
    BY <1>3, <1>4, <1>8, <2>1, Moved
<1>9. CASE pay[s].status = "approved" /\ pay[s].attempts < MaxAttempts /\ Set(s, Batched(t, s))
  <2>1. PICK p : p = Batched(t, s)
    OBVIOUS
  <2>2. /\ p.status = "processing" /\ p.provider = "bank_file" /\ p.batch = ptask[t].b
        /\ p.ref = ptask[t].att[s] /\ p.attempts = pay[s].attempts + 1 /\ p.utr = pay[s].utr
    BY <1>6, <2>1 DEF Batched, Pay
  <2>3. p.ref = p.attempts /\ p.utr = 0
    BY <1>1, <1>3, <1>6, <1>7, <1>9, <2>2 DEF TaskFine, PayKept
  <2>4. LastOnly(p, bank[s])
    BY <1>6, <1>9, <2>2 DEF PayKept, LastOnly, Stopped, Attempts
  <2>5. p.attempts \in Attempts /\ p.attempts > pay[s].attempts
    BY <1>6, <1>9, <2>2 DEF Attempts
  <2>6. bank[s][p.attempts].state = "none"
    BY <1>6, <2>5 DEF PayKept, LastOnly
  <2>7. PayKept(p, bank[s])
    BY <2>2, <2>3, <2>4, <2>5, <2>6 DEF PayKept
  <2>8. \A q \in Settlements : q # s => pay'[q] = pay[q]
    BY <1>9 DEF Set, Kept, Inv, PayoutTypeOK
  <2>9. Knows(v)'
    BY <1>3, <1>5, <1>6, <1>7, <2>8 DEF Knows
  <2> QED
    BY <1>3, <1>4, <1>7, <1>9, <2>1, <2>2, <2>7, <2>9, Anew
<1> QED
  BY <1>1, <1>8, <1>9 DEF ClaimMember

\* The status of a batch is written and the handler is done.
LEMMA ClosedKept ==
    ASSUME Kept, Inv', PayoutConstantsOK, Alone, NEW t \in PayoutTasks, FinishBatch(t) \/ SaveReconciled(t) \/ SaveCancelled(t)
    PROVE  Kept'
<1>1. /\ ptask[t].pc \in {"each", "close", "cancelled"} /\ Knows(ptask[t]) /\ ptask[t].b \in Batches
      /\ UNCHANGED <<pay, file, bank>> /\ PayoutBecomes(t, PayoutIdle)
  BY Known DEF FinishBatch, SaveReconciled, SaveCancelled, PayoutAt, PayoutFinish, TaskFine, InBatch
<1>2. /\ \A c : ~Withdrawing(c)'
      /\ \A c : Withdrawing(c) => c = ptask[t].b /\ ptask[t].pc = "cancelled"
  BY <1>1, AloneOK, IdleKnows DEF Kept
<1>3. \A c \in Batches : c # ptask[t].b => batch'[c] = batch[c]
  BY DEF FinishBatch, SaveReconciled, SaveCancelled, Kept, Inv, PayoutTypeOK
<1>4. /\ batch'[ptask[t].b] = "cancelled" \/ (batch[ptask[t].b] # "cancelled" /\ ~Withdrawing(ptask[t].b))
      /\ batch'[ptask[t].b] = "reconciled" => Awaiting(ptask[t].b) = {}
  <2>1. CASE FinishBatch(t)
    BY <1>1, <1>2, <2>1 DEF FinishBatch, PayoutAt, Knows, Kept, Inv, PayoutTypeOK
  <2>2. CASE SaveReconciled(t)
    BY <1>1, <1>2, <2>2 DEF SaveReconciled, PayoutAt, Knows, Kept, Inv, PayoutTypeOK
  <2>3. CASE SaveCancelled(t)
    BY <1>1, <2>3 DEF SaveCancelled, Kept, Inv, PayoutTypeOK
  <2> QED
    BY <2>1, <2>2, <2>3
<1>5. FilesKept'
  <2> SUFFICES ASSUME NEW c \in Batches, batch'[c] # "cancelled", NEW l \in file[c] PROVE LineKept(l, c)'
    BY <1>1 DEF FilesKept
  <2>1. batch[c] # "cancelled" /\ ~Withdrawing(c)
    BY <1>2, <1>3, <1>4
  <2> QED
    BY <1>1, <2>1 DEF Kept, FilesKept, LineKept
<1>6. ReconciledIsSettled'
  BY <1>1, <1>3, <1>4 DEF Kept, ReconciledIsSettled, Awaiting
<1> QED
  BY <1>1, <1>5, <1>6, IdleKnows, Moved

LEMMA ReadLinesKept == ASSUME Kept, Inv', PayoutConstantsOK, Alone, NEW t \in PayoutTasks, ReadLines(t) PROVE Kept'
<1>0. PICK b : b = ptask[t].b
  OBVIOUS
<1>1. /\ ptask[t] \in PayoutTask /\ ptask[t].pc = "lines" /\ UNCHANGED <<pay, batch, file, bank>>
      /\ b \in Batches /\ b # NoBatch
  BY <1>0, Known DEF ReadLines, PayoutAt, TaskFine, InBatch
<1>2. CASE PayoutBecomes(t, PayoutIdle)
  BY <1>1, <1>2, IdleKnows, Moved
<1>3. CASE PayoutBecomes(t, [ptask[t] EXCEPT !.pc = "download", !.lines = Lines(b)])
  <2>1. PICK v : v = [ptask[t] EXCEPT !.pc = "download", !.lines = Lines(b)]
    OBVIOUS
  <2>2. v.pc = "download" /\ v.b = b /\ v.lines = Lines(b)
    BY <1>0, <1>1, <2>1 DEF PayoutTask
  <2>3. ASSUME NEW l \in Lines(b) PROVE LineKept(l, b)'
    <3>1. PICK s \in Awaiting(b) : l.s = s /\ l.n = pay[s].ref
      BY DEF Lines
    <3>2. /\ s \in Settlements /\ pay[s].batch = b /\ pay[s].status = "processing"
          /\ PayKept(pay[s], bank[s])
      BY Known DEF Awaiting
    <3>3. pay[s].ref = pay[s].attempts
      BY <1>1, <3>2 DEF PayKept
    <3> QED
      BY <1>1, <3>1, <3>2, <3>3 DEF LineKept
  <2>4. Knows(v)'
    BY <2>2, <2>3 DEF Knows
  <2> QED
    BY <1>1, <1>3, <2>1, <2>4, Moved
<1> QED
  BY <1>0, <1>2, <1>3 DEF ReadLines, PayoutFinish

LEMMA SaveDownloadKept == ASSUME Kept, Inv', PayoutConstantsOK, Alone, NEW t \in PayoutTasks, SaveDownload(t) PROVE Kept'
<1>1. PICK b \in Batches : b = ptask[t].b
  BY Known DEF SaveDownload, PayoutAt, TaskFine, InBatch
<1>2. /\ ptask[t].pc = "download" /\ PayoutBecomes(t, PayoutIdle) /\ UNCHANGED <<pay, bank>>
      /\ \A l \in ptask[t].lines : LineKept(l, b)
  BY <1>1, Known DEF SaveDownload, PayoutAt, PayoutFinish, Knows
<1>3. /\ file'[b] = ptask[t].lines /\ \A c \in Batches : c # b => file'[c] = file[c]
      /\ batch'[b] \in {batch[b], "downloaded"} /\ \A c \in Batches : c # b => batch'[c] = batch[c]
  BY <1>1 DEF SaveDownload, Kept, Inv, PayoutTypeOK
<1>4. \A c : ~Withdrawing(c)
  BY <1>2, AloneOK DEF Kept
<1>5. FilesKept'
  <2> SUFFICES ASSUME NEW c \in Batches, batch'[c] # "cancelled", NEW l \in file'[c] PROVE LineKept(l, c)'
    BY DEF FilesKept
  <2>1. LineKept(l, c)
    BY <1>2, <1>3, <1>4 DEF Kept, FilesKept
  <2> QED
    BY <1>2, <2>1 DEF LineKept
<1>6. ReconciledIsSettled'
  BY <1>2, <1>3 DEF Kept, ReconciledIsSettled, Awaiting
<1>7. \A u \in PayoutTasks : Knows(ptask[u])'
  BY <1>2, AloneOK, IdleKnows DEF Kept
<1>8. \A s \in Settlements : PayKept(pay'[s], bank'[s])
  BY <1>2, Known
<1> QED
  BY <1>5, <1>6, <1>7, <1>8 DEF Kept

LEMMA FindRowKept == ASSUME Kept, Inv', PayoutConstantsOK, Alone, NEW t \in PayoutTasks, FindRow(t) PROVE Kept'
<1>1. PICK s \in Settlements, n \in Attempts : \E res \in Reported(bank[s][n]) :
          /\ pay[s].batch = ptask[t].b /\ pay[s].ref = n /\ Applies(s, n, res)
          /\ PayoutBecomes(t, [ptask[t] EXCEPT !.pc = "settle", !.s = s, !.row = [n |-> n, res |-> res],
                                       !.saw = pay[s].status, !.by = pay[s].provider])
  BY DEF FindRow
<1>2. PICK res \in Reported(bank[s][n]) :
          /\ Applies(s, n, res)
          /\ PayoutBecomes(t, [ptask[t] EXCEPT !.pc = "settle", !.s = s, !.row = [n |-> n, res |-> res],
                                       !.saw = pay[s].status, !.by = pay[s].provider])
  BY <1>1
<1>3. PICK v : v = [ptask[t] EXCEPT !.pc = "settle", !.s = s, !.row = [n |-> n, res |-> res],
                                   !.saw = pay[s].status, !.by = pay[s].provider]
  OBVIOUS
<1>4. /\ ptask[t] \in PayoutTask /\ ptask[t].pc = "row" /\ Knows(ptask[t]) /\ UNCHANGED <<pay, batch, file, bank>>
      /\ ptask[t].b # NoBatch /\ PayKept(pay[s], bank[s])
  BY Known DEF FindRow, PayoutAt, TaskFine, InBatch
<1>5. v.pc = "settle" /\ v.b = ptask[t].b /\ v.s = s /\ v.row = [n |-> n, res |-> res]
  BY <1>3, <1>4 DEF PayoutTask
<1>6. pay[s].attempts = n
  BY <1>1, <1>2, <1>4 DEF Applies, BankPaid, PayKept
<1>7. bank[s][n].state \in IF res = "paid" THEN {"credited", "returned"} ELSE Undone
  BY <1>2 DEF Reported, Undone
<1>8. Knows(v)'
  BY <1>4, <1>5, <1>6, <1>7 DEF Knows
<1> QED
  BY <1>2, <1>3, <1>4, <1>8, Moved

LEMMA SettleRowKept == ASSUME Kept, Inv', PayoutConstantsOK, Alone, NEW t \in PayoutTasks, SettleRow(t) PROVE Kept'
<1>1. PICK s \in Settlements : s = ptask[t].s
  BY TaskTyped DEF Kept
<1>2. PICK n : n = ptask[t].row.n
  OBVIOUS
<1>3. /\ pay[s] \in Pay /\ PayKept(pay[s], bank[s]) /\ ptask[t].pc = "settle" /\ Knows(ptask[t])
      /\ UNCHANGED <<batch, file, bank>>
  BY <1>1, PayTyped, Known DEF Kept, SettleRow, PayoutAt
<1>4. PICK v : v = [PayoutIdle EXCEPT !.pc = "row", !.b = ptask[t].b]
  OBVIOUS
<1>5. v.pc = "row" /\ v.b = ptask[t].b /\ PayoutBecomes(t, v)
  BY <1>4 DEF PayoutIdle, SettleRow
<1>6. Knows(v)'
  BY <1>3, <1>5 DEF Knows
<1>7. /\ n \in Attempts /\ pay[s].attempts = n
      /\ bank[s][n].state \in IF ptask[t].row.res = "paid" THEN {"credited", "returned"} ELSE Undone
  BY <1>1, <1>2, <1>3 DEF Knows
<1>8. CASE UNCHANGED pay
  BY <1>3, <1>5, <1>6, <1>8, Moved
<1>9. CASE /\ ptask[t].row.res = "paid" /\ pay[s].status = "processing"
           /\ Set(s, [pay[s] EXCEPT !.status = "paid", !.utr = n])
  <2>1. PICK p : p = [pay[s] EXCEPT !.status = "paid", !.utr = n]
    OBVIOUS
  <2>2. /\ p.status = "paid" /\ p.utr = n /\ p.attempts = n /\ p.provider = pay[s].provider
        /\ p.ref = pay[s].ref
    BY <1>3, <1>7, <2>1 DEF Pay
  <2>3. n # ByHand /\ bank[s][n].state \in {"credited", "returned"}
    BY <1>7, <1>9 DEF Attempts, ByHand
  <2>4. PayKept(p, bank[s])
    BY <1>3, <1>7, <1>9, <2>2, <2>3 DEF PayKept, LastOnly
  <2>5. Slight(s, p)
    BY <1>7, <2>2, <2>3 DEF Slight
  <2> QED
    BY <1>3, <1>5, <1>6, <1>9, <2>1, <2>4, <2>5, SlightHandled
<1>10. CASE ptask[t].row.res # "paid" /\ Set(s, [pay[s] EXCEPT !.status = "failed", !.utr = 0])
  <2>1. PICK p : p = [pay[s] EXCEPT !.status = "failed", !.utr = 0]
    OBVIOUS
  <2>2. p.status = "failed" /\ p.utr = 0 /\ p.attempts = n
    BY <1>3, <1>7, <2>1 DEF Pay
  <2>3. bank[s][n].state \in Undone
    BY <1>7, <1>10
  <2>4. PayKept(p, bank[s])
    BY <1>3, <1>7, <2>2, <2>3 DEF PayKept, LastOnly
  <2>5. Slight(s, p)
    BY <1>7, <2>2, <2>3 DEF Slight, Undone
  <2> QED
    BY <1>3, <1>5, <1>6, <1>10, <2>1, <2>4, <2>5, SlightHandled
<1> QED
  BY <1>1, <1>2, <1>8, <1>9, <1>10 DEF SettleRow

LEMMA CountAwaitingKept == ASSUME Kept, Inv', PayoutConstantsOK, Alone, NEW t \in PayoutTasks, CountAwaiting(t) PROVE Kept'
<1>1. PICK any : any = (Awaiting(ptask[t].b) # {})
  OBVIOUS
<1>2. PICK v : v = [ptask[t] EXCEPT !.pc = "close", !.any = any]
  OBVIOUS
<1>3. /\ ptask[t] \in PayoutTask /\ ptask[t].pc = "row" /\ Knows(ptask[t]) /\ UNCHANGED <<pay, batch, file, bank>>
      /\ PayoutBecomes(t, v)
  BY <1>1, <1>2, Known DEF CountAwaiting, PayoutAt
<1>4. v.pc = "close" /\ v.b = ptask[t].b /\ v.any = any
  BY <1>2, <1>3 DEF PayoutTask
<1>5. Knows(v)'
  BY <1>1, <1>3, <1>4 DEF Knows, Awaiting
<1> QED
  BY <1>3, <1>5, Moved

\* What is taken back was never with the bank: nothing of the batch was.
LEMMA WithdrawKept == ASSUME Kept, Inv', PayoutConstantsOK, Alone, NEW t \in PayoutTasks, Withdraw(t) PROVE Kept'
<1>1. PICK b : b = ptask[t].b
  OBVIOUS
<1>2. /\ ptask[t] \in PayoutTask /\ ptask[t].pc = "withdraw" /\ Knows(ptask[t]) /\ UNCHANGED <<batch, file, bank>>
      /\ b \in Batches /\ b # NoBatch
  BY <1>1, Known DEF Withdraw, PayoutAt, TaskFine, InBatch
<1>3. ASSUME NEW s \in Awaiting(b), Set(s, [pay[s] EXCEPT !.status = "approved", !.batch = NoBatch, !.ref = 0]),
             UNCHANGED ptask
      PROVE  Kept'
  <2>1. PICK p : p = [pay[s] EXCEPT !.status = "approved", !.batch = NoBatch, !.ref = 0]
    OBVIOUS
  <2>2. /\ s \in Settlements /\ pay[s] \in Pay /\ PayKept(pay[s], bank[s])
        /\ pay[s].status = "processing" /\ pay[s].batch = b
    BY PayTyped, Known DEF Awaiting, Kept
  <2>3. /\ p.status = "approved" /\ p.batch = NoBatch /\ p.ref = 0 /\ p.utr = pay[s].utr
        /\ p.attempts = pay[s].attempts
    BY <2>1, <2>2 DEF Pay
  <2>4. pay'[s] = p /\ \A q \in Settlements : q # s => pay'[q] = pay[q]
    BY <1>3, <2>1, <2>2 DEF Set, Kept, Inv, PayoutTypeOK
  <2>5. pay[s].attempts \in Attempts /\ bank[s][pay[s].attempts].via # b
    BY <1>1, <1>2, <2>2 DEF PayKept, Knows
  <2>6. bank[s][pay[s].attempts].state = "none"
    BY <1>2, <2>2, <2>5 DEF PayKept
  <2>7. PayKept(p, bank[s])
    BY <2>2, <2>3, <2>6 DEF PayKept, LastOnly, Stopped
  <2>8. \A q \in Settlements : PayKept(pay'[q], bank'[q])
    BY <1>2, <2>4, <2>7, Known
  <2>9. FilesKept'
    <3> SUFFICES ASSUME NEW c \in Batches, batch[c] # "cancelled", ~Withdrawing(c), NEW l \in file[c]
                 PROVE  LineKept(l, c)'
      BY <1>2, <1>3 DEF FilesKept, Withdrawing
    <3>1. c # b
      BY <1>1, <1>2 DEF Withdrawing
    <3>2. LineKept(l, c) /\ l.s \in Settlements
      BY LinesTyped DEF Kept, FilesKept
    <3>3. CASE l.s = s
      BY <1>2, <2>2, <3>1, <3>2, <3>3 DEF LineKept
    <3>4. CASE l.s # s
      BY <1>2, <2>4, <3>2, <3>4 DEF LineKept
    <3> QED
      BY <3>3, <3>4
  <2>10. \A u \in PayoutTasks : Knows(ptask[u])'
    <3>1. \A u \in PayoutTasks : u = t
      BY DEF Alone
    <3>2. Knows(ptask[t])'
      BY <1>2, <1>3 DEF Knows
    <3> QED
      BY <3>1, <3>2
  <2>11. ReconciledIsSettled'
    BY <1>2, <2>3, <2>4 DEF Kept, ReconciledIsSettled, Awaiting
  <2> QED
    BY <2>8, <2>9, <2>10, <2>11 DEF Kept
<1>4. CASE PayoutGoto(t, "cancelled") /\ UNCHANGED pay
  <2>1. PICK v : v = [ptask[t] EXCEPT !.pc = "cancelled"]
    OBVIOUS
  <2>2. v.pc = "cancelled" /\ v.b = b /\ PayoutBecomes(t, v)
    BY <1>1, <1>2, <1>4, <2>1 DEF PayoutTask, PayoutGoto
  <2>3. Knows(v)'
    BY <2>2 DEF Knows
  <2>4. \A c : Withdrawing(c)' <=> Withdrawing(c)
    BY <1>1, <1>2, <2>2, AloneOK DEF Kept
  <2>5. FilesKept' /\ ReconciledIsSettled'
    BY <1>2, <1>4, <2>4 DEF Kept, FilesKept, LineKept, ReconciledIsSettled, Awaiting
  <2> QED
    BY <1>2, <1>4, <2>2, <2>3, <2>5, Moved
<1> QED
  BY <1>1, <1>3, <1>4 DEF Withdraw

-----------------------------------------------------------------------------
(* The invariant.                                                          *)

LEMMA SameKept == ASSUME Kept, Inv', UNCHANGED <<pay, batch, file, bank, ptask>> PROVE Kept'
<1>1. \A l, b : LineKept(l, b)' <=> LineKept(l, b)
  BY DEF LineKept
<1>2. \A b : Awaiting(b)' = Awaiting(b) /\ (Withdrawing(b)' <=> Withdrawing(b))
  BY DEF Awaiting, Withdrawing
<1>3. FilesKept' /\ ReconciledIsSettled'
  BY <1>1, <1>2 DEF Kept, FilesKept, ReconciledIsSettled
<1>4. \A t \in PayoutTasks : Knows(ptask[t])'
  BY <1>1, <1>2 DEF Kept, Knows
<1> QED
  BY <1>3, <1>4 DEF Kept

LEMMA InitKept == ASSUME PayoutConstantsOK, PayoutInit PROVE Kept
<1>1. Inv
  BY PayoutInitInv
<1>2. \A s \in Settlements : PayKept(pay[s], bank[s])
  BY DEF PayoutInit, PayKept, LastOnly, Stopped
<1>3. FilesKept /\ ReconciledIsSettled
  BY DEF PayoutInit, FilesKept, ReconciledIsSettled
<1>4. \A t \in PayoutTasks : Knows(ptask[t])
  BY DEF PayoutInit, PayoutIdle, Knows
<1> QED
  BY <1>1, <1>2, <1>3, <1>4 DEF Kept

LEMMA NextKept ==
    ASSUME PayoutConstantsOK, Alone, "failed" \notin Holds, Kept, [PayoutNext]_batchVars
    PROVE  Kept'
<1>0. Inv'
  BY PayoutStepInv DEF Kept
<1>1. CASE UNCHANGED batchVars
  BY <1>0, <1>1, SameKept DEF batchVars
<1>2. ASSUME NEW s \in Settlements, StartSave(s) \/ SaveAccount(s) \/ VerifyAccount(s) \/ DecideChange(s) PROVE Kept'
  BY <1>0, <1>2, SameKept DEF StartSave, SaveAccount, VerifyAccount, DecideChange
<1>3. ASSUME NEW s \in Settlements, RecordPaid(s) \/ RecordFailed(s) \/ MarkPaidManually(s) \/ HoldPayout(s) \/ UnholdPayout(s) \/ CarryForward(s)
      PROVE  Kept'
  BY <1>0, <1>3, ByHandKept
<1>4. ASSUME NEW s \in Settlements, TransferByHand(s) \/ BankMoves(s) PROVE Kept'
  BY <1>0, <1>4, TransferKept, BankMovesKept
<1>5. ASSUME NEW b \in Batches, Upload(b) PROVE Kept'
  BY <1>0, <1>5, UploadKept
<1>6. ASSUME NEW t \in PayoutTasks, PayoutHandler(t) PROVE Kept'
  BY <1>0, <1>6, ScheduleKept, ReleaseKept, ReadAccountKept, ClaimMemberKept, ClosedKept, ReadLinesKept,
     SaveDownloadKept, FindRowKept, SettleRowKept, CountAwaitingKept, WithdrawKept DEF PayoutHandler
<1>7. ASSUME NEW t \in PayoutTasks, CreateBatch(t) PROVE Kept'
  BY <1>0, <1>7, CreateBatchKept
<1>8. ASSUME NEW t \in PayoutTasks,
             \/ \E s \in Settlements : StartScheduling(t, s) \/ StartRelease(t, s)
             \/ \E b \in Batches : StartDownload(t, b) \/ StartReconcile(t, b) \/ StartCancel(t, b)
      PROVE  Kept'
  BY <1>0, <1>8, StartsKept
<1> QED
  BY <1>1, <1>2, <1>3, <1>4, <1>5, <1>6, <1>7, <1>8 DEF PayoutNext

LEMMA KeptIsPaidOnce == ASSUME PayoutConstantsOK, Kept PROVE PaidOnce
<1> SUFFICES ASSUME NEW s \in Settlements PROVE Cardinality(Payments(s)) <= 1
  BY DEF PaidOnce
<1>1. PayKept(pay[s], bank[s]) /\ pay[s] \in Pay /\ pay[s].attempts \in Nat
  BY PayTyped DEF Kept, Pay
<1>2. PICK one : Payments(s) \subseteq {one}
  <2>1. \A n \in Attempts : bank[s][n].state \in {"sent", "credited"} => n = pay[s].attempts
    BY <1>1 DEF PayKept, LastOnly, Stopped, Attempts
  <2>2. CASE pay[s].utr = ByHand
    <3>1. pay[s].status = "paid"
      BY <1>1, <2>2 DEF PayKept, ByHand, Pay, PayoutStatuses
    <3>2. \A n \in Attempts : bank[s][n].state \notin {"sent", "credited"}
      BY <1>1, <2>1, <2>2, <3>1 DEF PayKept, Stopped
    <3> QED
      BY <3>1, <3>2 DEF Payments
  <2>3. CASE pay[s].status = "carried_forward"
    <3>1. pay[s].utr # ByHand
      BY <1>1, <2>3 DEF PayKept, ByHand
    <3>2. \A n \in Attempts : bank[s][n].state \notin {"sent", "credited"}
      BY <1>1, <2>1, <2>3 DEF PayKept, Undone
    <3> QED
      BY <3>1, <3>2 DEF Payments
  <2>4. CASE pay[s].utr # ByHand /\ pay[s].status # "carried_forward"
    BY <2>1, <2>4 DEF Payments
  <2> QED
    BY <2>2, <2>3, <2>4
<1>3. IsFiniteSet({one}) /\ Cardinality({one}) = 1
  BY FS_Singleton
<1> QED
  BY <1>2, <1>3, FS_Subset, FS_CardinalityType

\* With one handler at a time, and failed payouts not put on hold, a settlement is paid once: a
\* batch withdrawn, a file downloaded again and uploaded late, a result repeated, a transfer
\* returned, a retry, a payment by hand or a credit carried forward never opens a second way of
\* paying it while one is under way or done.
THEOREM PaysOnce ==
    ASSUME Alone, "failed" \notin Holds
    PROVE  PayoutSpec => []PaidOnce
<1>. USE PayoutAssumption
<1>1. PayoutInit => Kept
  BY InitKept
<1>2. Kept /\ [PayoutNext]_batchVars => Kept'
  BY NextKept
<1>3. Kept => PaidOnce
  BY KeptIsPaidOnce
<1> QED
  BY <1>1, <1>2, <1>3, PTL DEF PayoutSpec

\* With one handler at a time, and failed payouts not put on hold, a batch closed as reconciled
\* awaits nothing.
THEOREM ReconcilesAll ==
    ASSUME Alone, "failed" \notin Holds
    PROVE  PayoutSpec => []ReconciledIsSettled
<1>. USE PayoutAssumption
<1>1. PayoutInit => Kept
  BY InitKept
<1>2. Kept /\ [PayoutNext]_batchVars => Kept'
  BY NextKept
<1>3. Kept => ReconciledIsSettled
  BY DEF Kept
<1> QED
  BY <1>1, <1>2, <1>3, PTL DEF PayoutSpec

-----------------------------------------------------------------------------
(* RiderPay.                                                               *)

Computing == {"existing", "overlaps", "remove", "earned", "write"}
Calling == {"list", "pay", "bulk", "migrate"}

\* What a request is for when it computes a payout, and the amounts it holds.
Sane(v) ==
    /\ v.pc \in Computing => v.op \in Calling
    /\ v.pc = "pay" => v.op \in {"pay", "bulk"}
    /\ v.pc \in {"write", "deposit"} => v.x \in Nat

RiderInv == RiderTypeOK /\ \A t \in RiderTasks : Sane(rtask[t])

-----------------------------------------------------------------------------
LEMMA LeastOK == ASSUME NEW S \in SUBSET Nat, S # {} PROVE Least(S) \in S
<1>1. PICK w \in S : \A v \in S : ~(<<v, w>> \in OpToRel(<, Nat))
  BY WFMin, NatLessThanWellFounded
<1>2. ASSUME NEW v \in S PROVE ~(v < w)
  <2>1. <<v, w>> \in Nat \X Nat
    OBVIOUS
  <2>2. <<v, w>>[1] = v /\ <<v, w>>[2] = w
    OBVIOUS
  <2>3. <<v, w>> \in OpToRel(<, Nat) <=> <<v, w>>[1] < <<v, w>>[2]
    BY <2>1, Zenon DEF OpToRel
  <2> QED
    BY <1>1, <2>2, <2>3, Zenon
<1>3. \A v \in S : w <= v
  BY <1>2
<1> QED
  BY <1>3 DEF Least

LEMMA RiderIdleOK == ASSUME RiderConstantsOK PROVE RiderIdle \in RiderTask /\ Sane(RiderIdle) /\ NoRiderRow \in RiderRow /\ 1 \in RiderWeeks /\ RiderIdle.pc = "idle"
<1>1. NoRiderRow \in RiderRow /\ 1 \in RiderWeeks
  BY DEF RiderConstantsOK, NoRiderRow, RiderRow, RiderStatuses, RiderWeeks
<1> QED
  BY <1>1 DEF RiderIdle, RiderTask, RiderPcs, Sane, Computing

\* Deliveries can be counted.
LEMMA CountOK ==
    ASSUME RiderConstantsOK
    PROVE  \A w, x : Earned(w, x) \in Nat
<1>1. ASSUME NEW w, NEW x PROVE Earned(w, x) \in Nat
  <2>1. IsFiniteSet({d \in Deliveries : when[d].week = w /\ ~(x /\ when[d].old)})
    BY FS_Subset DEF RiderConstantsOK
  <2> QED
    BY <2>1, FS_CardinalityType DEF Earned
<1> QED
  BY <1>1

\* One request moves on, the others stay.
LEMMA RiderBecomeOK ==
    ASSUME RiderInv, NEW t \in RiderTasks, NEW v \in RiderTask, Sane(v), RiderBecomes(t, v)
    PROVE  /\ rtask' \in [RiderTasks -> RiderTask] /\ \A u \in RiderTasks : Sane(rtask'[u])
           /\ rtask'[t] = v
BY DEF RiderInv, RiderTypeOK, RiderBecomes

\* A request is moved on and nothing else changes.
LEMMA RiderOnlyMoveOK ==
    ASSUME RiderInv, NEW t \in RiderTasks, NEW v \in RiderTask, Sane(v), RiderBecomes(t, v),
           UNCHANGED <<now, when, row, old, deposited, crashes>>
    PROVE  RiderInv'
BY RiderBecomeOK DEF RiderInv, RiderTypeOK

\* The next week of those left is one of them.
LEMMA NextWeekIs ==
    ASSUME RiderConstantsOK, NEW t \in RiderTasks, rtask[t] \in RiderTask, rtask[t].op \in {"list", "bulk"}, NextWeek(t)
    PROVE  \E v \in RiderTask :
              /\ RiderBecomes(t, v) /\ Sane(v)
              /\ \/ v = RiderIdle
                 \/ v.pc = "existing" /\ v.op = rtask[t].op /\ v.w \in v.todo /\ v.todo \subseteq rtask[t].todo
<1>1. PICK left : left = rtask[t].todo \ {rtask[t].w}
  OBVIOUS
<1>2. left \in SUBSET RiderWeeks /\ RiderWeeks \subseteq Nat
  BY <1>1 DEF RiderTask, RiderWeeks
<1>3. CASE left = {}
  BY <1>1, <1>3, RiderIdleOK DEF NextWeek, RiderFinish
<1>4. CASE left # {}
  <2>1. Least(left) \in left
    BY <1>2, <1>4, LeastOK
  <2>2. PICK v : v = [rtask[t] EXCEPT !.pc = "existing", !.todo = left, !.w = Least(left)]
    OBVIOUS
  <2>3. v \in RiderTask /\ v.pc = "existing" /\ v.op = rtask[t].op /\ v.w = Least(left) /\ v.todo = left
    BY <1>2, <2>1, <2>2 DEF RiderTask, RiderPcs
  <2>4. RiderBecomes(t, v)
    BY <1>1, <1>4, <2>2 DEF NextWeek
  <2>5. Sane(v)
    BY <2>3 DEF Sane, Calling
  <2> QED
    BY <1>1, <2>1, <2>3, <2>4, <2>5
<1> QED
  BY <1>3, <1>4

\* Where a request is when it has its payout r.
LEMMA ReturnIs ==
    ASSUME RiderConstantsOK, NEW t \in RiderTasks, rtask[t] \in RiderTask, rtask[t].op \in Calling, NEW r \in RiderRow, Return(t, r)
    PROVE  \E v \in RiderTask :
              /\ RiderBecomes(t, v) /\ Sane(v)
              /\ \/ v = RiderIdle
                 \/ /\ v.pc = "existing" /\ v.op = "list" /\ rtask[t].op = "list"
                    /\ v.w \in v.todo /\ v.todo \subseteq rtask[t].todo
                 \/ v.pc = "move"
                 \/ /\ v.pc = "pay" /\ v.op \in {"pay", "bulk"} /\ v.op = rtask[t].op
                    /\ v.w = rtask[t].w /\ v.todo = rtask[t].todo
<1>1. CASE rtask[t].op = "list"
  <2>1. NextWeek(t)
    BY <1>1 DEF Return
  <2> QED
    BY <1>1, <2>1, NextWeekIs
<1>2. CASE RiderBecomes(t, RiderIdle)
  BY <1>2, RiderIdleOK
<1>3. CASE RiderBecomes(t, [rtask[t] EXCEPT !.pc = "move", !.saw = r])
  <2>1. PICK v : v = [rtask[t] EXCEPT !.pc = "move", !.saw = r]
    OBVIOUS
  <2>2. v \in RiderTask /\ v.pc = "move"
    BY <2>1 DEF RiderTask, RiderPcs
  <2> QED
    BY <1>3, <2>1, <2>2 DEF Sane, Computing
<1>4. CASE rtask[t].op \in {"pay", "bulk"} /\ RiderBecomes(t, [rtask[t] EXCEPT !.pc = "pay"])
  <2>1. PICK v : v = [rtask[t] EXCEPT !.pc = "pay"]
    OBVIOUS
  <2>2. v \in RiderTask /\ v.pc = "pay" /\ v.op = rtask[t].op /\ v.w = rtask[t].w /\ v.todo = rtask[t].todo
    BY <2>1 DEF RiderTask, RiderPcs
  <2> QED
    BY <1>4, <2>1, <2>2 DEF Sane, Computing
<1> QED
  BY <1>1, <1>2, <1>3, <1>4 DEF Return, RiderFinish, Calling

LEMMA Typed ==
    ASSUME RiderInv, RiderConstantsOK, NEW t \in RiderTasks
    PROVE  /\ rtask[t] \in RiderTask /\ Sane(rtask[t])
           /\ rtask[t].pc \in RiderPcs /\ rtask[t].w \in RiderWeeks /\ rtask[t].todo \in SUBSET RiderWeeks
           /\ rtask[t].saw \in RiderRow /\ rtask[t].saw.gross \in Nat /\ rtask[t].saw.extra \in Int
           /\ rtask[t].x \in Int /\ rtask[t].ref \in Refs \union {NoRef}
           /\ row[rtask[t].w] \in RiderRow
           /\ row \in [RiderWeeks -> RiderRow] /\ old.extra \in {0, 1}
<1>1. rtask[t] \in RiderTask /\ Sane(rtask[t]) /\ row \in [RiderWeeks -> RiderRow] /\ old.extra \in {0, 1}
  BY DEF RiderInv, RiderTypeOK
<1> QED
  BY <1>1 DEF RiderTask, RiderRow

THEOREM RiderInitInv == ASSUME RiderConstantsOK PROVE RiderInit => RiderInv
<1> SUFFICES ASSUME RiderInit PROVE RiderInv
  OBVIOUS
<1>1. now \in 1..MaxWeek + 1 /\ crashes \in 0..MaxCrashes /\ deposited \in Nat
  BY DEF RiderInit, RiderConstantsOK
<1>2. when \in [Deliveries -> [week : 0..MaxWeek, old : BOOLEAN]]
  <2>1. 0 \in 0..MaxWeek /\ 1 \in 0..MaxWeek
    BY DEF RiderConstantsOK
  <2> QED
    BY <2>1 DEF RiderInit
<1>3. old \in [status : RiderStatuses, extra : {0, 1}]
  BY DEF RiderInit, RiderConstantsOK, RiderStatuses
<1>4. row \in [RiderWeeks -> RiderRow] /\ rtask \in [RiderTasks -> RiderTask] /\ \A t \in RiderTasks : Sane(rtask[t])
  BY RiderIdleOK DEF RiderInit
<1> QED
  BY <1>1, <1>2, <1>3, <1>4 DEF RiderInv, RiderTypeOK

-----------------------------------------------------------------------------
(* The types, step by step.                                                *)

LEMMA FindExistingInv == ASSUME RiderInv, RiderConstantsOK, NEW t \in RiderTasks, FindExisting(t) PROVE RiderInv'
<1>1. rtask[t].op \in Calling /\ row[rtask[t].w] \in RiderRow
  BY Typed DEF FindExisting, RiderAt, Sane, Computing
<1>2. CASE Return(t, row[rtask[t].w])
  BY <1>1, <1>2, Typed, ReturnIs, RiderOnlyMoveOK DEF FindExisting
<1>3. CASE RiderBecomes(t, [rtask[t] EXCEPT !.pc = "overlaps", !.saw = row[rtask[t].w]])
  <2>1. PICK v : v = [rtask[t] EXCEPT !.pc = "overlaps", !.saw = row[rtask[t].w]]
    OBVIOUS
  <2>2. v \in RiderTask /\ v.pc = "overlaps" /\ v.op = rtask[t].op
    BY <1>1, <2>1, Typed DEF RiderTask, RiderPcs
  <2>3. Sane(v)
    BY <1>1, <2>2 DEF Sane
  <2> QED
    BY <1>3, <2>1, <2>2, <2>3, RiderOnlyMoveOK DEF FindExisting
<1> QED
  BY <1>2, <1>3 DEF FindExisting

LEMMA FindOverlapsInv == ASSUME RiderInv, RiderConstantsOK, NEW t \in RiderTasks, FindOverlaps(t) PROVE RiderInv'
<1>1. PICK pc \in {"remove", "earned"}, excl \in BOOLEAN : RiderBecomes(t, [rtask[t] EXCEPT !.pc = pc, !.excl = excl])
  BY DEF FindOverlaps
<1>2. PICK v : v = [rtask[t] EXCEPT !.pc = pc, !.excl = excl]
  OBVIOUS
<1>3. v \in RiderTask /\ v.pc = pc /\ v.op = rtask[t].op /\ rtask[t].op \in Calling
  BY <1>2, Typed DEF RiderTask, RiderPcs, FindOverlaps, RiderAt, Sane, Computing
<1>4. Sane(v)
  BY <1>3 DEF Sane
<1> QED
  BY <1>1, <1>2, <1>3, <1>4, RiderOnlyMoveOK DEF FindOverlaps

LEMMA RemoveSupersededInv == ASSUME RiderInv, RiderConstantsOK, NEW t \in RiderTasks, RemoveSuperseded(t) PROVE RiderInv'
<1>1. PICK v : v = [rtask[t] EXCEPT !.pc = "earned"]
  OBVIOUS
<1>2. v \in RiderTask /\ v.pc = "earned" /\ v.op = rtask[t].op /\ rtask[t].op \in Calling
  BY <1>1, Typed DEF RiderTask, RiderPcs, RemoveSuperseded, RiderAt, Sane, Computing
<1>3. Sane(v)
  BY <1>2 DEF Sane
<1>4. old' \in [status : RiderStatuses, extra : {0, 1}]
  BY DEF RemoveSuperseded, RiderInv, RiderTypeOK, RiderStatuses
<1>5. RiderBecomes(t, v) /\ UNCHANGED <<now, when, row, deposited, crashes>>
  BY <1>1 DEF RemoveSuperseded
<1> QED
  BY <1>2, <1>3, <1>4, <1>5, RiderBecomeOK DEF RiderInv, RiderTypeOK

LEMMA AddUpInv == ASSUME RiderInv, RiderConstantsOK, NEW t \in RiderTasks, AddUp(t) PROVE RiderInv'
<1>1. PICK x : x = Earned(rtask[t].w, rtask[t].excl)
  OBVIOUS
<1>2. PICK v : v = [rtask[t] EXCEPT !.pc = "write", !.x = x]
  OBVIOUS
<1>3. x \in Nat /\ rtask[t].op \in Calling
  BY <1>1, CountOK, Typed DEF AddUp, RiderAt, Sane, Computing
<1>4. v \in RiderTask /\ v.pc = "write" /\ v.op = rtask[t].op /\ v.x = x
  <2>1. x \in Int /\ "write" \in RiderPcs /\ rtask[t] \in RiderTask
    BY <1>3, Typed DEF RiderPcs
  <2> QED
    BY <1>2, <2>1, Zenon DEF RiderTask
<1>5. Sane(v)
  BY <1>3, <1>4 DEF Sane
<1> QED
  BY <1>1, <1>2, <1>4, <1>5, RiderOnlyMoveOK DEF AddUp

LEMMA WriteRowInv == ASSUME RiderInv, RiderConstantsOK, NEW t \in RiderTasks, WriteRow(t) PROVE RiderInv'
<1>1. PICK w \in RiderWeeks : w = rtask[t].w
  BY Typed
<1>2. PICK r : r = [row[w] EXCEPT !.status = "pending", !.gross = rtask[t].x, !.net = rtask[t].x + rtask[t].saw.extra]
  OBVIOUS
<1>3. rtask[t].op \in Calling /\ rtask[t].x \in Nat /\ row[w] \in RiderRow
  BY <1>1, Typed DEF WriteRow, RiderAt, Sane, Computing
<1>4. r \in RiderRow
  <2>1. rtask[t].x + rtask[t].saw.extra \in Int
    BY Typed
  <2> QED
    BY <1>2, <1>3, <2>1 DEF RiderRow, RiderStatuses
<1>5. \/ Return(t, r) /\ row' = [row EXCEPT ![w] = r]
      \/ Return(t, row[w]) /\ UNCHANGED row
  BY <1>1, <1>2 DEF WriteRow
<1>6. row' \in [RiderWeeks -> RiderRow]
  BY <1>1, <1>4, <1>5, Typed
<1>7. PICK v \in RiderTask : RiderBecomes(t, v) /\ Sane(v)
  BY <1>3, <1>4, <1>5, Typed, ReturnIs
<1>8. UNCHANGED <<now, when, old, deposited, crashes>>
  BY DEF WriteRow
<1> QED
  BY <1>6, <1>7, <1>8, RiderBecomeOK DEF RiderInv, RiderTypeOK

\* Requests begin.
LEMMA StartInv ==
    ASSUME RiderInv, RiderConstantsOK, NEW t \in RiderTasks,
           StartList(t) \/ StartAdjust(t) \/ StartPay(t) \/ StartBulk(t) \/ StartMigration(t) \/ StartDeposit(t)
    PROVE  RiderInv'
<1>0. UNCHANGED <<now, when, row, old, deposited, crashes>> /\ row \in [RiderWeeks -> RiderRow]
  BY DEF StartList, StartAdjust, StartPay, StartBulk, StartMigration, StartDeposit, RiderInv, RiderTypeOK
<1>1. CASE StartList(t)
  <2>1. PICK todo \in SUBSET RiderWeeks :
           todo # {} /\ RiderBecomes(t, [RiderIdle EXCEPT !.pc = "existing", !.op = "list", !.todo = todo, !.w = Least(todo)])
    BY <1>1 DEF StartList
  <2>2. Least(todo) \in RiderWeeks
    BY <2>1, LeastOK DEF RiderWeeks
  <2>3. PICK v : v = [RiderIdle EXCEPT !.pc = "existing", !.op = "list", !.todo = todo, !.w = Least(todo)]
    OBVIOUS
  <2>4. v \in RiderTask /\ v.pc = "existing" /\ v.op = "list"
    BY <2>2, <2>3, RiderIdleOK DEF RiderTask, RiderPcs, RiderIdle
  <2> QED
    BY <1>0, <2>1, <2>3, <2>4, RiderOnlyMoveOK DEF Sane, Calling
<1>2. CASE StartAdjust(t)
  <2>1. PICK w \in RiderWeeks, x \in Extras :
            RiderBecomes(t, [RiderIdle EXCEPT !.pc = "adjust", !.op = "adjust", !.w = w, !.saw = row[w], !.x = x])
    BY <1>2 DEF StartAdjust
  <2>2. PICK v : v = [RiderIdle EXCEPT !.pc = "adjust", !.op = "adjust", !.w = w, !.saw = row[w], !.x = x]
    OBVIOUS
  <2>3. v \in RiderTask /\ v.pc = "adjust"
    <3>1. x \in Int /\ row[w] \in RiderRow
      BY <1>0 DEF Extras
    <3> QED
      BY <2>2, <3>1, RiderIdleOK DEF RiderTask, RiderPcs, RiderIdle
  <2> QED
    BY <1>0, <2>1, <2>2, <2>3, RiderOnlyMoveOK DEF Sane, Computing
<1>3. CASE StartPay(t)
  <2>1. PICK w \in RiderWeeks, f \in Refs :
            RiderBecomes(t, [RiderIdle EXCEPT !.pc = "existing", !.op = "pay", !.w = w, !.ref = f])
    BY <1>3 DEF StartPay
  <2>2. PICK v : v = [RiderIdle EXCEPT !.pc = "existing", !.op = "pay", !.w = w, !.ref = f]
    OBVIOUS
  <2>3. v \in RiderTask /\ v.pc = "existing" /\ v.op = "pay"
    BY <2>2, RiderIdleOK DEF RiderTask, RiderPcs, RiderIdle
  <2> QED
    BY <1>0, <2>1, <2>2, <2>3, RiderOnlyMoveOK DEF Sane, Calling
<1>4. CASE StartBulk(t)
  <2>1. PICK S \in SUBSET RiderWeeks :
           S # {} /\ RiderBecomes(t, [RiderIdle EXCEPT !.pc = "existing", !.op = "bulk", !.todo = S, !.w = Least(S)])
    BY <1>4 DEF StartBulk
  <2>2. Least(S) \in RiderWeeks
    BY <2>1, LeastOK DEF RiderWeeks
  <2>3. PICK v : v = [RiderIdle EXCEPT !.pc = "existing", !.op = "bulk", !.todo = S, !.w = Least(S)]
    OBVIOUS
  <2>4. v \in RiderTask /\ v.pc = "existing" /\ v.op = "bulk"
    BY <2>2, <2>3, RiderIdleOK DEF RiderTask, RiderPcs, RiderIdle
  <2> QED
    BY <1>0, <2>1, <2>3, <2>4, RiderOnlyMoveOK DEF Sane, Calling
<1>5. CASE StartMigration(t)
  <2>1. PICK pc \in {"drop", "existing"} : RiderBecomes(t, [RiderIdle EXCEPT !.pc = pc, !.op = "migrate"])
    BY <1>5 DEF StartMigration
  <2>2. PICK v : v = [RiderIdle EXCEPT !.pc = pc, !.op = "migrate"]
    OBVIOUS
  <2>3. v \in RiderTask /\ v.pc = pc /\ v.op = "migrate"
    BY <2>2, RiderIdleOK DEF RiderTask, RiderPcs, RiderIdle
  <2> QED
    BY <1>0, <2>1, <2>2, <2>3, RiderOnlyMoveOK DEF Sane, Calling
<1>6. CASE StartDeposit(t)
  <2>1. Cardinality(Deliveries) \in Nat
    BY FS_CardinalityType DEF RiderConstantsOK
  <2>2. PICK a \in 1..Cardinality(Deliveries) : RiderBecomes(t, [RiderIdle EXCEPT !.pc = "deposit", !.op = "deposit", !.x = a])
    BY <1>6 DEF StartDeposit
  <2>3. PICK v : v = [RiderIdle EXCEPT !.pc = "deposit", !.op = "deposit", !.x = a]
    OBVIOUS
  <2>4. v \in RiderTask /\ v.pc = "deposit" /\ v.x = a /\ a \in Nat
    <3>1. a \in Int /\ a \in Nat
      BY <2>1
    <3> QED
      BY <2>3, <3>1, RiderIdleOK DEF RiderTask, RiderPcs, RiderIdle
  <2> QED
    BY <1>0, <2>2, <2>3, <2>4, RiderOnlyMoveOK DEF Sane, Computing
<1> QED
  BY <1>1, <1>2, <1>3, <1>4, <1>5, <1>6

\* An amount entered changes the row's extra and net alone.
LEMMA AdjustIs ==
    ASSUME RiderInv, RiderConstantsOK, NEW t \in RiderTasks, Adjust(t)
    PROVE  /\ row' \in [RiderWeeks -> RiderRow]
           /\ \A w \in RiderWeeks : row'[w].status = row[w].status /\ row'[w].ref = row[w].ref
           /\ \A w \in RiderWeeks : w # rtask[t].w => row'[w] = row[w]
<1>1. PICK w \in RiderWeeks, x \in Int, y \in Int : w = rtask[t].w /\ row' = [row EXCEPT ![w].extra = x, ![w].net = y]
  <2>1. PICK w \in RiderWeeks : w = rtask[t].w /\ row[w] \in RiderRow
    BY Typed
  <2>2. PICK x \in Int : x = rtask[t].x
    BY Typed
  <2>3. PICK net : net = rtask[t].saw.gross + rtask[t].x
    OBVIOUS
  <2>4. PICK y : y = IF net # rtask[t].saw.net THEN net ELSE row[w].net
    OBVIOUS
  <2>5. y \in Int
    BY <2>1, <2>3, <2>4, Typed DEF RiderRow
  <2>6. row' = [row EXCEPT ![w].extra = x, ![w].net = y]
    BY <2>1, <2>2, <2>3, <2>4, Typed DEF Adjust
  <2> QED
    BY <2>1, <2>5, <2>6
<1>2. row \in [RiderWeeks -> RiderRow]
  BY Typed
<1>3. row'[w] = [row[w] EXCEPT !.extra = x, !.net = y] /\ \A u \in RiderWeeks : u # w => row'[u] = row[u]
  BY <1>1, <1>2
<1>4. row'[w] \in RiderRow /\ row'[w].status = row[w].status /\ row'[w].ref = row[w].ref
  BY <1>2, <1>3 DEF RiderRow
<1> QED
  BY <1>1, <1>2, <1>3, <1>4

\* A payout is marked paid when it is pending.
LEMMA SettleIs ==
    ASSUME RiderInv, RiderConstantsOK, NEW t \in RiderTasks, Settle(t)
    PROVE  /\ row' \in [RiderWeeks -> RiderRow]
           /\ \A w \in RiderWeeks : row'[w] = row[w] \/
                 /\ w = rtask[t].w /\ row[w].status = "pending" /\ row'[w].status = "paid"
                 /\ row'[w].gross = row[w].gross /\ row'[w].extra = row[w].extra /\ row'[w].net = row[w].net
<1>1. PICK w \in RiderWeeks : w = rtask[t].w /\ row[w] \in RiderRow
  BY Typed
<1>2. CASE row[w].status = "pending" /\ row' = Paid(t, w)
  <2>1. PICK f : f = IF rtask[t].op = "pay" THEN rtask[t].ref ELSE row[w].ref
    OBVIOUS
  <2>2. f \in Refs \union {NoRef} /\ row \in [RiderWeeks -> RiderRow]
    <3>1. row[w].ref \in Refs \union {NoRef}
      BY <1>1 DEF RiderRow
    <3> QED
      BY <2>1, <3>1, Typed
  <2>3. row' = [row EXCEPT ![w].status = "paid", ![w].ref = f]
    BY <1>1, <1>2, <2>1, <2>2 DEF Paid
  <2>4. /\ row'[w] = [row[w] EXCEPT !.status = "paid", !.ref = f]
        /\ \A u \in RiderWeeks : u # w => row'[u] = row[u]
    BY <2>2, <2>3
  <2>5. /\ row'[w] \in RiderRow /\ row'[w].status = "paid"
        /\ row'[w].gross = row[w].gross /\ row'[w].extra = row[w].extra /\ row'[w].net = row[w].net
    BY <1>1, <2>2, <2>4 DEF RiderRow, RiderStatuses
  <2>6. row' \in [RiderWeeks -> RiderRow]
    BY <2>2, <2>3, <2>4, <2>5
  <2> QED
    BY <1>1, <1>2, <2>4, <2>5, <2>6
<1>3. CASE row' = row
  BY <1>3, Typed
<1> QED
  BY <1>1, <1>2, <1>3 DEF Settle

\* What the old row held is added to week 1's, unless that is paid.
LEMMA MoveIs ==
    ASSUME RiderInv, RiderConstantsOK, NEW t \in RiderTasks, Move(t)
    PROVE  /\ row' \in [RiderWeeks -> RiderRow]
           /\ \A w \in RiderWeeks : row'[w] = row[w] \/
                 /\ w = 1 /\ row[w].status = "pending"
                 /\ row'[w].status = "pending" /\ row'[w].ref = row[w].ref
           /\ RiderBecomes(t, [rtask[t] EXCEPT !.pc = "drop"]) \/ RiderBecomes(t, RiderIdle)
<1>1. CASE row' = row /\ RiderBecomes(t, RiderIdle)
  BY <1>1, Typed
<1>2. ASSUME row[1].status = "pending", NEW x \in Int, NEW y \in Int,
             row' = [row EXCEPT ![1].extra = x, ![1].net = y]
      PROVE  /\ row' \in [RiderWeeks -> RiderRow]
             /\ \A w \in RiderWeeks : row'[w] = row[w] \/
                 /\ w = 1 /\ row[w].status = "pending"
                 /\ row'[w].status = "pending" /\ row'[w].ref = row[w].ref
  <2>1. PICK w \in RiderWeeks : w = 1
    BY RiderIdleOK
  <2>2. row \in [RiderWeeks -> RiderRow] /\ row' = [row EXCEPT ![w].extra = x, ![w].net = y]
    BY <1>2, <2>1, Typed
  <2>3. row'[w] = [row[w] EXCEPT !.extra = x, !.net = y] /\ \A u \in RiderWeeks : u # w => row'[u] = row[u]
    BY <2>2
  <2>4. row'[w] \in RiderRow /\ row'[w].status = row[w].status /\ row'[w].ref = row[w].ref
    <3>1. row[w] \in RiderRow
      BY Typed
    <3> QED
      BY <2>3, <3>1 DEF RiderRow
  <2> QED
    BY <1>2, <2>1, <2>2, <2>3, <2>4
<1>3. rtask[t].saw.extra + old.extra \in Int /\ rtask[t].saw.gross + (rtask[t].saw.extra + old.extra) \in Int
  BY Typed
<1> QED
  BY <1>1, <1>2, <1>3 DEF Move, RiderFinish

\* A request goes on to the next week of those left, or is done.
LEMMA SettleMoves ==
    ASSUME RiderInv, RiderConstantsOK, NEW t \in RiderTasks, Settle(t)
    PROVE  \E v \in RiderTask :
              /\ RiderBecomes(t, v) /\ Sane(v)
              /\ \/ v = RiderIdle
                 \/ v.pc = "existing" /\ v.op = rtask[t].op /\ v.w \in v.todo /\ v.todo \subseteq rtask[t].todo
<1>1. CASE rtask[t].op = "pay"
  BY <1>1, RiderIdleOK DEF Settle, RiderFinish
<1>2. CASE rtask[t].op = "bulk"
  BY <1>2, Typed, NextWeekIs DEF Settle
<1> QED
  BY <1>1, <1>2, Typed DEF Settle, RiderAt, Sane

\* Steps that write a payout, knowing it.
LEMMA RowInv ==
    ASSUME RiderInv, RiderConstantsOK, NEW t \in RiderTasks, Adjust(t) \/ Settle(t) \/ Move(t) PROVE RiderInv'
<1>1. UNCHANGED <<now, when, old, deposited, crashes>> /\ row' \in [RiderWeeks -> RiderRow]
  BY AdjustIs, SettleIs, MoveIs DEF Adjust, Settle, Move
<1>2. PICK v \in RiderTask : RiderBecomes(t, v) /\ Sane(v)
  <2>1. CASE Adjust(t)
    BY <2>1, RiderIdleOK DEF Adjust, RiderFinish
  <2>2. CASE Settle(t)
    BY <2>2, SettleMoves
  <2>3. CASE RiderBecomes(t, [rtask[t] EXCEPT !.pc = "drop"])
    <3>1. PICK v : v = [rtask[t] EXCEPT !.pc = "drop"]
      OBVIOUS
    <3>2. v \in RiderTask /\ v.pc = "drop"
      BY <3>1, Typed DEF RiderTask, RiderPcs
    <3> QED
      BY <2>3, <3>1, <3>2 DEF Sane, Computing
  <2>4. CASE RiderBecomes(t, RiderIdle)
    BY <2>4, RiderIdleOK
  <2> QED
    BY <2>1, <2>2, <2>3, <2>4, MoveIs
<1> QED
  BY <1>1, <1>2, RiderBecomeOK DEF RiderInv, RiderTypeOK

\* Steps after which the request is done.
LEMMA DoneInv ==
    ASSUME RiderInv, RiderConstantsOK, NEW t \in RiderTasks, Drop(t) \/ Deposit(t) \/ RiderDies(t) PROVE RiderInv'
<1>1. RiderBecomes(t, RiderIdle) /\ UNCHANGED <<now, when, row>>
  BY DEF Drop, Deposit, RiderDies, RiderFinish
<1>2. old' \in [status : RiderStatuses, extra : {0, 1}]
  BY DEF Drop, Deposit, RiderDies, RiderInv, RiderTypeOK, RiderStatuses
<1>3. deposited' \in Nat
  <2>1. CASE Deposit(t)
    BY <2>1, Typed DEF Deposit, RiderAt, Sane, RiderInv, RiderTypeOK
  <2>2. CASE Drop(t) \/ RiderDies(t)
    BY <2>2 DEF Drop, RiderDies, RiderInv, RiderTypeOK
  <2> QED
    BY <2>1, <2>2
<1>4. crashes' \in 0..MaxCrashes
  <2>1. crashes \in 0..MaxCrashes
    BY DEF RiderInv, RiderTypeOK
  <2>2. CASE RiderDies(t)
    BY <2>1, <2>2 DEF RiderDies, RiderConstantsOK
  <2>3. CASE Drop(t) \/ Deposit(t)
    BY <2>1, <2>3 DEF Drop, Deposit
  <2> QED
    BY <2>2, <2>3
<1> QED
  BY <1>1, <1>2, <1>3, <1>4, RiderIdleOK, RiderBecomeOK DEF RiderInv, RiderTypeOK

LEMMA WorldInv ==
    ASSUME RiderInv, RiderConstantsOK, WeekEnds \/ \E d \in Deliveries : Deliver(d) PROVE RiderInv'
<1>1. CASE WeekEnds
  <2>1. now + 1 \in 1..MaxWeek + 1
    BY <1>1 DEF WeekEnds, RiderInv, RiderTypeOK, RiderConstantsOK
  <2> QED
    BY <1>1, <2>1 DEF WeekEnds, RiderInv, RiderTypeOK
<1>2. ASSUME NEW d \in Deliveries, Deliver(d) PROVE RiderInv'
  <2>1. now \in 0..MaxWeek
    BY <1>2 DEF Deliver, RiderWeeks, RiderConstantsOK
  <2>2. when' \in [Deliveries -> [week : 0..MaxWeek, old : BOOLEAN]]
    BY <1>2, <2>1 DEF Deliver, RiderInv, RiderTypeOK
  <2> QED
    BY <1>2, <2>2 DEF Deliver, RiderInv, RiderTypeOK
<1> QED
  BY <1>1, <1>2

\* Every step preserves the invariant.
THEOREM RiderStepInv == ASSUME RiderConstantsOK PROVE RiderInv /\ [RiderNext]_riderVars => RiderInv'
<1> SUFFICES ASSUME RiderInv, [RiderNext]_riderVars PROVE RiderInv'
  OBVIOUS
<1>1. CASE UNCHANGED riderVars
  BY <1>1 DEF riderVars, RiderInv, RiderTypeOK
<1>2. ASSUME NEW t \in RiderTasks, RequestStep(t) PROVE RiderInv'
  BY <1>2, FindExistingInv, FindOverlapsInv, RemoveSupersededInv, AddUpInv, WriteRowInv, StartInv, RowInv, DoneInv
     DEF RequestStep
<1>3. ASSUME WeekEnds \/ \E d \in Deliveries : Deliver(d) PROVE RiderInv'
  BY <1>3, WorldInv
<1> QED
  BY <1>1, <1>2, <1>3 DEF RiderNext

\* The variables keep their types, however many requests are served at a time and die.
THEOREM RiderTypeCorrect == RiderSpec => []RiderTypeOK
<1>. USE RiderAssumption
<1>1. RiderInv => RiderTypeOK
  BY DEF RiderInv
<1> QED
  BY RiderInitInv, RiderStepInv, <1>1, PTL DEF RiderSpec

-----------------------------------------------------------------------------
(* A payout once paid.                                                     *)

\* The other steps leave the payouts alone.
LEMMA SameRows ==
    ASSUME RiderNext, ~\E t \in RiderTasks : WriteRow(t) \/ Adjust(t) \/ Settle(t) \/ Move(t)
    PROVE  UNCHANGED row
BY DEF RiderNext, RequestStep, FindExisting, FindOverlaps, RemoveSuperseded, AddUp, StartList, StartAdjust, StartPay,
       StartBulk, StartMigration, Drop, StartDeposit, Deposit, RiderDies, Deliver, WeekEnds

LEMMA StepStays == ASSUME RiderConstantsOK, RiderInv, [RiderNext]_riderVars PROVE StaysPaid
<1>1. CASE UNCHANGED row
  BY <1>1 DEF StaysPaid
<1>2. ASSUME NEW t \in RiderTasks, WriteRow(t) PROVE StaysPaid
  <2>1. row \in [RiderWeeks -> RiderRow]
    BY Typed
  <2>2. UNCHANGED row \/ (row[rtask[t].w].status # "paid" /\ \A w \in RiderWeeks : w # rtask[t].w => row'[w] = row[w])
    BY <1>2, <2>1 DEF WriteRow
  <2> QED
    BY <2>2 DEF StaysPaid
<1>3. ASSUME NEW t \in RiderTasks, Adjust(t) PROVE StaysPaid
  BY <1>3, AdjustIs DEF StaysPaid
<1>4. ASSUME NEW t \in RiderTasks, Settle(t) PROVE StaysPaid
  BY <1>4, SettleIs DEF StaysPaid
<1>5. ASSUME NEW t \in RiderTasks, Move(t) PROVE StaysPaid
  BY <1>5, MoveIs DEF StaysPaid
<1> QED
  BY <1>1, <1>2, <1>3, <1>4, <1>5, SameRows DEF riderVars

\* Once paid, a payout stays paid with the reference of its transfer, however many requests mark it
\* paid, recompute it or adjust it at the same time, and wherever one of them dies.
THEOREM PaidStaysPaid == RiderSpec => PaidForGood
<1>. USE RiderAssumption
<1>1. RiderInv /\ [RiderNext]_riderVars => [StaysPaid]_riderVars
  BY StepStays
<1> QED
  BY RiderInitInv, RiderStepInv, <1>1, PTL DEF RiderSpec, PaidForGood

-----------------------------------------------------------------------------
(* One request at a time: what a week was paid.                            *)

OneRequest == \A t, u \in RiderTasks : t = u

\* The payout of week w says what was earned and entered.
IsDue(w) == row[w].gross = Earned(w, old.status = "paid") /\ row[w].net = row[w].gross + row[w].extra

Paying(v) == v.pc \in Computing \union {"pay"} /\ v.op \in {"pay", "bulk"}

\* What the request with the registers v knows, as long as it is the only one.
RiderKnows(v) ==
    /\ Paying(v) => v.w < now /\ \A w \in v.todo : w < now
    /\ v.pc = "adjust" => row[v.w].status # "paid"
    /\ v.pc \in Computing \ {"existing"} => row[v.w].status # "paid" /\ v.saw = row[v.w]
    /\ v.pc \in {"remove", "earned", "write"} => v.excl = (old.status = "paid")
    /\ v.pc = "write" /\ v.op \in {"pay", "bulk"} => v.x = Earned(v.w, v.excl)
    /\ v.pc = "pay" => row[v.w].status = "paid" \/ IsDue(v.w)

Fair ==
    /\ RiderInv
    /\ \A w \in RiderWeeks : row[w].status = "paid" => w < now /\ IsDue(w)
    /\ \A t \in RiderTasks : RiderKnows(rtask[t])

LEMMA RiderIdleKnows == RiderKnows(RiderIdle) /\ RiderKnows(RiderIdle)'
BY DEF RiderIdle, RiderKnows, Paying, Computing

LEMMA RiderAloneOK ==
    ASSUME RiderInv, OneRequest, NEW t \in RiderTasks, NEW v, RiderBecomes(t, v), RiderKnows(v)'
    PROVE  \A u \in RiderTasks : RiderKnows(rtask[u])'
<1>1. rtask'[t] = v /\ \A u \in RiderTasks : u = t
  BY DEF RiderInv, RiderTypeOK, RiderBecomes, OneRequest
<1> QED
  BY <1>1

\* The request moves on, no payout changes, and the old row is not paid or deleted when it was.
LEMMA RiderMoved ==
    ASSUME Fair, RiderInv', OneRequest, NEW t \in RiderTasks, NEW v, RiderBecomes(t, v), RiderKnows(v)',
           UNCHANGED <<now, when, row>>, (old'.status = "paid") = (old.status = "paid")
    PROVE  Fair'
<1>1. \A w, x : Earned(w, x)' = Earned(w, x)
  BY DEF Earned
<1>2. \A w : IsDue(w)' <=> IsDue(w)
  BY <1>1 DEF IsDue
<1> QED
  BY <1>2, RiderAloneOK DEF Fair

\* The payout of one week changes.
LEMMA RowChanged ==
    ASSUME Fair, RiderInv', OneRequest, NEW t \in RiderTasks, NEW v, RiderBecomes(t, v), RiderKnows(v)',
           UNCHANGED <<now, when, old>>,
           NEW w, \A u \in RiderWeeks : u # w => row'[u] = row[u],
           w \in RiderWeeks /\ row'[w].status = "paid" => w < now /\ IsDue(w)'
    PROVE  Fair'
<1>1. \A u, x : Earned(u, x)' = Earned(u, x)
  BY DEF Earned
<1>2. \A u \in RiderWeeks : u # w => (IsDue(u)' <=> IsDue(u))
  BY <1>1 DEF IsDue
<1> QED
  BY <1>2, RiderAloneOK DEF Fair

LEMMA RiderKnown ==
    ASSUME Fair, RiderConstantsOK, NEW t \in RiderTasks
    PROVE  RiderKnows(rtask[t]) /\ rtask[t] \in RiderTask /\ rtask[t].w \in RiderWeeks /\ (rtask[t].pc \in Computing => rtask[t].op \in Calling)
BY Typed DEF Fair, Sane

LEMMA FindExistingFair == ASSUME Fair, RiderInv', RiderConstantsOK, OneRequest, NEW t \in RiderTasks, FindExisting(t) PROVE Fair'
<1>0. /\ RiderKnows(rtask[t]) /\ rtask[t] \in RiderTask /\ rtask[t].op \in Calling /\ rtask[t].pc = "existing"
      /\ row[rtask[t].w] \in RiderRow /\ UNCHANGED <<now, when, row, old>>
  BY RiderKnown, Typed DEF FindExisting, RiderAt, Computing, Fair
<1>1. CASE row[rtask[t].w].status = "paid" /\ Return(t, row[rtask[t].w])
  <2>1. PICK v \in RiderTask :
              /\ RiderBecomes(t, v)
              /\ \/ v = RiderIdle
                 \/ v.pc = "existing" /\ v.op = "list"
                 \/ v.pc = "move"
                 \/ /\ v.pc = "pay" /\ v.op \in {"pay", "bulk"} /\ v.op = rtask[t].op
                    /\ v.w = rtask[t].w /\ v.todo = rtask[t].todo
    BY <1>0, <1>1, ReturnIs
  <2>2. RiderKnows(v)'
    <3>1. CASE v = RiderIdle
      BY <3>1, RiderIdleKnows
    <3>2. CASE v.pc = "existing" /\ v.op = "list"
      BY <3>2 DEF RiderKnows, Paying
    <3>3. CASE v.pc = "move"
      BY <3>3 DEF RiderKnows, Paying, Computing
    <3>4. CASE v.pc = "pay" /\ v.op = rtask[t].op /\ v.w = rtask[t].w /\ v.todo = rtask[t].todo /\ v.op \in {"pay", "bulk"}
      <4>1. v.w < now /\ (\A w \in v.todo : w < now) /\ row[v.w].status = "paid"
        BY <1>0, <1>1, <3>4 DEF RiderKnows, Paying, Computing
      <4> QED
        BY <1>0, <3>4, <4>1 DEF RiderKnows, Computing
    <3> QED
      BY <2>1, <3>1, <3>2, <3>3, <3>4
  <2> QED
    BY <1>0, <2>1, <2>2, RiderMoved
<1>2. CASE row[rtask[t].w].status # "paid" /\ RiderBecomes(t, [rtask[t] EXCEPT !.pc = "overlaps", !.saw = row[rtask[t].w]])
  <2>1. PICK v : v = [rtask[t] EXCEPT !.pc = "overlaps", !.saw = row[rtask[t].w]]
    OBVIOUS
  <2>2. /\ v.pc = "overlaps" /\ v.op = rtask[t].op /\ v.w = rtask[t].w /\ v.todo = rtask[t].todo
        /\ v.saw = row[rtask[t].w]
    BY <1>0, <2>1 DEF RiderTask
  <2>3. RiderKnows(v)'
    BY <1>0, <1>2, <2>2 DEF RiderKnows, Paying, Computing
  <2> QED
    BY <1>0, <1>2, <2>1, <2>3, RiderMoved
<1> QED
  BY <1>1, <1>2 DEF FindExisting

LEMMA FindOverlapsFair == ASSUME Fair, RiderInv', RiderConstantsOK, OneRequest, NEW t \in RiderTasks, FindOverlaps(t) PROVE Fair'
<1>1. PICK excl \in BOOLEAN : excl = (old.status = "paid")
  OBVIOUS
<1>2. PICK pc \in {"remove", "earned"} : RiderBecomes(t, [rtask[t] EXCEPT !.pc = pc, !.excl = excl])
  BY <1>1 DEF FindOverlaps
<1>3. PICK v : v = [rtask[t] EXCEPT !.pc = pc, !.excl = excl]
  OBVIOUS
<1>4. /\ RiderKnows(rtask[t]) /\ rtask[t] \in RiderTask /\ rtask[t].pc = "overlaps" /\ UNCHANGED <<now, when, row, old>>
  BY RiderKnown DEF FindOverlaps, RiderAt
<1>5. /\ v.pc = pc /\ v.op = rtask[t].op /\ v.w = rtask[t].w /\ v.todo = rtask[t].todo
      /\ v.saw = rtask[t].saw /\ v.excl = excl
  BY <1>3, <1>4 DEF RiderTask
<1>6. RiderKnows(v)'
  BY <1>1, <1>4, <1>5 DEF RiderKnows, Paying, Computing
<1> QED
  BY <1>2, <1>3, <1>4, <1>6, RiderMoved

LEMMA RemoveSupersededFair == ASSUME Fair, RiderInv', RiderConstantsOK, OneRequest, NEW t \in RiderTasks, RemoveSuperseded(t) PROVE Fair'
<1>1. PICK v : v = [rtask[t] EXCEPT !.pc = "earned"]
  OBVIOUS
<1>2. /\ RiderKnows(rtask[t]) /\ rtask[t] \in RiderTask /\ rtask[t].pc = "remove" /\ UNCHANGED <<now, when, row>> /\ RiderBecomes(t, v)
  BY <1>1, RiderKnown DEF RemoveSuperseded, RiderAt
<1>3. (old'.status = "paid") = (old.status = "paid")
  BY DEF RemoveSuperseded, Fair, RiderInv, RiderTypeOK
<1>4. /\ v.pc = "earned" /\ v.op = rtask[t].op /\ v.w = rtask[t].w /\ v.todo = rtask[t].todo
      /\ v.saw = rtask[t].saw /\ v.excl = rtask[t].excl
  BY <1>1, <1>2 DEF RiderTask
<1>5. RiderKnows(v)'
  BY <1>2, <1>3, <1>4 DEF RiderKnows, Paying, Computing
<1> QED
  BY <1>2, <1>3, <1>5, RiderMoved

LEMMA AddUpFair == ASSUME Fair, RiderInv', RiderConstantsOK, OneRequest, NEW t \in RiderTasks, AddUp(t) PROVE Fair'
<1>1. PICK x : x = Earned(rtask[t].w, rtask[t].excl)
  OBVIOUS
<1>2. PICK v : v = [rtask[t] EXCEPT !.pc = "write", !.x = x]
  OBVIOUS
<1>3. /\ RiderKnows(rtask[t]) /\ rtask[t] \in RiderTask /\ rtask[t].pc = "earned" /\ UNCHANGED <<now, when, row, old>> /\ RiderBecomes(t, v)
  BY <1>1, <1>2, RiderKnown DEF AddUp, RiderAt
<1>4. /\ v.pc = "write" /\ v.op = rtask[t].op /\ v.w = rtask[t].w /\ v.todo = rtask[t].todo
      /\ v.saw = rtask[t].saw /\ v.excl = rtask[t].excl /\ v.x = x
  BY <1>2, <1>3 DEF RiderTask
<1>5. Earned(v.w, v.excl)' = x
  BY <1>1, <1>3, <1>4 DEF Earned
<1>6. RiderKnows(v)'
  BY <1>3, <1>4, <1>5 DEF RiderKnows, Paying, Computing
<1> QED
  BY <1>3, <1>6, RiderMoved

\* The payout written is due, as far as the week is over.
LEMMA WriteRowFair == ASSUME Fair, RiderInv', RiderConstantsOK, OneRequest, NEW t \in RiderTasks, WriteRow(t) PROVE Fair'
<1>1. PICK w \in RiderWeeks : w = rtask[t].w
  BY RiderKnown
<1>2. PICK r : r = [row[w] EXCEPT !.status = "pending", !.gross = rtask[t].x, !.net = rtask[t].x + rtask[t].saw.extra]
  OBVIOUS
<1>3. /\ RiderKnows(rtask[t]) /\ rtask[t] \in RiderTask /\ rtask[t].pc = "write" /\ rtask[t].op \in Calling
      /\ UNCHANGED <<now, when, old>>
  BY RiderKnown DEF WriteRow, RiderAt, Computing
<1>4. /\ row[w] \in RiderRow /\ row[w].status # "paid" /\ rtask[t].saw = row[w]
      /\ rtask[t].excl = (old.status = "paid") /\ row \in [RiderWeeks -> RiderRow]
  BY <1>1, <1>3, Typed DEF RiderKnows, Computing, Fair
<1>5. Return(t, r) /\ row' = [row EXCEPT ![w] = r]
  BY <1>1, <1>2, <1>4 DEF WriteRow
<1>6. /\ r.status = "pending" /\ r.gross = rtask[t].x /\ r.net = r.gross + r.extra
      /\ rtask[t].x \in Nat
  BY <1>2, <1>3, <1>4, Typed DEF RiderRow, Sane, Fair
<1>7. r \in RiderRow
  <2>1. row'[w] = r /\ row' \in [RiderWeeks -> RiderRow]
    BY <1>4, <1>5 DEF RiderInv, RiderTypeOK
  <2> QED
    BY <2>1
<1>8. PICK v \in RiderTask :
              /\ RiderBecomes(t, v)
              /\ \/ v = RiderIdle
                 \/ v.pc = "existing" /\ v.op = "list"
                 \/ v.pc = "move"
                 \/ /\ v.pc = "pay" /\ v.op \in {"pay", "bulk"} /\ v.op = rtask[t].op
                    /\ v.w = rtask[t].w /\ v.todo = rtask[t].todo
  BY <1>3, <1>5, <1>7, ReturnIs
<1>9. RiderKnows(v)'
  <2>1. CASE v = RiderIdle
    BY <2>1, RiderIdleKnows
  <2>2. CASE v.pc = "existing" /\ v.op = "list"
    BY <2>2 DEF RiderKnows, Paying
  <2>3. CASE v.pc = "move"
    BY <2>3 DEF RiderKnows, Paying, Computing
  <2>4. CASE v.pc = "pay" /\ v.op = rtask[t].op /\ v.w = rtask[t].w /\ v.todo = rtask[t].todo /\ v.op \in {"pay", "bulk"}
    <3>1. v.w < now /\ (\A u \in v.todo : u < now) /\ r.gross = Earned(w, old.status = "paid")
      BY <1>1, <1>3, <1>4, <1>6, <2>4 DEF RiderKnows, Paying, Computing
    <3>2. row'[w] = r /\ Earned(w, old.status = "paid")' = Earned(w, old.status = "paid")
      BY <1>3, <1>4, <1>5 DEF Earned
    <3>3. IsDue(w)'
      BY <1>6, <3>1, <3>2 DEF IsDue
    <3> QED
      BY <1>1, <1>3, <2>4, <3>1, <3>3 DEF RiderKnows, Paying, Computing
  <2> QED
    BY <1>8, <2>1, <2>2, <2>3, <2>4
<1>10. row'[w].status # "paid" /\ \A u \in RiderWeeks : u # w => row'[u] = row[u]
  BY <1>4, <1>5, <1>6
<1> QED
  BY <1>3, <1>8, <1>9, <1>10, RowChanged

LEMMA AdjustFair == ASSUME Fair, RiderInv', RiderConstantsOK, OneRequest, NEW t \in RiderTasks, Adjust(t) PROVE Fair'
<1>1. PICK w \in RiderWeeks : w = rtask[t].w
  BY RiderKnown
<1>2. row[w].status # "paid" /\ RiderBecomes(t, RiderIdle) /\ UNCHANGED <<now, when, old>>
  BY <1>1, RiderKnown DEF Adjust, RiderAt, RiderFinish, RiderKnows
<1>3. row'[w].status # "paid" /\ \A u \in RiderWeeks : u # w => row'[u] = row[u]
  BY <1>1, <1>2, AdjustIs DEF Fair
<1> QED
  BY <1>2, <1>3, RiderIdleKnows, RowChanged

LEMMA SettleFair == ASSUME Fair, RiderInv', RiderConstantsOK, OneRequest, NEW t \in RiderTasks, Settle(t) PROVE Fair'
<1>1. PICK w \in RiderWeeks : w = rtask[t].w
  BY RiderKnown
<1>2. /\ RiderKnows(rtask[t]) /\ rtask[t].pc = "pay" /\ rtask[t].op \in {"pay", "bulk"} /\ UNCHANGED <<now, when, old>>
  BY RiderKnown, Typed DEF Settle, RiderAt, Sane, Fair
<1>3. w < now /\ (\A u \in rtask[t].todo : u < now) /\ (row[w].status = "paid" \/ IsDue(w))
  BY <1>1, <1>2 DEF RiderKnows, Paying
<1>4. PICK v \in RiderTask :
              /\ RiderBecomes(t, v)
              /\ \/ v = RiderIdle
                 \/ v.pc = "existing" /\ v.op = rtask[t].op /\ v.w \in v.todo /\ v.todo \subseteq rtask[t].todo
  BY SettleMoves DEF Fair
<1>5. RiderKnows(v)'
  <2>1. CASE v = RiderIdle
    BY <2>1, RiderIdleKnows
  <2>2. CASE v.pc = "existing" /\ v.w \in v.todo /\ v.todo \subseteq rtask[t].todo
    BY <1>2, <1>3, <2>2 DEF RiderKnows, Paying, Computing
  <2> QED
    BY <1>4, <2>1, <2>2
<1>6. \A u \in RiderWeeks : u # w => row'[u] = row[u]
  BY <1>1, SettleIs DEF Fair
<1>7. row'[w].status = "paid" => IsDue(w)'
  <2>1. Earned(w, old.status = "paid")' = Earned(w, old.status = "paid")
    BY <1>2 DEF Earned
  <2>2. row[w].status = "paid" => IsDue(w)
    BY DEF Fair
  <2>3. \/ row'[w] = row[w]
        \/ /\ row[w].status = "pending"
           /\ row'[w].gross = row[w].gross /\ row'[w].extra = row[w].extra /\ row'[w].net = row[w].net
    BY SettleIs DEF Fair
  <2> QED
    BY <1>2, <1>3, <2>1, <2>2, <2>3 DEF IsDue
<1> QED
  BY <1>2, <1>3, <1>4, <1>5, <1>6, <1>7, RowChanged

LEMMA MoveFair == ASSUME Fair, RiderInv', RiderConstantsOK, OneRequest, NEW t \in RiderTasks, Move(t) PROVE Fair'
<1>1. PICK v : RiderBecomes(t, v) /\ v.pc \in {"drop", "idle"}
  <2>1. CASE RiderBecomes(t, [rtask[t] EXCEPT !.pc = "drop"])
    <3>1. PICK v : v = [rtask[t] EXCEPT !.pc = "drop"]
      OBVIOUS
    <3>2. v.pc = "drop"
      BY <3>1, RiderKnown DEF RiderTask
    <3> QED
      BY <2>1, <3>1, <3>2
  <2>2. CASE RiderBecomes(t, RiderIdle)
    BY <2>2, RiderIdleOK
  <2> QED
    BY <2>1, <2>2, MoveIs DEF Fair
<1>2. RiderKnows(v)'
  BY <1>1 DEF RiderKnows, Paying, Computing
<1>3. \A u \in RiderWeeks : u # 1 => row'[u] = row[u]
  BY MoveIs DEF Fair
<1>4. 1 \in RiderWeeks /\ UNCHANGED <<now, when, old>>
  BY RiderIdleOK DEF Move
<1>5. CASE row'[1] = row[1]
  <2>1. UNCHANGED row
    BY <1>3, <1>4, <1>5, Typed DEF Fair, RiderInv, RiderTypeOK
  <2> QED
    BY <1>1, <1>2, <1>4, <2>1, RiderMoved
<1>6. CASE row'[1].status = "pending"
  BY <1>1, <1>2, <1>3, <1>4, <1>6, RowChanged
<1> QED
  BY <1>4, <1>5, <1>6, MoveIs DEF Fair

LEMMA DoneFair == ASSUME Fair, RiderInv', RiderConstantsOK, OneRequest, NEW t \in RiderTasks, Drop(t) \/ Deposit(t) \/ RiderDies(t) PROVE Fair'
<1>1. RiderBecomes(t, RiderIdle) /\ UNCHANGED <<now, when, row>> /\ (old'.status = "paid") = (old.status = "paid")
  BY DEF Drop, Deposit, RiderDies, RiderFinish
<1> QED
  BY <1>1, RiderIdleKnows, RiderMoved

LEMMA StartFair ==
    ASSUME Fair, RiderInv', RiderConstantsOK, OneRequest, NEW t \in RiderTasks,
           StartList(t) \/ StartAdjust(t) \/ StartPay(t) \/ StartBulk(t) \/ StartMigration(t) \/ StartDeposit(t)
    PROVE  Fair'
<1>0. UNCHANGED <<now, when, row, old>> /\ (old'.status = "paid") = (old.status = "paid")
  BY DEF StartList, StartAdjust, StartPay, StartBulk, StartMigration, StartDeposit
<1>1. CASE StartList(t)
  <2>1. PICK todo \in SUBSET RiderWeeks :
           RiderBecomes(t, [RiderIdle EXCEPT !.pc = "existing", !.op = "list", !.todo = todo, !.w = Least(todo)])
    BY <1>1 DEF StartList
  <2>2. PICK v : v = [RiderIdle EXCEPT !.pc = "existing", !.op = "list", !.todo = todo, !.w = Least(todo)]
    OBVIOUS
  <2>3. v.pc = "existing" /\ v.op = "list"
    BY <2>2 DEF RiderIdle
  <2>4. RiderKnows(v)'
    BY <2>3 DEF RiderKnows, Paying
  <2> QED
    BY <1>0, <2>1, <2>2, <2>4, RiderMoved
<1>2. CASE StartAdjust(t)
  <2>1. PICK w \in RiderWeeks, x \in Extras :
            /\ row[w].status = "pending"
            /\ RiderBecomes(t, [RiderIdle EXCEPT !.pc = "adjust", !.op = "adjust", !.w = w, !.saw = row[w], !.x = x])
    BY <1>2 DEF StartAdjust
  <2>2. PICK v : v = [RiderIdle EXCEPT !.pc = "adjust", !.op = "adjust", !.w = w, !.saw = row[w], !.x = x]
    OBVIOUS
  <2>3. v.pc = "adjust" /\ v.w = w
    BY <2>2 DEF RiderIdle
  <2>4. RiderKnows(v)'
    BY <1>0, <2>1, <2>3 DEF RiderKnows, Paying, Computing
  <2> QED
    BY <1>0, <2>1, <2>2, <2>4, RiderMoved
<1>3. CASE StartPay(t)
  <2>1. PICK w \in RiderWeeks, f \in Refs :
            w < now /\ RiderBecomes(t, [RiderIdle EXCEPT !.pc = "existing", !.op = "pay", !.w = w, !.ref = f])
    BY <1>3 DEF StartPay, Payable
  <2>2. PICK v : v = [RiderIdle EXCEPT !.pc = "existing", !.op = "pay", !.w = w, !.ref = f]
    OBVIOUS
  <2>3. v.pc = "existing" /\ v.w = w /\ v.todo = {}
    BY <2>2 DEF RiderIdle
  <2>4. RiderKnows(v)'
    BY <1>0, <2>1, <2>3 DEF RiderKnows
  <2> QED
    BY <1>0, <2>1, <2>2, <2>4, RiderMoved
<1>4. CASE StartBulk(t)
  <2>1. PICK S \in SUBSET {w \in RiderWeeks : Payable(w)} :
           S # {} /\ RiderBecomes(t, [RiderIdle EXCEPT !.pc = "existing", !.op = "bulk", !.todo = S, !.w = Least(S)])
    BY <1>4 DEF StartBulk
  <2>2. Least(S) \in S /\ \A w \in S : w < now
    BY <2>1, LeastOK DEF RiderWeeks, Payable
  <2>3. PICK v : v = [RiderIdle EXCEPT !.pc = "existing", !.op = "bulk", !.todo = S, !.w = Least(S)]
    OBVIOUS
  <2>4. v.pc = "existing" /\ v.w = Least(S) /\ v.todo = S
    BY <2>3 DEF RiderIdle
  <2>5. RiderKnows(v)'
    BY <1>0, <2>2, <2>4 DEF RiderKnows
  <2> QED
    BY <1>0, <2>1, <2>3, <2>5, RiderMoved
<1>5. CASE StartMigration(t)
  <2>1. PICK pc \in {"drop", "existing"} : RiderBecomes(t, [RiderIdle EXCEPT !.pc = pc, !.op = "migrate"])
    BY <1>5 DEF StartMigration
  <2>2. PICK v : v = [RiderIdle EXCEPT !.pc = pc, !.op = "migrate"]
    OBVIOUS
  <2>3. v.pc = pc /\ v.op = "migrate"
    BY <2>2 DEF RiderIdle
  <2>4. RiderKnows(v)'
    BY <2>3 DEF RiderKnows, Paying, Computing
  <2> QED
    BY <1>0, <2>1, <2>2, <2>4, RiderMoved
<1>6. CASE StartDeposit(t)
  <2>1. PICK a \in 1..Cardinality(Deliveries) : RiderBecomes(t, [RiderIdle EXCEPT !.pc = "deposit", !.op = "deposit", !.x = a])
    BY <1>6 DEF StartDeposit
  <2>2. PICK v : v = [RiderIdle EXCEPT !.pc = "deposit", !.op = "deposit", !.x = a]
    OBVIOUS
  <2>3. v.pc = "deposit"
    BY <2>2 DEF RiderIdle
  <2>4. RiderKnows(v)'
    BY <2>3 DEF RiderKnows, Paying, Computing
  <2> QED
    BY <1>0, <2>1, <2>2, <2>4, RiderMoved
<1> QED
  BY <1>1, <1>2, <1>3, <1>4, <1>5, <1>6

\* The world goes on: what was earned in a week that is over stays so.
LEMMA WorldFair ==
    ASSUME Fair, RiderInv', RiderConstantsOK, WeekEnds \/ \E d \in Deliveries : Deliver(d) PROVE Fair'
<1>1. UNCHANGED <<row, old, rtask>> /\ now \in Nat /\ now' \in Nat /\ now <= now'
  <2>1. now \in Nat
    BY DEF Fair, RiderInv, RiderTypeOK
  <2> QED
    BY <2>1 DEF WeekEnds, Deliver
<1>2. \A w \in RiderWeeks : \A x : w < now => Earned(w, x)' = Earned(w, x)
  <2>1. CASE WeekEnds
    BY <2>1 DEF WeekEnds, Earned
  <2>2. ASSUME NEW e \in Deliveries, Deliver(e), NEW w \in RiderWeeks, NEW x, w < now
        PROVE  Earned(w, x)' = Earned(w, x)
    <3>1. w # 0 /\ w # now
      BY <1>1, <2>2 DEF RiderWeeks
    <3>2. when'[e].week # w /\ when[e].week # w
      BY <2>2, <3>1 DEF Deliver, Fair, RiderInv, RiderTypeOK
    <3>3. \A d \in Deliveries : d # e => when'[d] = when[d]
      BY <2>2 DEF Deliver, Fair, RiderInv, RiderTypeOK
    <3>4. {d \in Deliveries : when'[d].week = w /\ ~(x /\ when'[d].old)}
            = {d \in Deliveries : when[d].week = w /\ ~(x /\ when[d].old)}
      BY <3>2, <3>3
    <3> QED
      BY <3>4 DEF Earned
  <2> QED
    BY <2>1, <2>2
<1>3. \A w \in RiderWeeks : w < now => (IsDue(w)' <=> IsDue(w)) /\ w < now'
  BY <1>1, <1>2 DEF IsDue, RiderWeeks
<1>4. \A w \in RiderWeeks : row'[w].status = "paid" => w < now' /\ IsDue(w)'
  BY <1>1, <1>3 DEF Fair
<1>5. ASSUME NEW t \in RiderTasks PROVE RiderKnows(rtask[t])'
  <2>1. PICK v : v = rtask[t] /\ v = rtask'[t]
    BY <1>1
  <2>2. v \in RiderTask /\ v.w \in RiderWeeks /\ v.todo \in SUBSET RiderWeeks /\ RiderKnows(v) /\ Sane(v)
    BY <2>1, Typed DEF Fair
  <2>3. Paying(v) => v.w < now' /\ \A w \in v.todo : w < now'
    BY <1>3, <2>2 DEF RiderKnows
  <2>4. v.pc = "write" /\ v.op \in {"pay", "bulk"} => v.x = Earned(v.w, v.excl)'
    BY <1>2, <2>2 DEF RiderKnows, Paying, Computing
  <2>5. v.pc = "pay" => row'[v.w].status = "paid" \/ IsDue(v.w)'
    BY <1>1, <1>3, <2>2 DEF RiderKnows, Paying, Sane
  <2>6. RiderKnows(v)'
    BY <1>1, <2>2, <2>3, <2>4, <2>5 DEF RiderKnows
  <2> QED
    BY <2>1, <2>6
<1> QED
  BY <1>4, <1>5 DEF Fair

LEMMA InitFair == ASSUME RiderConstantsOK, RiderInit PROVE Fair
<1>1. \A t \in RiderTasks : RiderKnows(rtask[t])
  BY RiderIdleKnows DEF RiderInit
<1>2. \A w \in RiderWeeks : row[w].status # "paid"
  BY DEF RiderInit, NoRiderRow
<1> QED
  BY <1>1, <1>2, RiderInitInv DEF Fair

LEMMA NextFair == ASSUME RiderConstantsOK, OneRequest, Fair, [RiderNext]_riderVars PROVE Fair'
<1>0. RiderInv'
  BY RiderStepInv DEF Fair
<1>1. CASE UNCHANGED riderVars
  <2>1. \A w, x : Earned(w, x)' = Earned(w, x)
    BY <1>1 DEF riderVars, Earned
  <2>2. \A w : IsDue(w)' <=> IsDue(w)
    BY <1>1, <2>1 DEF riderVars, IsDue
  <2>3. \A t \in RiderTasks : RiderKnows(rtask[t])'
    BY <1>1, <2>1, <2>2 DEF riderVars, RiderKnows, Fair
  <2> QED
    BY <1>0, <1>1, <2>2, <2>3 DEF riderVars, Fair
<1>2. ASSUME NEW t \in RiderTasks, RequestStep(t) PROVE Fair'
  BY <1>0, <1>2, FindExistingFair, FindOverlapsFair, RemoveSupersededFair, AddUpFair, WriteRowFair, StartFair,
     AdjustFair, SettleFair, MoveFair, DoneFair DEF RequestStep
<1>3. ASSUME WeekEnds \/ \E d \in Deliveries : Deliver(d) PROVE Fair'
  BY <1>0, <1>3, WorldFair
<1> QED
  BY <1>1, <1>2, <1>3 DEF RiderNext

\* With one request at a time, whichever of them die, a rider's week is paid for every delivery made
\* in it and for none that the row of an old week had paid, and with what administrators entered.
THEOREM PaysWhatWasEarned == ASSUME OneRequest PROVE RiderSpec => []PaidIsEarned
<1>. USE RiderAssumption
<1>1. RiderInit => Fair
  BY InitFair
<1>2. Fair /\ [RiderNext]_riderVars => Fair'
  BY NextFair
<1>3. Fair => PaidIsEarned
  BY DEF Fair, PaidIsEarned, IsDue
<1> QED
  BY <1>1, <1>2, <1>3, PTL DEF RiderSpec
=============================================================================
